---------------------- MODULE AntigravityBridgeProofs ----------------------
(***************************************************************************)
(* Proofs about AntigravityBridge for any number of chats, processes and   *)
(* conversations: types, the one process of a provider, what a chat starts *)
(* and leaves behind, which answer a chat takes and which conversation it  *)
(* goes on with.                                                           *)
(***************************************************************************)
EXTENDS AntigravityBridge, FiniteSetTheorems, TLAPS

USE BridgeAssumption DEF NoConv, NoProc

-----------------------------------------------------------------------------
(* The list of processes.                                                  *)

LEMMA Updated ==
  ASSUME NEW S, NEW ps \in Seq(S), NEW p \in DOMAIN ps, NEW q \in S
  PROVE  /\ [ps EXCEPT ![p] = q] \in Seq(S)
         /\ Len([ps EXCEPT ![p] = q]) = Len(ps)
         /\ DOMAIN [ps EXCEPT ![p] = q] = DOMAIN ps
         /\ [ps EXCEPT ![p] = q][p] = q
         /\ \A r \in DOMAIN ps : r # p => [ps EXCEPT ![p] = q][r] = ps[r]
OBVIOUS

LEMMA Grown ==
  ASSUME NEW S, NEW ps \in Seq(S), NEW q \in S
  PROVE  /\ Append(ps, q) \in Seq(S)
         /\ Len(Append(ps, q)) = Len(ps) + 1
         /\ DOMAIN ps = 1..Len(ps) /\ DOMAIN Append(ps, q) = 1..(Len(ps) + 1)
         /\ Append(ps, q)[Len(ps) + 1] = q
         /\ \A r \in DOMAIN ps : Append(ps, q)[r] = ps[r]
OBVIOUS

LEMMA Nothing == \A S : << >> \in Seq(S) /\ Len(<< >>) = 0
OBVIOUS

LEMMA Parted ==
  ASSUME NEW S, NEW s \in Seq(S), s # << >>
  PROVE  Head(s) \in S /\ Tail(s) \in Seq(S)
OBVIOUS

\* Reading from one end of a pipe and writing to the other.
LEMMA TailShape ==
  ASSUME NEW S, NEW s \in Seq(S), s # << >>
  PROVE  /\ DOMAIN s = 1..Len(s) /\ Len(s) \in Nat /\ Len(s) >= 1
         /\ Head(s) = s[1]
         /\ Tail(s) \in Seq(S) /\ Len(Tail(s)) = Len(s) - 1
         /\ DOMAIN Tail(s) = 1..(Len(s) - 1)
         /\ \A i \in 1..(Len(s) - 1) : Tail(s)[i] = s[i + 1]
OBVIOUS

LEMMA EmptyShape ==
  ASSUME NEW S, NEW s \in Seq(S)
  PROVE  /\ s = << >> <=> Len(s) = 0
         /\ DOMAIN s = 1..Len(s) /\ Len(s) \in Nat
OBVIOUS

\* What a process that was just started looks like.
Fresh == [state |-> "running", expiry |-> FALSE, conv |-> sessConv,
          announced |-> FALSE, stdin |-> << >>, stdout |-> << >>,
          provider |-> provider, chat |-> chats, home |-> WithRole]

-----------------------------------------------------------------------------
(* Types and processes, whatever on_init does.                             *)

Busy == pc # "idle"

\* A chat at work has a session; a restart has closed the process it had.
ChatStarted ==
  /\ Busy => session /\ chats # 0
  /\ ~session \/ pc = "restart" => proc = NoProc

\* Processes of the provider and of those it replaced.
Owned ==
  /\ \A p \in DOMAIN procs : procs[p].provider <= provider
  /\ proc # NoProc => procs[proc].provider = provider
  /\ OneProcess

\* An expiry is reported by a process that is over, of a conversation that is.
ExpiryTrue ==
  \A p \in DOMAIN procs :
     procs[p].expiry => procs[p].state # "running" /\ procs[p].conv \in expired

ProcInv == TypeOK /\ ChatStarted /\ Owned /\ ExpiryTrue

LEMMA ProcStarts == Init => ProcInv
<1> SUFFICES ASSUME Init PROVE ProcInv
  OBVIOUS
<1>1. procs = << >> /\ procs \in Seq(Process) /\ Len(procs) = 0 /\ DOMAIN procs = {}
  BY Nothing DEF Init
<1>2. TypeOK
  <2>1. {given, header, provConv, sessConv} \subseteq 0..MaxConvs
    BY DEF Init
  <2>2. provider \in 1..(MaxChats + 1) /\ chats \in 0..MaxChats
    BY DEF Init
  <2>3. convs \in 0..MaxConvs /\ expired \subseteq 1..convs
    BY DEF Init
  <2>4. session \in BOOLEAN /\ attempt \in 1..4
    <3>1. session = FALSE /\ attempt = 1
      BY DEF Init
    <3>2. session \in BOOLEAN
      BY <3>1, Zenon
    <3> QED
      BY <3>1, <3>2
  <2>5. proc \in 0..Len(procs) /\ Len(procs) <= MaxProcesses
    BY <1>1 DEF Init
  <2>6. pc = "idle" /\ unheard = {}
    BY DEF Init
  <2> QED
    BY <1>1, <2>1, <2>2, <2>3, <2>4, <2>5, <2>6 DEF TypeOK
<1> QED
  BY <1>1, <1>2 DEF Init, ProcInv, ChatStarted, Busy, Owned, OneProcess, ExpiryTrue

LEMMA FreshIsProcess == ProcInv /\ Busy => Fresh \in Process
BY DEF ProcInv, TypeOK, ChatStarted, Fresh, Process, Line

\* Launching when no process of the provider is at work.
LEMMA LaunchKeeps ==
  ASSUME ProcInv, Busy, Launch, ~IsRunning,
         pc' \in {"ready", "writing"},
         UNCHANGED << chats, attempt, given, header, provider, provConv,
                      session, sessConv, answer, remote, unheard >>
  PROVE  ProcInv'
<1> USE DEF ProcInv
<1>1. /\ procs' = Append(procs, Fresh) /\ proc' = Len(procs')
      /\ Len(procs) < MaxProcesses /\ procs \in Seq(Process)
  BY DEF Launch, Fresh, TypeOK
<1>2. /\ procs' \in Seq(Process) /\ Len(procs') = Len(procs) + 1
      /\ DOMAIN procs = 1..Len(procs) /\ DOMAIN procs' = 1..(Len(procs) + 1)
      /\ procs'[Len(procs) + 1] = Fresh
      /\ \A r \in DOMAIN procs : procs'[r] = procs[r]
      /\ Len(procs) \in Nat
  BY <1>1, FreshIsProcess, Grown
<1>3. TypeOK'
  BY <1>1, <1>2 DEF TypeOK, remote
<1>4. ChatStarted'
  BY DEF ChatStarted, Busy
<1>5. Owned'
  <2>1. \A p \in DOMAIN procs' : procs'[p].provider <= provider'
    BY <1>2 DEF Owned, Fresh, TypeOK
  <2>2. procs'[proc'].provider = provider'
    BY <1>1, <1>2 DEF Fresh
  <2>3. \A p \in DOMAIN procs :
           procs[p].provider = provider => procs[p].state = "dead"
    <3>1. CASE proc = NoProc
      BY <1>2, <3>1 DEF Owned, OneProcess
    <3>2. CASE proc # NoProc
      BY <3>2 DEF Owned, OneProcess, IsRunning
    <3> QED
      BY <3>1, <3>2
  <2>4. OneProcess'
    BY <1>1, <1>2, <2>3 DEF OneProcess
  <2> QED
    BY <2>1, <2>2, <2>4 DEF Owned
<1>6. ExpiryTrue'
  BY <1>2 DEF ExpiryTrue, Fresh, remote
<1> QED
  BY <1>3, <1>4, <1>5, <1>6

\* A step that changes one process but not whose it is, and revives nobody.
LEMMA UpdateKeeps ==
  ASSUME ProcInv, NEW p \in DOMAIN procs, NEW q \in Process,
         procs' = [procs EXCEPT ![p] = q],
         q.provider = procs[p].provider,
         procs[p].state = "dead" => q.state = "dead",
         q.expiry => q.state # "running" /\ q.conv \in expired',
         expired \subseteq expired', UNCHANGED << provider, proc >>
  PROVE  /\ procs' \in Seq(Process) /\ Len(procs') = Len(procs)
         /\ DOMAIN procs' = DOMAIN procs
         /\ Owned' /\ ExpiryTrue'
<1>1. /\ procs' \in Seq(Process) /\ Len(procs') = Len(procs)
      /\ DOMAIN procs' = DOMAIN procs
      /\ procs'[p] = q
      /\ \A r \in DOMAIN procs : r # p => procs'[r] = procs[r]
  BY Updated DEF ProcInv, TypeOK
<1>2. DOMAIN procs = 1..Len(procs) /\ proc \in 0..Len(procs)
  BY DEF ProcInv, TypeOK
<1>3. \A r \in DOMAIN procs : procs'[r].provider = procs[r].provider
  BY <1>1
<1>4. Owned'
  BY <1>1, <1>2, <1>3 DEF ProcInv, Owned, OneProcess
<1>5. ExpiryTrue'
  BY <1>1 DEF ProcInv, ExpiryTrue
<1> QED
  BY <1>1, <1>4, <1>5

\* A step that leaves the processes, and whose they are, alone.
LEMMA OwnedStays ==
  ASSUME ProcInv, UNCHANGED << procs, provider, proc >>, expired \subseteq expired'
  PROVE  Owned' /\ ExpiryTrue'
BY DEF ProcInv, Owned, OneProcess, ExpiryTrue

-----------------------------------------------------------------------------
\* What each step makes of a process.

LEMMA ProcFields ==
  ASSUME ProcInv, NEW p \in DOMAIN procs
  PROVE  /\ procs[p] \in Process
         /\ procs[p].stdin \in Seq(1..MaxChats)
         /\ procs[p].stdout \in Seq(Line)
         /\ procs[p].conv \in 0..MaxConvs
<1>1. procs[p] \in Process
  BY DEF ProcInv, TypeOK
<1> QED
  BY <1>1 DEF Process

LEMMA ProcAtWork ==
  ASSUME ProcInv, pc \in {"writing", "reading"}
  PROVE  proc \in DOMAIN procs /\ proc # NoProc
BY DEF ProcInv, TypeOK

Took(p, n) == [procs[p] EXCEPT !.stdin = Append(procs[p].stdin, n)]
Gave(p)    == [procs[p] EXCEPT !.stdout = Tail(procs[p].stdout)]
Shut(p)    == [procs[p] EXCEPT !.home = FALSE, !.stdout = << >>]
Told(p, c) == [procs[p] EXCEPT !.announced = TRUE, !.conv = c,
                               !.stdout = Append(procs[p].stdout, InitLine(c))]
Worked(p)  == [procs[p] EXCEPT !.stdin = Tail(procs[p].stdin),
                 !.stdout = Append(procs[p].stdout,
                                   ResultLine(Head(procs[p].stdin)))]
Ended(p, expiry) == [procs[p] EXCEPT !.state = "closing", !.expiry = expiry,
                                     !.stdin = << >>]
Gone(p)    == [procs[p] EXCEPT !.state = "dead"]

LEMMA WriteShape ==
  ASSUME ProcInv, WritePrompt
  PROVE  /\ proc \in DOMAIN procs /\ Took(proc, chats) \in Process
         /\ procs' = [procs EXCEPT ![proc] = Took(proc, chats)]
<1>1. proc \in DOMAIN procs
  BY ProcAtWork DEF WritePrompt
<1>2. chats \in 1..MaxChats
  BY DEF ProcInv, TypeOK, ChatStarted, Busy, WritePrompt
<1>3. Append(procs[proc].stdin, chats) \in Seq(1..MaxChats)
  BY <1>1, <1>2, ProcFields
<1>4. Took(proc, chats) \in Process
  BY <1>1, <1>3, ProcFields DEF Took, Process
<1> QED
  BY <1>1, <1>4 DEF WritePrompt, Took

LEMMA ReadShape ==
  ASSUME ProcInv, NEW kind, Reading(kind)
  PROVE  /\ proc \in DOMAIN procs /\ Gave(proc) \in Process
         /\ procs' = [procs EXCEPT ![proc] = Gave(proc)]
         /\ Head(procs[proc].stdout) \in Line
<1>1. proc \in DOMAIN procs
  BY ProcAtWork DEF Reading
<1>2. /\ Tail(procs[proc].stdout) \in Seq(Line)
      /\ Head(procs[proc].stdout) \in Line
  BY <1>1, ProcFields, Parted DEF Reading
<1>3. Gave(proc) \in Process
  BY <1>1, <1>2, ProcFields DEF Gave, Process
<1> QED
  BY <1>1, <1>2, <1>3 DEF Reading, Gave

LEMMA CloseShape ==
  ASSUME ProcInv, pc = "reading", procs' = Closed
  PROVE  /\ proc \in DOMAIN procs /\ Shut(proc) \in Process
         /\ procs' = [procs EXCEPT ![proc] = Shut(proc)]
<1>1. proc \in DOMAIN procs
  BY ProcAtWork
<1>2. Shut(proc) \in Process
  BY <1>1, ProcFields, Nothing DEF Shut, Process
<1> QED
  BY <1>1, <1>2 DEF Closed, Shut

LEMMA AnnounceShape ==
  ASSUME ProcInv, NEW p \in DOMAIN procs, Announce(p)
  PROVE  \E c \in 1..MaxConvs :
           /\ Told(p, c) \in Process
           /\ procs' = [procs EXCEPT ![p] = Told(p, c)]
           /\ procs[p].conv # NoConv => c = procs[p].conv
           /\ convs' \in 0..MaxConvs /\ convs <= convs'
<1> DEFINE c == IF procs[p].conv = NoConv THEN convs' ELSE procs[p].conv
<1>1. /\ c \in 1..MaxConvs /\ (procs[p].conv # NoConv => c = procs[p].conv)
      /\ convs' \in 0..MaxConvs /\ convs <= convs'
  <2>1. procs[p].conv \in 0..MaxConvs /\ convs \in 0..MaxConvs
    BY ProcFields DEF ProcInv, TypeOK
  <2>2. CASE procs[p].conv = NoConv
    <3>1. convs < MaxConvs /\ convs' = convs + 1
      BY <2>2 DEF Announce
    <3> QED
      BY <2>1, <2>2, <3>1
  <2>3. CASE procs[p].conv # NoConv
    <3>1. convs' = convs
      BY <2>3 DEF Announce
    <3> QED
      BY <2>1, <2>3, <3>1
  <2> QED
    BY <2>2, <2>3
<1>2. procs' = [procs EXCEPT ![p] = Told(p, c)]
  BY DEF Announce, Told
<1> HIDE DEF c
<1>3. InitLine(c) \in Line
  BY <1>1 DEF InitLine, Line
<1>4. Append(procs[p].stdout, InitLine(c)) \in Seq(Line)
  BY <1>3, ProcFields
<1>5. Told(p, c) \in Process
  <2>1. c \in 0..MaxConvs /\ TRUE \in BOOLEAN
    BY <1>1
  <2>2. procs[p] \in Process
    BY ProcFields
  <2> QED
    BY <2>1, <2>2, <1>4 DEF Told, Process
<1> QED
  BY <1>1, <1>2, <1>5

LEMMA WorkLine ==
  ASSUME ProcInv, NEW p \in DOMAIN procs, procs[p].stdin # << >>
  PROVE  ResultLine(Head(procs[p].stdin)) \in Line
<1>1. Head(procs[p].stdin) \in 1..MaxChats
  BY ProcFields, Parted
<1> QED
  BY <1>1 DEF ResultLine, Line

LEMMA WorkShape ==
  ASSUME ProcInv, NEW p \in DOMAIN procs, Work(p)
  PROVE  /\ Worked(p) \in Process
         /\ procs' = [procs EXCEPT ![p] = Worked(p)]
<1>1. /\ Head(procs[p].stdin) \in 1..MaxChats
      /\ Tail(procs[p].stdin) \in Seq(1..MaxChats)
  BY ProcFields, Parted DEF Work
<1>2. ResultLine(Head(procs[p].stdin)) \in Line
  BY WorkLine DEF Work
<1>3. Append(procs[p].stdout, ResultLine(Head(procs[p].stdin))) \in Seq(Line)
  BY <1>2, ProcFields
<1>4. Worked(p) \in Process
  BY <1>1, <1>3, ProcFields DEF Worked, Process
<1> QED
  BY <1>4 DEF Work, Worked

LEMMA DieShape ==
  ASSUME ProcInv, NEW p \in DOMAIN procs, Die(p)
  PROVE  \E expiry \in BOOLEAN :
           /\ Ended(p, expiry) \in Process
           /\ procs' = [procs EXCEPT ![p] = Ended(p, expiry)]
           /\ expiry => procs[p].conv \in expired
<1>1. PICK expiry \in BOOLEAN :
         /\ procs' = [procs EXCEPT ![p] = Ended(p, expiry)]
         /\ expiry => procs[p].conv \in expired
  BY DEF Die, Ended
<1>2. Ended(p, expiry) \in Process
  BY ProcFields, Nothing DEF Ended, Process
<1> QED
  BY <1>1, <1>2

LEMMA ExitShape ==
  ASSUME ProcInv, NEW p \in DOMAIN procs, Exit(p)
  PROVE  /\ Gone(p) \in Process
         /\ procs' = [procs EXCEPT ![p] = Gone(p)]
<1>1. Gone(p) \in Process
  BY ProcFields DEF Gone, Process
<1> QED
  BY <1>1 DEF Exit, Gone

-----------------------------------------------------------------------------
(* Every step keeps types and processes.                                   *)

\* A conversation that a line read by the bridge names is one of the types.
LEMMA ReadLineTyped ==
  ASSUME ProcInv, NEW kind, Reading(kind)
  PROVE  Head(procs[proc].stdout).conv \in 0..MaxConvs
<1>1. Head(procs[proc].stdout) \in Line
  BY ReadShape
<1> QED
  BY <1>1 DEF Line

LEMMA ChatKeeps == ProcInv /\ Chat => ProcInv'
<1> SUFFICES ASSUME ProcInv, Chat PROVE ProcInv'
  OBVIOUS
<1> USE DEF ProcInv
<1>1. /\ procs' = procs /\ provider' = provider /\ expired' = expired
      /\ convs' = convs /\ header' = header /\ given' = header
      /\ provConv' \in {header, provConv} /\ sessConv' \in {sessConv, provConv'}
      /\ session' = TRUE /\ pc' = "ready" /\ attempt' = 1
      /\ chats < MaxChats /\ chats' = chats + 1 /\ unheard' = unheard
      /\ proc' = proc \/ (proc' = NoProc /\ (~session \/ ~IsRunning))
  BY DEF Chat, remote
<1>2. TypeOK'
  BY <1>1 DEF TypeOK
<1>3. ChatStarted'
  BY <1>1 DEF ChatStarted, Busy, TypeOK
<1>4. Owned'
  <2>1. CASE proc' = proc
    BY <1>1, <2>1, OwnedStays
  <2>2. CASE proc' = NoProc /\ proc # NoProc
    BY <1>1, <2>2 DEF Owned, OneProcess, IsRunning, ChatStarted
  <2> QED
    BY <1>1, <2>1, <2>2
<1>5. ExpiryTrue'
  BY <1>1 DEF ExpiryTrue
<1> QED
  BY <1>2, <1>3, <1>4, <1>5

LEMMA StartKeeps == ProcInv /\ (StartIfNeeded \/ Restart) => ProcInv'
<1> SUFFICES ASSUME ProcInv, StartIfNeeded \/ Restart PROVE ProcInv'
  OBVIOUS
<1>1. CASE StartIfNeeded /\ IsRunning
  <2>1. TypeOK'
    BY <1>1 DEF ProcInv, TypeOK, StartIfNeeded, IsRunning, remote
  <2>2. ChatStarted'
    BY <1>1 DEF ProcInv, ChatStarted, Busy, StartIfNeeded
  <2> QED
    BY <1>1, <2>1, <2>2, OwnedStays DEF ProcInv, StartIfNeeded, remote
<1>2. CASE StartIfNeeded /\ ~IsRunning
  BY <1>2, LaunchKeeps DEF StartIfNeeded, Busy
<1>3. CASE Restart
  <2>1. ~IsRunning
    BY <1>3 DEF ProcInv, ChatStarted, Restart, IsRunning
  <2> QED
    BY <1>3, <2>1, LaunchKeeps DEF Restart, Busy
<1> QED
  BY <1>1, <1>2, <1>3

\* The chat is given up; nothing else changes.
LEMMA FailKeeps ==
  ASSUME ProcInv, pc' = "idle",
         UNCHANGED << chats, attempt, given, header, provider, provConv,
                      session, sessConv, proc, answer, procs, remote, unheard >>
  PROVE  ProcInv'
<1>1. TypeOK'
  BY DEF ProcInv, TypeOK, remote
<1>2. ChatStarted'
  BY DEF ProcInv, ChatStarted, Busy
<1> QED
  BY <1>1, <1>2, OwnedStays DEF ProcInv, remote

LEMMA WriteKeeps == ProcInv /\ WritePrompt => ProcInv'
<1> SUFFICES ASSUME ProcInv, WritePrompt PROVE ProcInv'
  OBVIOUS
<1>1. /\ proc \in DOMAIN procs /\ Took(proc, chats) \in Process
      /\ procs' = [procs EXCEPT ![proc] = Took(proc, chats)]
  BY WriteShape
<1>2. /\ Took(proc, chats).provider = procs[proc].provider
      /\ Took(proc, chats).state = procs[proc].state
      /\ Took(proc, chats).expiry = procs[proc].expiry
      /\ Took(proc, chats).conv = procs[proc].conv
  BY <1>1, ProcFields DEF Took, Process
<1>3. UNCHANGED << provider, proc, expired >>
  BY DEF WritePrompt, remote
<1>4. \A p \in DOMAIN procs :
        procs[p].expiry => procs[p].state # "running" /\ procs[p].conv \in expired
  BY DEF ProcInv, ExpiryTrue
<1>5. /\ procs' \in Seq(Process) /\ Len(procs') = Len(procs)
      /\ Owned' /\ ExpiryTrue'
  BY <1>1, <1>2, <1>3, <1>4, UpdateKeeps
<1>6. TypeOK'
  BY <1>5 DEF ProcInv, TypeOK, WritePrompt, remote
<1>7. ChatStarted'
  BY DEF ProcInv, ChatStarted, Busy, WritePrompt
<1> QED
  BY <1>5, <1>6, <1>7 DEF ProcInv

LEMMA ReadOwned ==
  ASSUME ProcInv, NEW kind, Reading(kind), UNCHANGED << provider, proc, expired >>
  PROVE  /\ procs' \in Seq(Process) /\ Len(procs') = Len(procs)
         /\ Owned' /\ ExpiryTrue'
<1>1. /\ proc \in DOMAIN procs /\ Gave(proc) \in Process
      /\ procs' = [procs EXCEPT ![proc] = Gave(proc)]
  BY ReadShape
<1>2. /\ Gave(proc).provider = procs[proc].provider
      /\ Gave(proc).state = procs[proc].state
      /\ Gave(proc).expiry = procs[proc].expiry
      /\ Gave(proc).conv = procs[proc].conv
  BY <1>1, ProcFields DEF Gave, Process
<1>3. procs[proc].expiry =>
        procs[proc].state # "running" /\ procs[proc].conv \in expired
  BY <1>1 DEF ProcInv, ExpiryTrue
<1> QED
  BY <1>1, <1>2, <1>3, UpdateKeeps

LEMMA ReadKeeps ==
  ProcInv /\ (ReadInit \/ ReadResult \/ ReadFailure) => ProcInv'
<1> SUFFICES ASSUME ProcInv, ReadInit \/ ReadResult \/ ReadFailure
             PROVE  ProcInv'
  OBVIOUS
<1>1. PICK kind \in {"init", "result"} : Reading(kind)
  BY DEF ReadInit, ReadResult, ReadFailure
<1>2. /\ UNCHANGED << provider, proc, expired, convs, session, chats, attempt,
                      given >>
      /\ pc = "reading" /\ pc' \in {"reading", "idle"}
      /\ unheard' \subseteq unheard \cup {proc}
  BY <1>1 DEF ReadInit, ReadResult, ReadFailure, Fail, Reading, remote
<1>3. /\ procs' \in Seq(Process) /\ Len(procs') = Len(procs)
      /\ Owned' /\ ExpiryTrue'
  BY <1>1, <1>2, ReadOwned
<1>4. {header', provConv', sessConv'}
        \subseteq {header, provConv, sessConv, Head(procs[proc].stdout).conv}
  BY DEF ReadInit, ReadResult, ReadFailure
<1>5. {given', header', provConv', sessConv'} \subseteq 0..MaxConvs
  BY <1>1, <1>2, <1>4, ReadLineTyped DEF ProcInv, TypeOK
<1>6. TypeOK'
  <2>1. proc \in 1..Len(procs) /\ unheard \subseteq 1..Len(procs)
    BY <1>2, ProcAtWork DEF ProcInv, TypeOK
  <2>2. unheard' \subseteq 1..Len(procs')
    BY <1>2, <1>3, <2>1
  <2> QED
    BY <1>2, <1>3, <1>5, <2>2 DEF ProcInv, TypeOK
<1>7. ChatStarted'
  BY <1>2 DEF ProcInv, ChatStarted, Busy
<1> QED
  BY <1>3, <1>6, <1>7 DEF ProcInv

\* Only a dead process is replaced.
LEMMA RetryKeeps == ProcInv /\ RetryExpired => ProcInv'
<1> SUFFICES ASSUME ProcInv, RetryExpired PROVE ProcInv'
  OBVIOUS
<1>1. /\ proc \in DOMAIN procs /\ Shut(proc) \in Process
      /\ procs' = [procs EXCEPT ![proc] = Shut(proc)]
  BY CloseShape DEF RetryExpired, AtEof
<1>2. /\ Shut(proc).provider = procs[proc].provider
      /\ Shut(proc).state = procs[proc].state
      /\ Shut(proc).expiry = procs[proc].expiry
      /\ Shut(proc).conv = procs[proc].conv
  BY <1>1, ProcFields DEF Shut, Process
<1>3. /\ procs' \in Seq(Process) /\ Len(procs') = Len(procs)
      /\ DOMAIN procs' = DOMAIN procs /\ procs'[proc] = Shut(proc)
      /\ \A r \in DOMAIN procs : r # proc => procs'[r] = procs[r]
  BY <1>1, Updated DEF ProcInv, TypeOK
<1>4. /\ UNCHANGED << chats, given, header, provider, session, remote, unheard >>
      /\ proc' = NoProc /\ sessConv' = NoConv /\ provConv' \in {provConv, NoConv}
      /\ pc' \in {"ready", "restart"} /\ attempt < 4 /\ attempt' = attempt + 1
      /\ procs[proc].state = "dead" /\ pc = "reading"
  BY DEF RetryExpired, SeesExpiry, AtEof
<1>5. TypeOK'
  BY <1>3, <1>4 DEF ProcInv, TypeOK, remote
<1>6. ChatStarted'
  BY <1>4 DEF ProcInv, ChatStarted, Busy
<1>7. Owned'
  BY <1>2, <1>3, <1>4 DEF ProcInv, Owned, OneProcess
<1>8. ExpiryTrue'
  BY <1>2, <1>3, <1>4 DEF ProcInv, ExpiryTrue, remote
<1> QED
  BY <1>5, <1>6, <1>7, <1>8 DEF ProcInv

\* A new provider has no process yet.
LEMMA ReconfigureKeeps == ProcInv /\ Reconfigure => ProcInv'
<1> SUFFICES ASSUME ProcInv, Reconfigure PROVE ProcInv'
  OBVIOUS
<1>1. TypeOK'
  <2>1. session' \in BOOLEAN
    <3>1. session' = FALSE
      BY DEF Reconfigure
    <3> QED
      BY <3>1, Zenon
  <2>2. /\ {given', header', provConv', sessConv'} \subseteq 0..MaxConvs
        /\ provider' \in 1..(MaxChats + 1) /\ proc' \in 0..Len(procs')
    BY DEF ProcInv, TypeOK, Reconfigure
  <2> QED
    BY <2>1, <2>2 DEF ProcInv, TypeOK, Reconfigure, remote
<1>2. ChatStarted'
  BY DEF ProcInv, ChatStarted, Busy, Reconfigure
<1>3. procs \in Seq(Process) /\ provider \in Nat
  BY DEF ProcInv, TypeOK
<1>4. \A p \in DOMAIN procs : procs[p].provider \in Nat
  BY <1>3, ProcFields DEF ProcInv, Process
<1>5. \A p \in DOMAIN procs : procs[p].provider < provider + 1
  BY <1>3, <1>4 DEF ProcInv, Owned
<1>6. Owned' /\ ExpiryTrue'
  BY <1>3, <1>4, <1>5 DEF ProcInv, Owned, OneProcess, ExpiryTrue, Reconfigure, remote
<1> QED
  BY <1>1, <1>2, <1>6 DEF ProcInv

\* The steps of agy change the processes and what the server keeps.
LEMMA AgyTyped ==
  ASSUME ProcInv, UNCHANGED bridge,
         procs' \in Seq(Process), Len(procs') = Len(procs),
         convs' \in 0..MaxConvs, expired' \subseteq 1..convs'
  PROVE  TypeOK' /\ ChatStarted'
BY DEF ProcInv, TypeOK, ChatStarted, Busy, bridge

LEMMA AnnounceKeeps ==
  ASSUME ProcInv, NEW p \in DOMAIN procs, Announce(p)
  PROVE  ProcInv'
<1>1. PICK c \in 1..MaxConvs :
        /\ Told(p, c) \in Process
        /\ procs' = [procs EXCEPT ![p] = Told(p, c)]
        /\ convs' \in 0..MaxConvs /\ convs <= convs'
  BY AnnounceShape
<1>2. /\ Told(p, c).provider = procs[p].provider
      /\ Told(p, c).state = procs[p].state
      /\ Told(p, c).expiry = procs[p].expiry
  BY ProcFields DEF Told, Process
<1>3. ~procs[p].expiry /\ expired' = expired /\ UNCHANGED bridge
  BY DEF ProcInv, ExpiryTrue, Announce
<1>4. UNCHANGED << provider, proc >>
  BY <1>3 DEF bridge
<1>5. /\ procs' \in Seq(Process) /\ Len(procs') = Len(procs)
      /\ Owned' /\ ExpiryTrue'
  <2>1. /\ ~Told(p, c).expiry /\ expired \subseteq expired'
        /\ procs[p].state = "dead" => Told(p, c).state = "dead"
    BY <1>2, <1>3
  <2> HIDE DEF Told
  <2> QED
    BY <1>1, <1>2, <1>4, <2>1, UpdateKeeps
<1>6. expired' \subseteq 1..convs'
  BY <1>1, <1>3 DEF ProcInv, TypeOK
<1> QED
  BY <1>1, <1>3, <1>5, <1>6, AgyTyped DEF ProcInv

LEMMA WorkKeeps ==
  ASSUME ProcInv, NEW p \in DOMAIN procs, Work(p)
  PROVE  ProcInv'
<1>1. /\ Worked(p) \in Process /\ procs' = [procs EXCEPT ![p] = Worked(p)]
  BY WorkShape
<1>2. /\ Worked(p).provider = procs[p].provider
      /\ Worked(p).state = procs[p].state
      /\ Worked(p).expiry = procs[p].expiry
  BY ProcFields DEF Worked, Process
<1>3. ~procs[p].expiry /\ UNCHANGED << convs, expired >> /\ UNCHANGED bridge
  BY DEF ProcInv, ExpiryTrue, Work, remote
<1>4. UNCHANGED << provider, proc >>
  BY <1>3 DEF bridge
<1>5. /\ procs' \in Seq(Process) /\ Len(procs') = Len(procs)
      /\ Owned' /\ ExpiryTrue'
  BY <1>1, <1>2, <1>3, <1>4, UpdateKeeps
<1>6. convs' \in 0..MaxConvs /\ expired' \subseteq 1..convs'
  BY <1>3 DEF ProcInv, TypeOK
<1> QED
  BY <1>3, <1>5, <1>6, AgyTyped DEF ProcInv

LEMMA DieKeeps ==
  ASSUME ProcInv, NEW p \in DOMAIN procs, Die(p)
  PROVE  ProcInv'
<1>1. PICK expiry \in BOOLEAN :
        /\ Ended(p, expiry) \in Process
        /\ procs' = [procs EXCEPT ![p] = Ended(p, expiry)]
        /\ expiry => procs[p].conv \in expired
  BY DieShape
<1>2. /\ Ended(p, expiry).provider = procs[p].provider
      /\ Ended(p, expiry).state = "closing"
      /\ Ended(p, expiry).expiry = expiry
      /\ Ended(p, expiry).conv = procs[p].conv
  BY ProcFields DEF Ended, Process
<1>3. /\ procs[p].state = "running"
      /\ UNCHANGED << convs, expired >> /\ UNCHANGED bridge
  BY DEF Die, remote
<1>4. UNCHANGED << provider, proc >>
  BY <1>3 DEF bridge
<1>5. /\ procs' \in Seq(Process) /\ Len(procs') = Len(procs)
      /\ Owned' /\ ExpiryTrue'
  BY <1>1, <1>2, <1>3, <1>4, UpdateKeeps
<1>6. convs' \in 0..MaxConvs /\ expired' \subseteq 1..convs'
  BY <1>3 DEF ProcInv, TypeOK
<1> QED
  BY <1>3, <1>5, <1>6, AgyTyped DEF ProcInv

LEMMA ExitKeeps ==
  ASSUME ProcInv, NEW p \in DOMAIN procs, Exit(p)
  PROVE  ProcInv'
<1>1. /\ Gone(p) \in Process /\ procs' = [procs EXCEPT ![p] = Gone(p)]
  BY ExitShape
<1>2. /\ Gone(p).provider = procs[p].provider
      /\ Gone(p).state = "dead"
      /\ Gone(p).expiry = procs[p].expiry
      /\ Gone(p).conv = procs[p].conv
  BY ProcFields DEF Gone, Process
<1>3. /\ procs[p].expiry => procs[p].conv \in expired
      /\ UNCHANGED << convs, expired >> /\ UNCHANGED bridge
  BY DEF ProcInv, ExpiryTrue, Exit, remote
<1>4. UNCHANGED << provider, proc >>
  BY <1>3 DEF bridge
<1>5. /\ procs' \in Seq(Process) /\ Len(procs') = Len(procs)
      /\ Owned' /\ ExpiryTrue'
  BY <1>1, <1>2, <1>3, <1>4, UpdateKeeps
<1>6. convs' \in 0..MaxConvs /\ expired' \subseteq 1..convs'
  BY <1>3 DEF ProcInv, TypeOK
<1> QED
  BY <1>3, <1>5, <1>6, AgyTyped DEF ProcInv

LEMMA ExpireKeeps == ProcInv /\ Expire => ProcInv'
<1> SUFFICES ASSUME ProcInv, Expire PROVE ProcInv'
  OBVIOUS
<1>1. /\ UNCHANGED bridge /\ procs' = procs /\ convs' = convs
      /\ expired \subseteq expired' /\ expired' \subseteq 1..convs
  BY DEF ProcInv, TypeOK, Expire
<1>2. UNCHANGED << procs, provider, proc >>
  BY <1>1 DEF bridge
<1>3. /\ procs' \in Seq(Process) /\ Len(procs') = Len(procs)
      /\ convs' \in 0..MaxConvs /\ expired' \subseteq 1..convs'
  BY <1>1 DEF ProcInv, TypeOK
<1> QED
  BY <1>1, <1>2, <1>3, OwnedStays, AgyTyped DEF ProcInv

LEMMA ProcStep == ProcInv /\ [Next]_vars => ProcInv'
<1> SUFFICES ASSUME ProcInv, [Next]_vars PROVE ProcInv'
  OBVIOUS
<1>1. CASE StartFails \/ WriteFails \/ ReadEof
  BY <1>1, FailKeeps DEF StartFails, WriteFails, ReadEof, Fail
<1>2. CASE ReadInit \/ ReadResult \/ ReadFailure
  BY <1>2, ReadKeeps
<1>3. CASE StartIfNeeded \/ Restart
  BY <1>3, StartKeeps
<1>4. CASE Agy
  BY <1>4, AnnounceKeeps, WorkKeeps, DieKeeps, ExitKeeps, ExpireKeeps DEF Agy
<1>5. CASE UNCHANGED vars
  BY <1>5 DEF vars, bridge, remote, ProcInv, TypeOK, ChatStarted, Busy, Owned,
              OneProcess, ExpiryTrue
<1> QED
  BY <1>1, <1>2, <1>3, <1>4, <1>5, ChatKeeps, WriteKeeps, RetryKeeps,
     ReconfigureKeeps DEF Next, Bridge

LEMMA ProcInvariant == Spec => []ProcInv
BY ProcStarts, ProcStep, PTL DEF Spec

(* Types, for any bounds (AntigravityBridge.TypeOK).                       *)
THEOREM TypeCorrect == Spec => []TypeOK
<1>1. ProcInv => TypeOK
  BY DEF ProcInv
<1> QED
  BY <1>1, ProcInvariant, PTL

(* A provider never has two processes at work, whatever it retries, whoever *)
(* dies when and whatever its callbacks do (provider.py, process.py).       *)
THEOREM OneProcessCorrect == Spec => []OneProcess
<1>1. ProcInv => OneProcess
  BY DEF ProcInv, Owned
<1> QED
  BY <1>1, ProcInvariant, PTL

-----------------------------------------------------------------------------
(* What goes through the pipes of the process a provider talks to.         *)

\* A process announces its conversation once, before anything else; what is
\* read from it then, the session has heard of it.
Introduced(P, conv) ==
  /\ P.announced => P.conv # NoConv
  /\ ~P.announced => P.stdout = << >>
  /\ \A i \in DOMAIN P.stdout :
        P.stdout[i].kind = "init" => i = 1 /\ P.stdout[i].conv = P.conv
  /\ P.announced /\ (P.stdout = << >> \/ P.stdout[1].kind = "result") =>
        conv = P.conv

\* There is one prompt or one result in the pipes of a process that runs, that
\* of the chat which waits for it.
OneTurn(P, n, place) ==
  /\ \A i \in DOMAIN P.stdout : P.stdout[i].kind = "result" =>
       /\ i = Len(P.stdout) /\ P.stdout[i].prompt = n /\ place = "reading"
       /\ P.state = "running" => P.stdin = << >>
  /\ P.state = "running" /\ P.stdin # << >> =>
       /\ place = "reading" /\ Len(P.stdin) = 1 /\ P.stdin[1] = n
       /\ \A i \in DOMAIN P.stdout : P.stdout[i].kind = "init"
  /\ P.state = "running" /\ place = "reading" /\ P.stdin = << >> =>
       \E i \in DOMAIN P.stdout : P.stdout[i].kind = "result"

\* Of a process whose pipes hold an answer that nobody read: what is next in
\* them is not for the chat that reads it.
Overdue(k, n, place, i, before) ==
  /\ k <= n
  /\ k = n => (place = "idle" \/ (place = "reading" /\ (i # 1 \/ before # << >>)))

Held(P) == Len(P.stdout) + Len(P.stdin)

Behind(P, n, place) ==
  /\ P.announced
  /\ \A i \in DOMAIN P.stdout :
        P.stdout[i].kind = "result" /\ Overdue(P.stdout[i].prompt, n, place, i, << >>)
  /\ P.state = "running" =>
       /\ \A i \in DOMAIN P.stdin :
            Overdue(P.stdin[i], n, place, i, P.stdout)
       /\ Held(P) >= 1 /\ (place = "reading" => Held(P) >= 2)

Turns(P, n, place, late) ==
  IF late THEN Behind(P, n, place) ELSE OneTurn(P, n, place)

PipesClean ==
  proc # NoProc =>
    /\ Introduced(procs[proc], sessConv)
    /\ Turns(procs[proc], chats, pc, proc \in unheard)

\* As long as the conversation in the header is there, the session and its
\* process work in it.
HeaderKnown ==
  session /\ header \notin expired \cup {NoConv} =>
    /\ sessConv = header
    /\ proc # NoProc => procs[proc].conv = header

\* The header keeps the conversation a chat was given, as long as it is there.
GivenKept == Busy /\ given \notin expired \cup {NoConv} => header = given

\* The last reply is of an earlier chat while a chat is at work.
AnswersRight ==
  /\ answer.chat \in Nat /\ answer.chat <= chats
  /\ Busy => answer.chat < chats
  /\ AnswerMatchesPrompt /\ ReplyRecorded /\ ConversationNotLost

TalkInv == PipesClean /\ HeaderKnown /\ GivenKept /\ AnswersRight

LEMMA TalkStarts == Init => TalkInv
BY DEF Init, TalkInv, PipesClean, HeaderKnown, GivenKept, Busy, AnswersRight,
       NoAnswer, AnswerMatchesPrompt, ReplyRecorded, ConversationNotLost

\* A chat at work, or one that was begun before, has given no reply yet.
LEMMA AnswersStay ==
  ASSUME ProcInv, AnswersRight, answer' = answer, chats' \in Nat,
         \/ Busy /\ chats' = chats
         \/ chats' = chats + 1 /\ pc' # "idle"
         \/ UNCHANGED << pc, chats, header >>
  PROVE  AnswersRight'
BY DEF ProcInv, TypeOK, AnswersRight, Busy, AnswerMatchesPrompt, ReplyRecorded,
       ConversationNotLost

LEMMA ProcIn ==
  ASSUME ProcInv, proc # NoProc
  PROVE  /\ proc \in DOMAIN procs /\ procs[proc] \in Process
         /\ procs[proc].stdin \in Seq(1..MaxChats)
         /\ procs[proc].stdout \in Seq(Line)
<1>1. proc \in DOMAIN procs
  BY DEF ProcInv, TypeOK
<1> QED
  BY <1>1, ProcFields

\* What was sent for a chat that is over is overdue for the next one.
LEMMA BehindLater ==
  ASSUME NEW P \in Process, NEW n \in Nat, Behind(P, n, "idle")
  PROVE  Behind(P, n + 1, "ready")
<1>1. /\ \A i \in DOMAIN P.stdout : P.stdout[i] \in Line
      /\ \A i \in DOMAIN P.stdin : P.stdin[i] \in 1..MaxChats
  BY DEF Process
<1>2. \A i \in DOMAIN P.stdout : P.stdout[i].prompt \in Nat
  BY <1>1 DEF Line
<1>3. \A k \in Nat : \A i, before :
        Overdue(k, n, "idle", i, before) => Overdue(k, n + 1, "ready", i, before)
  BY DEF Overdue
<1>4. \A i \in DOMAIN P.stdout : P.stdout[i].kind = "result"
         /\ Overdue(P.stdout[i].prompt, n + 1, "ready", i, << >>)
  BY <1>2, <1>3 DEF Behind
<1>5. P.state = "running" => \A i \in DOMAIN P.stdin :
         Overdue(P.stdin[i], n + 1, "ready", i, P.stdout)
  BY <1>1, <1>3 DEF Behind
<1> QED
  BY <1>4, <1>5 DEF Behind

\* What is overdue when a chat is at work stays so when it gives up.
LEMMA BehindFails ==
  ASSUME NEW P, NEW n, NEW place, Behind(P, n, place),
         place # "reading" \/ P.state # "running"
  PROVE  Behind(P, n, "idle")
BY DEF Behind, Overdue

\* Before a chat reads, ready or writing is the same.
LEMMA BehindWrites ==
  ASSUME NEW P, NEW n, Behind(P, n, "ready")
  PROVE  Behind(P, n, "writing")
BY DEF Behind, Overdue

LEMMA ChatTalks == ProcInv /\ TalkInv /\ Chat => TalkInv'
<1> SUFFICES ASSUME ProcInv, TalkInv, Chat PROVE TalkInv'
  OBVIOUS
<1>1. /\ procs' = procs /\ expired' = expired /\ header' = header
      /\ given' = header /\ session' = TRUE /\ pc = "idle" /\ pc' = "ready"
      /\ chats' = chats + 1 /\ chats \in Nat /\ answer' = answer
      /\ header # NoConv => provConv' = header
      /\ unheard' = unheard
      /\ \/ session /\ sessConv' = sessConv /\ proc' = proc
         \/ sessConv' = provConv' /\ proc' = NoProc
  BY DEF Chat, remote, ProcInv, TypeOK
<1>2. PipesClean'
  <2>1. ASSUME proc # NoProc
        PROVE  /\ Introduced(procs[proc], sessConv)
               /\ Turns(procs[proc], chats + 1, "ready", proc \in unheard)
    <3>1. /\ Introduced(procs[proc], sessConv)
          /\ Turns(procs[proc], chats, "idle", proc \in unheard)
      BY <1>1, <2>1 DEF TalkInv, PipesClean
    <3>2. CASE proc \in unheard
      BY <1>1, <2>1, <3>1, <3>2, BehindLater, ProcIn DEF Turns
    <3>3. CASE proc \notin unheard
      BY <3>1, <3>3 DEF Turns, OneTurn
    <3> QED
      BY <3>1, <3>2, <3>3
  <2> QED
    BY <1>1, <2>1 DEF PipesClean
<1>3. HeaderKnown'
  BY <1>1 DEF TalkInv, HeaderKnown
<1>4. GivenKept'
  BY <1>1 DEF GivenKept
<1>5. AnswersRight'
  BY <1>1, AnswersStay DEF TalkInv
<1> QED
  BY <1>2, <1>3, <1>4, <1>5 DEF TalkInv

LEMMA LaunchTalks ==
  ASSUME ProcInv, TalkInv, Busy, Launch, proc = NoProc \/ pc # "reading",
         pc' \in {"ready", "writing"},
         UNCHANGED << chats, given, header, session, sessConv, answer, remote,
                      unheard >>
  PROVE  TalkInv'
<1>1. /\ procs' = Append(procs, Fresh) /\ proc' = Len(procs')
      /\ procs \in Seq(Process) /\ chats \in Nat /\ session
  BY DEF Launch, Fresh, ProcInv, TypeOK, ChatStarted
<1>2. procs'[proc'] = Fresh /\ proc' \notin unheard
  <2>1. /\ unheard \subseteq 1..Len(procs) /\ Len(procs) \in Nat
    BY <1>1 DEF ProcInv, TypeOK
  <2> QED
    BY <1>1, <2>1, FreshIsProcess, Grown
<1>3. PipesClean'
  BY <1>2, Nothing DEF PipesClean, Introduced, Turns, OneTurn, Fresh
<1>4. HeaderKnown'
  BY <1>1, <1>2 DEF TalkInv, HeaderKnown, Fresh, remote
<1>5. GivenKept'
  BY DEF TalkInv, GivenKept, Busy, remote
<1>6. AnswersRight'
  BY <1>1, AnswersStay DEF TalkInv
<1> QED
  BY <1>3, <1>4, <1>5, <1>6 DEF TalkInv

LEMMA StartTalks == ProcInv /\ TalkInv /\ (StartIfNeeded \/ Restart) => TalkInv'
<1> SUFFICES ASSUME ProcInv, TalkInv, StartIfNeeded \/ Restart PROVE TalkInv'
  OBVIOUS
<1>1. CASE StartIfNeeded /\ IsRunning
  <2>1. /\ UNCHANGED << procs, proc, chats, given, header, session, sessConv,
                        answer, expired, unheard >>
        /\ pc = "ready" /\ pc' = "writing" /\ chats \in Nat
    BY <1>1 DEF StartIfNeeded, remote, ProcInv, TypeOK
  <2>2. PipesClean'
    BY <2>1, BehindWrites DEF TalkInv, PipesClean, Turns, OneTurn
  <2>3. HeaderKnown' /\ GivenKept'
    BY <2>1 DEF TalkInv, HeaderKnown, GivenKept, Busy
  <2>4. AnswersRight'
    BY <2>1, AnswersStay DEF TalkInv, Busy
  <2> QED
    BY <2>2, <2>3, <2>4 DEF TalkInv
<1>2. CASE StartIfNeeded /\ ~IsRunning
  BY <1>2, LaunchTalks DEF StartIfNeeded, Busy
<1>3. CASE Restart
  BY <1>3, LaunchTalks DEF Restart, Busy
<1> QED
  BY <1>1, <1>2, <1>3

\* A chat is given up where nothing is left in the pipes.
LEMMA FailTalks ==
  ASSUME ProcInv, TalkInv, Busy, pc' = "idle",
         \/ pc # "reading"
         \/ procs[proc].stdout = << >> /\ procs[proc].state # "running",
         UNCHANGED << chats, given, header, session, sessConv, proc, answer,
                      procs, remote, unheard >>
  PROVE  TalkInv'
<1>1. PipesClean'
  <2> SUFFICES ASSUME proc # NoProc
               PROVE  /\ Introduced(procs[proc], sessConv)
                      /\ Turns(procs[proc], chats, "idle", proc \in unheard)
    BY DEF PipesClean
  <2>1. /\ Introduced(procs[proc], sessConv)
        /\ Turns(procs[proc], chats, pc, proc \in unheard)
    BY DEF TalkInv, PipesClean
  <2>2. procs[proc].stdout = << >> => DOMAIN procs[proc].stdout = {}
    OBVIOUS
  <2>3. CASE proc \in unheard
    BY <2>1, <2>3, BehindFails DEF Turns
  <2>4. CASE proc \notin unheard
    BY <2>1, <2>2, <2>4 DEF Turns, OneTurn
  <2> QED
    BY <2>3, <2>4
<1>2. HeaderKnown' /\ GivenKept'
  BY DEF TalkInv, HeaderKnown, GivenKept, Busy, remote
<1>3. chats \in Nat
  BY DEF ProcInv, TypeOK
<1>4. AnswersRight'
  BY <1>3, AnswersStay DEF TalkInv
<1> QED
  BY <1>1, <1>2, <1>4 DEF TalkInv

\* The process the bridge writes to or reads from, after that.
LEMMA UpdatedProc ==
  ASSUME ProcInv, NEW p \in DOMAIN procs, NEW q \in Process,
         procs' = [procs EXCEPT ![p] = q], proc' = proc
  PROVE  /\ procs'[p] = q
         /\ p # proc /\ proc # NoProc => procs'[proc'] = procs[proc]
<1>1. procs \in Seq(Process) /\ proc \in 0..Len(procs) /\ DOMAIN procs = 1..Len(procs)
  BY DEF ProcInv, TypeOK
<1> QED
  BY <1>1, Updated

LEMMA WriteTalks == ProcInv /\ TalkInv /\ WritePrompt => TalkInv'
<1> SUFFICES ASSUME ProcInv, TalkInv, WritePrompt PROVE TalkInv'
  OBVIOUS
<1> DEFINE P == procs[proc]
           Q == Took(proc, chats)
<1>1. /\ pc = "writing" /\ pc' = "reading" /\ chats \in Nat
      /\ UNCHANGED << chats, given, header, session, sessConv, proc, answer,
                      expired, unheard >>
  BY DEF WritePrompt, remote, ProcInv, TypeOK
<1>2. /\ proc \in DOMAIN procs /\ proc # NoProc /\ procs'[proc] = Q
  BY <1>1, ProcAtWork, WriteShape, UpdatedProc
<1>3. /\ Q.stdin = Append(P.stdin, chats) /\ Q.stdout = P.stdout
      /\ Q.state = P.state /\ Q.conv = P.conv /\ Q.announced = P.announced
      /\ P.stdin \in Seq(1..MaxChats) /\ P.stdout \in Seq(Line)
  BY <1>2, ProcFields DEF Took, Process
<1>4. /\ Introduced(P, sessConv)
      /\ Turns(P, chats, "writing", proc \in unheard)
  BY <1>1, <1>2 DEF TalkInv, PipesClean
<1> HIDE DEF P, Q
<1>5. Introduced(Q, sessConv)
  BY <1>3, <1>4 DEF Introduced
<1>6. ASSUME proc \notin unheard
      PROVE  Turns(Q, chats, "reading", proc \in unheard)
  <2>1. OneTurn(P, chats, "writing")
    BY <1>4, <1>6 DEF Turns
  <2>2. \A i \in DOMAIN P.stdout : P.stdout[i].kind = "init"
    <3>1. \A i \in DOMAIN P.stdout : P.stdout[i] \in Line /\ P.stdout[i].kind # "result"
      BY <1>3, <2>1 DEF OneTurn
    <3> QED
      BY <3>1 DEF Line
  <2>3. P.state = "running" => Len(Q.stdin) = 1 /\ Q.stdin[1] = chats
    <3>1. P.state = "running" => P.stdin = << >>
      BY <2>1 DEF OneTurn
    <3> QED
      BY <1>3, <3>1
  <2>4. P.state = "running" => Q.stdin # << >>
    BY <2>3
  <2>5. OneTurn(Q, chats, "reading")
    BY <1>3, <2>2, <2>3, <2>4 DEF OneTurn
  <2> QED
    BY <1>6, <2>5 DEF Turns
<1>7. ASSUME proc \in unheard
      PROVE  Turns(Q, chats, "reading", proc \in unheard)
  <2>1. Behind(P, chats, "writing")
    BY <1>4, <1>7 DEF Turns
  <2>2. /\ DOMAIN P.stdin = 1..Len(P.stdin) /\ Len(P.stdin) \in Nat
        /\ DOMAIN Q.stdin = 1..(Len(P.stdin) + 1)
        /\ Len(Q.stdin) = Len(P.stdin) + 1
        /\ \A i \in DOMAIN P.stdin : Q.stdin[i] = P.stdin[i]
        /\ Q.stdin[Len(P.stdin) + 1] = chats
        /\ Len(P.stdout) \in Nat /\ (P.stdout = << >> <=> Len(P.stdout) = 0)
    <3>1. chats \in 1..MaxChats
      BY <1>1 DEF ProcInv, TypeOK, ChatStarted, Busy
    <3> QED
      BY <1>3, <3>1, Grown, EmptyShape
  <2>3. /\ Held(P) = Len(P.stdout) + Len(P.stdin)
        /\ Held(Q) = Len(P.stdout) + (Len(P.stdin) + 1)
        /\ Q.stdout = P.stdout
    BY <1>3, <2>2 DEF Held
  <2>4. \A i \in DOMAIN P.stdout :
           P.stdout[i].kind = "result"
             /\ Overdue(P.stdout[i].prompt, chats, "reading", i, << >>)
    BY <2>1 DEF Behind, Overdue
  <2>5. ASSUME P.state = "running"
        PROVE  /\ \A i \in DOMAIN Q.stdin :
                     Overdue(Q.stdin[i], chats, "reading", i, Q.stdout)
               /\ Held(Q) >= 2
    <3>1. /\ Held(P) >= 1
          /\ \A i \in DOMAIN P.stdin :
               Overdue(P.stdin[i], chats, "reading", i, P.stdout)
      BY <2>1, <2>5 DEF Behind, Overdue
    <3>2. Held(Q) >= 2 /\ (Len(P.stdin) + 1 # 1 \/ P.stdout # << >>)
      <4> DEFINE a == Len(P.stdout)
                 b == Len(P.stdin)
      <4>1. /\ a \in Nat /\ b \in Nat /\ (P.stdout = << >> <=> a = 0)
            /\ Held(P) = a + b /\ Held(Q) = a + (b + 1)
        BY <2>2, <2>3
      <4> HIDE DEF a, b
      <4>2. Held(Q) >= 2 /\ (b + 1 # 1 \/ P.stdout # << >>)
        BY <3>1, <4>1
      <4> QED
        BY <4>2 DEF b
    <3>3. \A i \in DOMAIN Q.stdin :
             Overdue(Q.stdin[i], chats, "reading", i, Q.stdout)
      <4> SUFFICES ASSUME NEW i \in DOMAIN Q.stdin
                   PROVE  Overdue(Q.stdin[i], chats, "reading",
                                  i, Q.stdout)
        OBVIOUS
      <4>1. CASE i = Len(P.stdin) + 1
        BY <1>1, <2>2, <2>3, <3>2, <4>1 DEF Overdue
      <4>2. CASE i # Len(P.stdin) + 1
        BY <2>2, <2>3, <3>1, <4>2
      <4> QED
        BY <4>1, <4>2
    <3> QED
      BY <3>2, <3>3
  <2>6. Behind(Q, chats, "reading")
    <3>1. Q.announced /\ Q.stdout = P.stdout /\ Q.state = P.state
      BY <1>3, <2>1 DEF Behind
    <3>2. \A i \in DOMAIN Q.stdout : Q.stdout[i].kind = "result"
            /\ Overdue(Q.stdout[i].prompt, chats, "reading", i, << >>)
      BY <2>4, <3>1
    <3>3. Held(Q) >= 2 => Held(Q) >= 1
      <4>1. Held(Q) \in Int
        <5> DEFINE a == Len(P.stdout)
                   b == Len(P.stdin)
        <5>1. a \in Nat /\ b \in Nat /\ Held(Q) = a + (b + 1)
          BY <2>2, <2>3
        <5> HIDE DEF a, b
        <5> QED
          BY <5>1
      <4> QED
        BY <4>1
    <3> QED
      BY <2>5, <3>1, <3>2, <3>3 DEF Behind
  <2> QED
    BY <1>7, <2>6 DEF Turns
<1>8. Turns(Q, chats, "reading", proc \in unheard)
  BY <1>6, <1>7
<1>9. PipesClean'
  BY <1>1, <1>2, <1>5, <1>8 DEF PipesClean
<1>10. HeaderKnown' /\ GivenKept'
  BY <1>1, <1>2, <1>3 DEF TalkInv, HeaderKnown, GivenKept, Busy, P
<1>11. AnswersRight'
  BY <1>1, AnswersStay DEF TalkInv, Busy
<1> QED
  BY <1>9, <1>10, <1>11 DEF TalkInv

\* What is read when a line is read: the announcement, which leaves a result
\* at most and, if the chat ends here, an answer nobody waits for; or a result,
\* which leaves nothing but the answers that are overdue.
LEMMA ReadLeaves ==
  ASSUME ProcInv, TalkInv, NEW kind \in {"init", "result"}, Reading(kind)
  PROVE  LET P == procs[proc]
             Q == Gave(proc)
             line == Head(P.stdout)
         IN  /\ proc \in DOMAIN procs /\ proc # NoProc
             /\ procs' = [procs EXCEPT ![proc] = Q] /\ Q \in Process
             /\ Q.conv = P.conv /\ P.conv # NoConv
             /\ kind = "init" =>
                  /\ line.conv = P.conv /\ Introduced(Q, P.conv)
                  /\ proc \notin unheard
                  /\ OneTurn(Q, chats, "reading") /\ Behind(Q, chats, "idle")
             /\ kind = "result" =>
                  /\ IF proc \in unheard THEN line.prompt < chats
                                        ELSE line.prompt = chats
                  /\ sessConv = P.conv /\ Introduced(Q, sessConv)
                  /\ Turns(Q, chats, "idle", proc \in unheard)
<1> DEFINE P == procs[proc]
           Q == Gave(proc)
<1>1. /\ proc \in DOMAIN procs /\ proc # NoProc
      /\ procs' = [procs EXCEPT ![proc] = Q] /\ Q \in Process
      /\ pc = "reading" /\ P.stdout # << >> /\ Head(P.stdout).kind = kind
  BY ReadShape, ProcAtWork DEF Reading
<1>2. /\ Q.stdin = P.stdin /\ Q.stdout = Tail(P.stdout) /\ Q.conv = P.conv
      /\ Q.state = P.state /\ Q.announced = P.announced
      /\ P.stdin \in Seq(1..MaxChats) /\ P.stdout \in Seq(Line)
  BY <1>1, ProcFields DEF Gave, Process
<1>3. /\ Introduced(P, sessConv) /\ Turns(P, chats, "reading", proc \in unheard)
      /\ chats \in Nat
  BY <1>1 DEF TalkInv, PipesClean, ProcInv, TypeOK
<1> HIDE DEF P, Q
<1>4. /\ Head(P.stdout) = P.stdout[1] /\ 1 \in DOMAIN P.stdout
      /\ Len(P.stdout) \in Nat /\ Len(P.stdout) >= 1
      /\ DOMAIN P.stdout = 1..Len(P.stdout)
      /\ Q.stdout \in Seq(Line) /\ Len(Q.stdout) = Len(P.stdout) - 1
      /\ DOMAIN Q.stdout = 1..(Len(P.stdout) - 1)
      /\ \A i \in DOMAIN Q.stdout : Q.stdout[i] = P.stdout[i + 1]
      /\ Q.stdout = << >> <=> Len(Q.stdout) = 0
  <2>1. /\ DOMAIN P.stdout = 1..Len(P.stdout) /\ Len(P.stdout) \in Nat
        /\ Len(P.stdout) >= 1 /\ Head(P.stdout) = P.stdout[1]
        /\ Tail(P.stdout) \in Seq(Line) /\ Len(Tail(P.stdout)) = Len(P.stdout) - 1
        /\ DOMAIN Tail(P.stdout) = 1..(Len(P.stdout) - 1)
        /\ \A i \in 1..(Len(P.stdout) - 1) : Tail(P.stdout)[i] = P.stdout[i + 1]
    <3>1. P.stdout \in Seq(Line) /\ P.stdout # << >>
      BY <1>1, <1>2
    <3> QED
      BY <3>1, TailShape
  <2>2. Q.stdout \in Seq(Line) /\ 1 \in DOMAIN P.stdout
    BY <1>2, <2>1
  <2>3. Q.stdout = << >> <=> Len(Q.stdout) = 0
    BY <2>2, EmptyShape
  <2> QED
    BY <1>2, <2>1, <2>2, <2>3
<1>5. P.announced /\ P.conv # NoConv
  BY <1>1, <1>3 DEF Introduced
<1>6. \A i \in DOMAIN P.stdout : P.stdout[i].kind \in {"init", "result"}
  <2>1. \A i \in DOMAIN P.stdout : P.stdout[i] \in Line
    BY <1>2
  <2> QED
    BY <2>1 DEF Line
<1>7. \A i \in DOMAIN Q.stdout :
        /\ i + 1 \in DOMAIN P.stdout /\ i + 1 # 1
        /\ Q.stdout[i].kind = "result"
  <2> SUFFICES ASSUME NEW i \in DOMAIN Q.stdout
               PROVE  /\ i + 1 \in DOMAIN P.stdout /\ i + 1 # 1
                      /\ Q.stdout[i].kind = "result"
    OBVIOUS
  <2>1. /\ i \in 1..(Len(P.stdout) - 1) /\ i + 1 \in DOMAIN P.stdout /\ i + 1 # 1
        /\ Q.stdout[i] = P.stdout[i + 1]
    BY <1>4
  <2>2. P.stdout[i + 1].kind = "result"
    BY <1>3, <1>6, <2>1 DEF Introduced
  <2> QED
    BY <2>1, <2>2
<1>8. CASE kind = "init"
  <2>1. Head(P.stdout).conv = P.conv
    BY <1>1, <1>3, <1>4, <1>8 DEF Introduced
  <2>2. Introduced(Q, P.conv)
    BY <1>2, <1>4, <1>5, <1>7 DEF Introduced
  <2>3. proc \notin unheard /\ OneTurn(P, chats, "reading")
    BY <1>1, <1>3, <1>4, <1>8 DEF Turns, Behind
  <2>4. \A i \in DOMAIN Q.stdout :
          /\ i = Len(Q.stdout) /\ Q.stdout[i].prompt = chats
          /\ P.state = "running" => P.stdin = << >>
    <3> SUFFICES ASSUME NEW i \in DOMAIN Q.stdout
                 PROVE  /\ i = Len(Q.stdout) /\ Q.stdout[i].prompt = chats
                        /\ P.state = "running" => P.stdin = << >>
      OBVIOUS
    <3>1. /\ i \in 1..(Len(P.stdout) - 1) /\ i + 1 \in DOMAIN P.stdout
          /\ Q.stdout[i] = P.stdout[i + 1] /\ P.stdout[i + 1].kind = "result"
      BY <1>4, <1>7
    <3>2. /\ i + 1 = Len(P.stdout) /\ P.stdout[i + 1].prompt = chats
          /\ P.state = "running" => P.stdin = << >>
      BY <2>3, <3>1 DEF OneTurn
    <3> QED
      BY <1>4, <3>1, <3>2
  <2>5. P.state = "running" /\ P.stdin = << >> => 1 \in DOMAIN Q.stdout
    <3> SUFFICES ASSUME P.state = "running", P.stdin = << >>
                 PROVE  1 \in DOMAIN Q.stdout
      OBVIOUS
    <3>1. PICK i \in DOMAIN P.stdout : P.stdout[i].kind = "result"
      BY <2>3 DEF OneTurn
    <3>2. i # 1
      BY <1>1, <1>4, <1>8, <3>1
    <3> QED
      BY <1>4, <3>1, <3>2
  <2>6. OneTurn(Q, chats, "reading")
    BY <1>2, <1>7, <2>3, <2>4, <2>5 DEF OneTurn
  <2>7. Behind(Q, chats, "idle")
    <3>1. \A i, before : Overdue(chats, chats, "idle", i, before)
      BY <1>3 DEF Overdue
    <3>2. \A i \in DOMAIN Q.stdout :
             /\ Q.stdout[i].kind = "result"
             /\ Overdue(Q.stdout[i].prompt, chats, "idle", i, << >>)
      BY <1>7, <2>4, <3>1
    <3>3. ASSUME P.state = "running"
          PROVE  /\ \A i \in DOMAIN Q.stdin : Q.stdin[i] = chats
                 /\ Held(Q) >= 1
      <4>1. CASE P.stdin = << >>
        <5>1. Len(Q.stdout) >= 1
          BY <1>4, <2>5, <3>3, <4>1
        <5>2. Q.stdin = << >> /\ DOMAIN Q.stdin = {} /\ Len(Q.stdin) = 0
          BY <1>2, <4>1
        <5> QED
          BY <1>4, <5>1, <5>2 DEF Held
      <4>2. CASE P.stdin # << >>
        <5>1. Len(P.stdin) = 1 /\ P.stdin[1] = chats
          BY <2>3, <3>3, <4>2 DEF OneTurn
        <5>2. DOMAIN P.stdin = {1}
          BY <1>2, <5>1
        <5>3. Len(Q.stdout) \in Nat /\ Len(Q.stdin) = 1
          BY <1>2, <1>4, <5>1
        <5> QED
          BY <1>2, <5>1, <5>2, <5>3 DEF Held
      <4> QED
        BY <4>1, <4>2
    <3>4. Q.announced
      BY <1>2, <1>5
    <3>5. \A i \in DOMAIN Q.stdin : P.state = "running" =>
             Overdue(Q.stdin[i], chats, "idle", i, Q.stdout)
      BY <3>1, <3>3
    <3> QED
      BY <1>2, <3>2, <3>3, <3>4, <3>5 DEF Behind
  <2> QED
    BY <1>1, <1>2, <1>5, <1>8, <2>1, <2>2, <2>3, <2>6, <2>7 DEF P, Q
<1>9. CASE kind = "result"
  <2>1. sessConv = P.conv
    BY <1>1, <1>3, <1>4, <1>5, <1>9 DEF Introduced
  <2>2. Introduced(Q, sessConv)
    BY <1>2, <1>5, <1>7, <2>1 DEF Introduced
  <2>3. CASE proc \notin unheard
    <3>1. OneTurn(P, chats, "reading")
      BY <1>3, <2>3 DEF Turns
    <3>2. /\ Len(P.stdout) = 1 /\ Head(P.stdout).prompt = chats
          /\ P.state = "running" => P.stdin = << >>
      BY <1>1, <1>4, <1>9, <3>1 DEF OneTurn
    <3>3. DOMAIN Q.stdout = {}
      BY <1>4, <3>2
    <3>4. OneTurn(Q, chats, "idle")
      BY <1>2, <3>2, <3>3 DEF OneTurn
    <3> QED
      BY <1>1, <1>2, <1>5, <1>9, <2>1, <2>2, <2>3, <3>2, <3>4 DEF P, Q, Turns
  <2>4. CASE proc \in unheard
    <3>1. Behind(P, chats, "reading")
      BY <1>3, <2>4 DEF Turns
    <3>2. \A i \in DOMAIN P.stdout :
             P.stdout[i].prompt \in Nat /\ P.stdout[i].prompt <= chats
      <4>1. \A i \in DOMAIN P.stdout : P.stdout[i] \in Line
        BY <1>2
      <4> QED
        BY <3>1, <4>1 DEF Behind, Overdue, Line
    <3>3. Head(P.stdout).prompt < chats
      BY <1>3, <1>4, <3>1, <3>2 DEF Behind, Overdue
    <3>4. \A i \in DOMAIN Q.stdout :
             /\ Q.stdout[i].kind = "result"
             /\ Overdue(Q.stdout[i].prompt, chats, "idle", i, << >>)
      BY <1>4, <1>7, <3>2 DEF Overdue
    <3>5. ASSUME P.state = "running"
          PROVE  /\ \A i \in DOMAIN Q.stdin :
                       Overdue(Q.stdin[i], chats, "idle", i, Q.stdout)
                 /\ Held(Q) >= 1
      <4>1. Held(P) >= 2
        BY <3>1, <3>5 DEF Behind
      <4>2. Held(Q) = Held(P) - 1
        <5>1. Len(P.stdin) \in Nat /\ Q.stdin = P.stdin
          BY <1>2
        <5> QED
          BY <1>4, <5>1 DEF Held
      <4>3. \A i \in DOMAIN P.stdin : P.stdin[i] <= chats
        BY <3>1, <3>5 DEF Behind, Overdue
      <4>4. Held(P) \in Int
        <5>1. Len(P.stdin) \in Nat
          BY <1>2
        <5> QED
          BY <1>4, <5>1 DEF Held
      <4>5. Q.stdin = P.stdin
        BY <1>2
      <4>6. \A i \in DOMAIN Q.stdin :
               Overdue(Q.stdin[i], chats, "idle", i, Q.stdout)
        BY <4>3, <4>5 DEF Overdue
      <4> QED
        BY <4>1, <4>2, <4>4, <4>6
    <3>6. Behind(Q, chats, "idle")
      BY <1>2, <1>5, <3>4, <3>5 DEF Behind
    <3> QED
      BY <1>1, <1>2, <1>5, <1>9, <2>1, <2>2, <2>4, <3>3, <3>6 DEF P, Q, Turns
  <2> QED
    BY <2>3, <2>4
<1> QED
  BY <1>8, <1>9

\* Whatever on_init does, the session has heard of the conversation; the
\* header has named it before, or it is new.
LEMMA ReadInitTalks ==
  ASSUME ProcInv, TalkInv, ReadInit
  PROVE  TalkInv'
<1> DEFINE c == procs[proc].conv
<1>1. Reading("init")
  BY DEF ReadInit
<1>2. /\ proc \in DOMAIN procs /\ proc # NoProc
      /\ procs' = [procs EXCEPT ![proc] = Gave(proc)] /\ Gave(proc) \in Process
      /\ Gave(proc).conv = c /\ Head(procs[proc].stdout).conv = c
      /\ Introduced(Gave(proc), c) /\ proc \notin unheard
      /\ OneTurn(Gave(proc), chats, "reading") /\ Behind(Gave(proc), chats, "idle")
  BY <1>1, ReadLeaves
<1>3. session /\ (header \notin expired \cup {NoConv} => header = c)
  BY <1>1, <1>2 DEF TalkInv, HeaderKnown, ProcInv, ChatStarted, Busy, Reading
<1> HIDE DEF c
<1>4. /\ UNCHANGED << chats, given, session, proc, answer, expired >>
      /\ sessConv' = c /\ pc = "reading" /\ chats \in Nat
      /\ \/ header' = c /\ pc' = "reading" /\ unheard' = unheard
         \/ header' = header /\ pc' = "idle" /\ unheard' = unheard \cup {proc}
  BY <1>2 DEF ReadInit, Reading, Fail, remote, ProcInv, TypeOK
<1>5. procs'[proc] = Gave(proc)
  BY <1>2, <1>4, UpdatedProc
<1>6. PipesClean'
  BY <1>2, <1>4, <1>5 DEF PipesClean, Turns
<1>7. HeaderKnown'
  BY <1>2, <1>3, <1>4, <1>5 DEF HeaderKnown
<1>8. GivenKept'
  BY <1>2, <1>3, <1>4 DEF TalkInv, GivenKept, Busy
<1>9. AnswersRight'
  BY <1>4, AnswersStay DEF TalkInv, Busy
<1> QED
  BY <1>6, <1>7, <1>8, <1>9 DEF TalkInv

LEMMA ReadResultTalks ==
  ASSUME ProcInv, TalkInv, ReadResult
  PROVE  TalkInv'
<1> DEFINE c == procs[proc].conv
<1>1. Reading("result")
  BY DEF ReadResult
<1>2. /\ proc \in DOMAIN procs /\ proc # NoProc
      /\ procs' = [procs EXCEPT ![proc] = Gave(proc)] /\ Gave(proc) \in Process
      /\ Gave(proc).conv = c
      /\ IF proc \in unheard THEN Head(procs[proc].stdout).prompt < chats
                            ELSE Head(procs[proc].stdout).prompt = chats
      /\ sessConv = c /\ c # NoConv /\ Introduced(Gave(proc), sessConv)
      /\ Turns(Gave(proc), chats, "idle", proc \in unheard)
  BY <1>1, ReadLeaves
<1>3. /\ UNCHANGED << chats, given, session, sessConv, proc, expired, unheard >>
      /\ provConv' = sessConv /\ header' = sessConv
      /\ pc = "reading" /\ pc' = "idle" /\ chats \in Nat
  BY <1>2 DEF ReadResult, Reading, remote, ProcInv, TypeOK
<1>4. procs'[proc] = Gave(proc)
  BY <1>2, <1>3, UpdatedProc
<1>5. given \in expired \cup {NoConv, c}
  BY <1>2, <1>3 DEF TalkInv, GivenKept, HeaderKnown, Busy, ProcInv, ChatStarted
<1>6. /\ answer'.chat = chats /\ answer'.conv = c /\ ~answer'.lost
      /\ IF answer'.late THEN answer'.prompt < chats ELSE answer'.prompt = chats
  BY <1>2, <1>5 DEF ReadResult
<1> HIDE DEF c
<1>7. PipesClean'
  BY <1>2, <1>3, <1>4 DEF PipesClean
<1>8. HeaderKnown' /\ GivenKept'
  BY <1>2, <1>3, <1>4 DEF HeaderKnown, GivenKept, Busy
<1>9. AnswersRight'
  BY <1>2, <1>3, <1>6 DEF AnswersRight, Busy, AnswerMatchesPrompt, ReplyRecorded,
     ConversationNotLost
<1> QED
  BY <1>7, <1>8, <1>9 DEF TalkInv

LEMMA ReadFailureTalks ==
  ASSUME ProcInv, TalkInv, ReadFailure
  PROVE  TalkInv'
<1>1. Reading("result")
  BY DEF ReadFailure
<1>2. /\ proc \in DOMAIN procs /\ proc # NoProc
      /\ procs' = [procs EXCEPT ![proc] = Gave(proc)] /\ Gave(proc) \in Process
      /\ Gave(proc).conv = procs[proc].conv
      /\ Introduced(Gave(proc), sessConv)
      /\ Turns(Gave(proc), chats, "idle", proc \in unheard)
  BY <1>1, ReadLeaves
<1>3. /\ UNCHANGED << chats, given, header, session, sessConv, proc, answer,
                      expired, unheard >>
      /\ pc = "reading" /\ pc' = "idle" /\ chats \in Nat
  BY DEF ReadFailure, Fail, Reading, remote, ProcInv, TypeOK
<1>4. procs'[proc] = Gave(proc)
  BY <1>2, <1>3, UpdatedProc
<1>5. PipesClean'
  BY <1>2, <1>3, <1>4 DEF PipesClean
<1>6. HeaderKnown' /\ GivenKept'
  BY <1>2, <1>3, <1>4 DEF TalkInv, HeaderKnown, GivenKept, Busy
<1>7. AnswersRight'
  BY <1>3, AnswersStay DEF TalkInv, Busy
<1> QED
  BY <1>5, <1>6, <1>7 DEF TalkInv

\* Only a conversation that is over is given up.
LEMMA RetryTalks == ProcInv /\ TalkInv /\ RetryExpired => TalkInv'
<1> SUFFICES ASSUME ProcInv, TalkInv, RetryExpired PROVE TalkInv'
  OBVIOUS
<1>1. /\ UNCHANGED << chats, given, header, session, answer, expired >>
      /\ proc' = NoProc /\ pc = "reading" /\ pc' # "idle" /\ chats \in Nat
      /\ procs[proc].expiry
  BY DEF RetryExpired, AtEof, SeesExpiry, remote, ProcInv, TypeOK
<1>2. proc \in DOMAIN procs /\ proc # NoProc /\ session
  BY <1>1, ProcAtWork DEF ProcInv, ChatStarted, Busy
<1>3. procs[proc].conv \in expired
  BY <1>1, <1>2 DEF ProcInv, ExpiryTrue
<1>4. header \in expired \cup {NoConv}
  BY <1>2, <1>3 DEF TalkInv, HeaderKnown
<1>5. PipesClean' /\ HeaderKnown'
  BY <1>1, <1>4 DEF PipesClean, HeaderKnown
<1>6. GivenKept'
  BY <1>1 DEF TalkInv, GivenKept, Busy
<1>7. AnswersRight'
  BY <1>1, AnswersStay DEF TalkInv, Busy
<1> QED
  BY <1>5, <1>6, <1>7 DEF TalkInv

LEMMA ReconfigureTalks == ProcInv /\ TalkInv /\ Reconfigure => TalkInv'
<1> SUFFICES ASSUME ProcInv, TalkInv, Reconfigure PROVE TalkInv'
  OBVIOUS
<1>1. /\ UNCHANGED << pc, chats, given, header, answer >> /\ chats \in Nat
      /\ proc' = NoProc /\ session' = FALSE /\ pc = "idle"
  BY DEF Reconfigure, ProcInv, TypeOK
<1>2. PipesClean' /\ HeaderKnown' /\ GivenKept'
  BY <1>1 DEF PipesClean, HeaderKnown, GivenKept, Busy
<1>3. AnswersRight'
  BY <1>1, AnswersStay DEF TalkInv
<1> QED
  BY <1>2, <1>3 DEF TalkInv

\* A step of agy, seen from the bridge: another process, or the one it talks
\* to, whose conversation only changes when it announces it.
LEMMA AgyTalks ==
  ASSUME ProcInv, TalkInv, UNCHANGED bridge, expired \subseteq expired',
         NEW p \in DOMAIN procs, NEW q \in Process,
         procs' = [procs EXCEPT ![p] = q],
         procs[p].conv # NoConv => q.conv = procs[p].conv,
         p = proc => /\ Introduced(q, sessConv)
                     /\ Turns(q, chats, pc, proc \in unheard)
  PROVE  TalkInv'
<1>1. /\ UNCHANGED << pc, chats, given, header, session, sessConv, proc, answer,
                      unheard >>
      /\ chats \in Nat
  BY DEF bridge, ProcInv, TypeOK
<1>2. /\ procs'[p] = q
      /\ p # proc /\ proc # NoProc => procs'[proc] = procs[proc]
  BY <1>1, UpdatedProc
<1>3. PipesClean'
  BY <1>1, <1>2 DEF TalkInv, PipesClean
<1>4. HeaderKnown'
  BY <1>1, <1>2 DEF TalkInv, HeaderKnown
<1>5. GivenKept'
  BY <1>1 DEF TalkInv, GivenKept, Busy
<1>6. AnswersRight'
  BY <1>1, AnswersStay DEF TalkInv
<1> QED
  BY <1>3, <1>4, <1>5, <1>6 DEF TalkInv

LEMMA AnnounceTalks ==
  ASSUME ProcInv, TalkInv, NEW p \in DOMAIN procs, Announce(p)
  PROVE  TalkInv'
<1>1. PICK c \in 1..MaxConvs :
        /\ Told(p, c) \in Process
        /\ procs' = [procs EXCEPT ![p] = Told(p, c)]
        /\ procs[p].conv # NoConv => c = procs[p].conv
  BY AnnounceShape
<1> DEFINE P == procs[p]
           Q == Told(p, c)
<1>2. /\ Q.announced = TRUE /\ Q.conv = c /\ Q.state = P.state
      /\ Q.stdin = P.stdin /\ Q.stdout = Append(P.stdout, InitLine(c))
      /\ P.stdout \in Seq(Line)
  BY ProcFields DEF Told, Process
<1>3. ~P.announced /\ UNCHANGED bridge /\ expired' = expired
  BY DEF Announce
<1>4. ASSUME p = proc
      PROVE  Introduced(Q, sessConv) /\ Turns(Q, chats, pc, proc \in unheard)
  <2>1. Introduced(P, sessConv) /\ Turns(P, chats, pc, proc \in unheard)
    BY <1>4 DEF TalkInv, PipesClean, ProcInv, TypeOK
  <2> HIDE DEF P, Q
  <2>2. P.stdout = << >> /\ proc \notin unheard /\ OneTurn(P, chats, pc)
    BY <1>3, <2>1 DEF Introduced, Turns, Behind
  <2>3. /\ Q.stdout # << >> /\ DOMAIN Q.stdout = {1}
        /\ Q.stdout[1] = InitLine(c)
    BY <1>2, <2>2
  <2>4. Q.stdout[1].kind = "init" /\ Q.stdout[1].conv = c
    BY <2>3 DEF InitLine
  <2>5. Introduced(Q, sessConv)
    BY <1>1, <1>2, <2>3, <2>4 DEF Introduced
  <2>6. OneTurn(Q, chats, pc)
    BY <1>2, <2>2, <2>3, <2>4 DEF OneTurn
  <2> QED
    BY <2>2, <2>5, <2>6 DEF Turns
<1>5. procs[p].conv # NoConv => Q.conv = procs[p].conv
  BY <1>1, <1>2
<1> HIDE DEF Q
<1> QED
  BY <1>1, <1>3, <1>4, <1>5, AgyTalks DEF Q

LEMMA WorkTalks ==
  ASSUME ProcInv, TalkInv, NEW p \in DOMAIN procs, Work(p)
  PROVE  TalkInv'
<1> DEFINE P == procs[p]
           Q == Worked(p)
<1>1. Q \in Process /\ procs' = [procs EXCEPT ![p] = Q]
  BY WorkShape
<1>2. /\ Q.announced = P.announced /\ Q.conv = P.conv /\ Q.state = P.state
      /\ Q.stdin = Tail(P.stdin)
      /\ Q.stdout = Append(P.stdout, ResultLine(Head(P.stdin)))
      /\ P.stdout \in Seq(Line) /\ P.stdin \in Seq(1..MaxChats)
  BY ProcFields DEF Worked, Process
<1>3. /\ P.announced /\ P.state = "running" /\ P.stdin # << >>
      /\ UNCHANGED bridge /\ expired' = expired
  BY DEF Work, remote
<1>4. ASSUME p = proc
      PROVE  Introduced(Q, sessConv) /\ Turns(Q, chats, pc, proc \in unheard)
  <2> DEFINE k == Head(P.stdin)
  <2>1. /\ Introduced(P, sessConv) /\ Turns(P, chats, pc, proc \in unheard)
        /\ chats \in Nat
    BY <1>4 DEF TalkInv, PipesClean, ProcInv, TypeOK
  <2>2. ResultLine(k) \in Line
    BY <1>3, WorkLine
  <2> HIDE DEF P, Q
  <2>3. /\ k = P.stdin[1] /\ k \in 1..MaxChats /\ Len(P.stdin) \in Nat
        /\ DOMAIN P.stdin = 1..Len(P.stdin) /\ Len(P.stdin) >= 1
        /\ Q.stdin \in Seq(1..MaxChats) /\ Len(Q.stdin) = Len(P.stdin) - 1
        /\ DOMAIN Q.stdin = 1..(Len(P.stdin) - 1)
        /\ \A i \in DOMAIN Q.stdin : Q.stdin[i] = P.stdin[i + 1]
        /\ Q.stdin = << >> <=> Len(Q.stdin) = 0
    <3>1. P.stdin \in Seq(1..MaxChats) /\ P.stdin # << >>
      BY <1>2, <1>3
    <3>2. k \in 1..MaxChats
      BY <3>1, Parted
    <3>3. /\ DOMAIN P.stdin = 1..Len(P.stdin) /\ Len(P.stdin) \in Nat
          /\ Len(P.stdin) >= 1 /\ Head(P.stdin) = P.stdin[1]
          /\ Tail(P.stdin) \in Seq(1..MaxChats)
          /\ Len(Tail(P.stdin)) = Len(P.stdin) - 1
          /\ DOMAIN Tail(P.stdin) = 1..(Len(P.stdin) - 1)
          /\ \A i \in 1..(Len(P.stdin) - 1) : Tail(P.stdin)[i] = P.stdin[i + 1]
      BY <3>1, TailShape
    <3>4. Tail(P.stdin) = << >> <=> Len(Tail(P.stdin)) = 0
      BY <3>3, EmptyShape
    <3> QED
      BY <1>2, <3>2, <3>3, <3>4
  <2>4. /\ DOMAIN P.stdout = 1..Len(P.stdout) /\ Len(P.stdout) \in Nat
        /\ Len(Q.stdout) = Len(P.stdout) + 1
        /\ DOMAIN Q.stdout = 1..(Len(P.stdout) + 1)
        /\ \A i \in DOMAIN P.stdout : Q.stdout[i] = P.stdout[i]
        /\ Q.stdout[Len(Q.stdout)] = ResultLine(k)
        /\ Q.stdout # << >>
        /\ P.stdout = << >> <=> Len(P.stdout) = 0
    <3>1. P.stdout \in Seq(Line) /\ Q.stdout = Append(P.stdout, ResultLine(k))
      BY <1>2
    <3>2. /\ Q.stdout \in Seq(Line) /\ Len(Q.stdout) = Len(P.stdout) + 1
          /\ DOMAIN P.stdout = 1..Len(P.stdout)
          /\ DOMAIN Q.stdout = 1..(Len(P.stdout) + 1)
          /\ Q.stdout[Len(P.stdout) + 1] = ResultLine(k)
          /\ \A i \in DOMAIN P.stdout : Q.stdout[i] = P.stdout[i]
      BY <2>2, <3>1, Grown
    <3>3. /\ Len(P.stdout) \in Nat /\ (P.stdout = << >> <=> Len(P.stdout) = 0)
          /\ Len(Q.stdout) \in Nat /\ (Q.stdout = << >> <=> Len(Q.stdout) = 0)
      BY <3>1, <3>2, EmptyShape
    <3> QED
      BY <3>2, <3>3
  <2>5. /\ Q.stdout[Len(Q.stdout)].kind = "result"
        /\ Q.stdout[Len(Q.stdout)].prompt = k
    BY <2>4 DEF ResultLine
  <2> HIDE DEF k
  <2>6. \A i \in DOMAIN Q.stdout : i = Len(Q.stdout) \/ i \in DOMAIN P.stdout
    BY <2>4
  <2>7. ASSUME proc \notin unheard
        PROVE  Turns(Q, chats, pc, proc \in unheard)
    <3>1. OneTurn(P, chats, pc)
      BY <2>1, <2>7 DEF Turns
    <3>2. /\ pc = "reading" /\ Len(P.stdin) = 1 /\ k = chats
          /\ \A i \in DOMAIN P.stdout : P.stdout[i].kind = "init"
      BY <1>3, <2>3, <3>1 DEF OneTurn
    <3>3. Q.stdin = << >>
      BY <2>3, <3>2
    <3>4. \A i \in DOMAIN P.stdout : Q.stdout[i].kind # "result"
      BY <2>4, <3>2
    <3>5. Len(Q.stdout) \in DOMAIN Q.stdout
      BY <2>4
    <3>6. OneTurn(Q, chats, pc)
      BY <1>2, <2>5, <2>6, <3>2, <3>3, <3>4, <3>5 DEF OneTurn
    <3> QED
      BY <2>7, <3>6 DEF Turns
  <2>8. ASSUME proc \in unheard
        PROVE  Turns(Q, chats, pc, proc \in unheard)
    <3>1. Behind(P, chats, pc)
      BY <2>1, <2>8 DEF Turns
    <3>2. 1 \in DOMAIN P.stdin /\ Overdue(k, chats, pc, 1, P.stdout)
      BY <1>3, <2>3, <3>1 DEF Behind
    <3>3. \A i \in DOMAIN Q.stdout :
             /\ Q.stdout[i].kind = "result"
             /\ Overdue(Q.stdout[i].prompt, chats, pc, i, << >>)
      <4> SUFFICES ASSUME NEW i \in DOMAIN Q.stdout
                   PROVE  /\ Q.stdout[i].kind = "result"
                          /\ Overdue(Q.stdout[i].prompt, chats, pc, i, << >>)
        OBVIOUS
      <4>1. CASE i \in DOMAIN P.stdout
        BY <2>4, <3>1, <4>1 DEF Behind
      <4>2. CASE i = Len(Q.stdout)
        BY <2>4, <2>5, <3>2, <4>2 DEF Overdue
      <4> QED
        BY <2>6, <4>1, <4>2
    <3>4. \A i \in DOMAIN Q.stdin :
             Overdue(Q.stdin[i], chats, pc, i, Q.stdout)
      <4> SUFFICES ASSUME NEW i \in DOMAIN Q.stdin
                   PROVE  Overdue(Q.stdin[i], chats, pc, i, Q.stdout)
        OBVIOUS
      <4>1. i + 1 \in DOMAIN P.stdin /\ Q.stdin[i] = P.stdin[i + 1]
        BY <2>3
      <4>2. Overdue(P.stdin[i + 1], chats, pc, i + 1, P.stdout)
        BY <1>3, <3>1, <4>1 DEF Behind
      <4> QED
        BY <2>3, <2>4, <4>1, <4>2 DEF Overdue
    <3>5. Held(Q) >= 1 /\ (pc = "reading" => Held(Q) >= 2)
      <4>1. Held(Q) = Held(P)
        <5> DEFINE a == Len(P.stdout)
                   b == Len(P.stdin)
        <5>1. /\ a \in Nat /\ b \in Nat
              /\ Len(Q.stdout) = a + 1 /\ Len(Q.stdin) = b - 1
          BY <2>3, <2>4
        <5>2. Held(P) = a + b /\ Held(Q) = Len(Q.stdout) + Len(Q.stdin)
          BY DEF Held
        <5> HIDE DEF a, b
        <5> QED
          BY <5>1, <5>2
      <4> QED
        BY <1>3, <3>1, <4>1 DEF Behind
    <3>6. Behind(Q, chats, pc)
      BY <1>2, <1>3, <3>3, <3>4, <3>5 DEF Behind
    <3> QED
      BY <2>8, <3>6 DEF Turns
  <2>9. Introduced(Q, sessConv)
    <3>1. \A i \in DOMAIN Q.stdout : Q.stdout[i].kind = "init" =>
             i = 1 /\ Q.stdout[i].conv = Q.conv
      BY <1>2, <2>1, <2>4, <2>5, <2>6 DEF Introduced
    <3>2. Q.stdout[1].kind = "result" =>
             P.stdout = << >> \/ P.stdout[1].kind = "result"
      BY <2>4
    <3> QED
      BY <1>2, <1>3, <2>1, <2>4, <3>1, <3>2 DEF Introduced
  <2> QED
    BY <2>7, <2>8, <2>9
<1>5. procs[p].conv # NoConv => Q.conv = procs[p].conv
  BY <1>2
<1> HIDE DEF Q
<1> QED
  BY <1>1, <1>3, <1>4, <1>5, AgyTalks DEF Q

LEMMA EndTalks ==
  ASSUME ProcInv, TalkInv, NEW p \in DOMAIN procs, Die(p) \/ Exit(p)
  PROVE  TalkInv'
<1>1. PICK q \in Process :
        /\ procs' = [procs EXCEPT ![p] = q] /\ q.state # "running"
        /\ q.stdout = procs[p].stdout /\ q.conv = procs[p].conv
        /\ q.announced = procs[p].announced
  <2>1. CASE Die(p)
    <3>1. PICK expiry \in BOOLEAN :
            /\ Ended(p, expiry) \in Process
            /\ procs' = [procs EXCEPT ![p] = Ended(p, expiry)]
      BY <2>1, DieShape
    <3> QED
      BY <3>1, ProcFields DEF Ended, Process
  <2>2. CASE Exit(p)
    BY <2>2, ExitShape, ProcFields DEF Gone, Process
  <2> QED
    BY <2>1, <2>2
<1>2. UNCHANGED bridge /\ expired' = expired
  BY DEF Die, Exit, remote
<1>3. ASSUME p = proc
      PROVE  Introduced(q, sessConv) /\ Turns(q, chats, pc, proc \in unheard)
  <2>1. /\ Introduced(procs[p], sessConv)
        /\ Turns(procs[p], chats, pc, proc \in unheard)
    BY <1>3 DEF TalkInv, PipesClean, ProcInv, TypeOK
  <2> QED
    BY <1>1, <2>1 DEF Introduced, Turns, OneTurn, Behind
<1> QED
  BY <1>1, <1>2, <1>3, AgyTalks

LEMMA ExpireTalks == ProcInv /\ TalkInv /\ Expire => TalkInv'
<1> SUFFICES ASSUME ProcInv, TalkInv, Expire PROVE TalkInv'
  OBVIOUS
<1>1. /\ UNCHANGED << pc, chats, given, header, session, sessConv, proc, answer,
                      unheard >>
      /\ procs' = procs /\ expired \subseteq expired' /\ chats \in Nat
  BY DEF Expire, bridge, ProcInv, TypeOK
<1>2. PipesClean' /\ HeaderKnown' /\ GivenKept'
  BY <1>1 DEF TalkInv, PipesClean, HeaderKnown, GivenKept, Busy
<1>3. AnswersRight'
  BY <1>1, AnswersStay DEF TalkInv
<1> QED
  BY <1>2, <1>3 DEF TalkInv

LEMMA TalkStep ==
  ASSUME ProcInv, TalkInv, [Next]_vars
  PROVE  TalkInv'
<1>1. CASE StartFails \/ WriteFails \/ ReadEof
  BY <1>1, FailTalks DEF StartFails, WriteFails, ReadEof, AtEof, Fail, Busy
<1>2. CASE ReadInit \/ ReadResult \/ ReadFailure
  BY <1>2, ReadInitTalks, ReadResultTalks, ReadFailureTalks
<1>3. CASE StartIfNeeded \/ Restart
  BY <1>3, StartTalks
<1>4. CASE Agy
  BY <1>4, AnnounceTalks, WorkTalks, EndTalks, ExpireTalks DEF Agy
<1>5. CASE UNCHANGED vars
  BY <1>5 DEF vars, bridge, remote, TalkInv, PipesClean, HeaderKnown, GivenKept,
     Busy, AnswersRight, AnswerMatchesPrompt, ReplyRecorded, ConversationNotLost
<1> QED
  BY <1>1, <1>2, <1>3, <1>4, <1>5, ChatTalks, WriteTalks, RetryTalks,
     ReconfigureTalks DEF Next, Bridge

LEMMA TalkInvariant == Spec => []TalkInv
<1>1. ProcInv /\ TalkInv /\ [Next]_vars => TalkInv'
  BY TalkStep
<1> QED
  BY <1>1, TalkStarts, ProcInvariant, PTL DEF Spec

(* A reply is the answer to the prompt that was asked for, and that of a    *)
(* process on whose announcement on_init failed, to an earlier one          *)
(* (AntigravitySession.send_prompt).                                        *)
THEOREM AnswerCorrect == Spec => []AnswerMatchesPrompt
<1>1. TalkInv => AnswerMatchesPrompt
  BY DEF TalkInv, AnswersRight
<1> QED
  BY <1>1, TalkInvariant, PTL

(* After a reply the header names the conversation that gave it.            *)
THEOREM RecordCorrect == Spec => []ReplyRecorded
<1>1. TalkInv => ReplyRecorded
  BY DEF TalkInv, AnswersRight
<1> QED
  BY <1>1, TalkInvariant, PTL

(* A conversation that is still there is never given up for a new one.      *)
THEOREM ConversationCorrect == Spec => []ConversationNotLost
<1>1. TalkInv => ConversationNotLost
  BY DEF TalkInv, AnswersRight
<1> QED
  BY <1>1, TalkInvariant, PTL

-----------------------------------------------------------------------------
(* How many processes a chat starts, and how many temporary directories are *)
(* left behind.                                                             *)

StartedIn(ps, n) == {p \in DOMAIN ps : ps[p].chat = n}
HomesIn(ps) == {p \in DOMAIN ps : ps[p].home}

\* An attempt starts one process, and one before if it began with a restart.
Restarts == IF attempt \in {2, 4} THEN 1 ELSE 0
StartsNow == IF pc = "restart" THEN 0
             ELSE IF pc = "ready" THEN Restarts ELSE Restarts + 1

\* The attempts before this one of the same chat: what they have started, and
\* what they left behind, the process that reported the expiry being closed.
StartsBefore == IF attempt = 1 THEN 0 ELSE IF attempt = 2 THEN 1
                ELSE IF attempt = 3 THEN 3 ELSE 4
HomesBefore == IF attempt \in {1, 2} THEN 0 ELSE 1

StartsMade(n) == IF Busy /\ n = chats THEN StartsBefore + StartsNow ELSE 6
HomesMade == IF Busy THEN 3 * (chats - 1) + HomesBefore + StartsNow
             ELSE 3 * chats

StartsCounted ==
  /\ \A p \in DOMAIN procs : procs[p].chat <= chats
  /\ \A n \in 1..chats : Cardinality(StartedIn(procs, n)) <= StartsMade(n)

\* The process at hand has its directory, so that closing it removes one.
HomesCounted ==
  /\ \A p \in DOMAIN procs : procs[p].home => WithRole
  /\ proc # NoProc => procs[proc].home = WithRole
  /\ Cardinality(HomesIn(procs)) <= HomesMade

RestartSecond == pc = "restart" => attempt \in {2, 4}

CountInv == StartsCounted /\ HomesCounted /\ RestartSecond

LEMMA NoneStarted ==
  ASSUME NEW ps, DOMAIN ps = {}, NEW n
  PROVE  /\ Cardinality(HomesIn(ps)) = 0 /\ Cardinality(StartedIn(ps, n)) = 0
<1>1. HomesIn(ps) = {} /\ StartedIn(ps, n) = {}
  BY DEF HomesIn, StartedIn
<1> QED
  BY <1>1, FS_EmptySet

LEMMA CountsFinite ==
  ASSUME NEW ps \in Seq(Process), NEW n
  PROVE  /\ IsFiniteSet(HomesIn(ps)) /\ Cardinality(HomesIn(ps)) \in Nat
         /\ IsFiniteSet(StartedIn(ps, n)) /\ Cardinality(StartedIn(ps, n)) \in Nat
<1>1. DOMAIN ps = 1..Len(ps) /\ Len(ps) \in Nat
  OBVIOUS
<1>2. IsFiniteSet(DOMAIN ps)
  BY <1>1, FS_Interval
<1>3. HomesIn(ps) \subseteq DOMAIN ps /\ StartedIn(ps, n) \subseteq DOMAIN ps
  BY DEF HomesIn, StartedIn
<1>4. IsFiniteSet(HomesIn(ps)) /\ IsFiniteSet(StartedIn(ps, n))
  BY <1>2, <1>3, FS_Subset
<1> QED
  BY <1>4, FS_CardinalityType

\* One element more and one less.
LEMMA OneMore ==
  ASSUME NEW S, IsFiniteSet(S), NEW x, x \notin S
  PROVE  Cardinality(S \cup {x}) = Cardinality(S) + 1
BY FS_AddElement

LEMMA OneLess ==
  ASSUME NEW S, IsFiniteSet(S), NEW x \in S
  PROVE  Cardinality(S \ {x}) = Cardinality(S) - 1
BY FS_RemoveElement

\* Another process.
LEMMA StartCounts ==
  ASSUME NEW ps \in Seq(Process), NEW q \in Process, NEW n,
         NEW more, more = Append(ps, q)
  PROVE  /\ Cardinality(HomesIn(more)) <= Cardinality(HomesIn(ps)) + 1
         /\ Cardinality(StartedIn(more, n))
              = Cardinality(StartedIn(ps, n)) + (IF q.chat = n THEN 1 ELSE 0)
<1>1. /\ DOMAIN ps = 1..Len(ps) /\ DOMAIN more = 1..(Len(ps) + 1)
      /\ Len(ps) \in Nat /\ more[Len(ps) + 1] = q
      /\ \A r \in DOMAIN ps : more[r] = ps[r]
  BY Grown
<1>2. PICK k : k = Len(ps) + 1
  OBVIOUS
<1>3. DOMAIN more = DOMAIN ps \cup {k} /\ k \notin DOMAIN ps /\ more[k] = q
  BY <1>1, <1>2
<1>4. k \notin HomesIn(ps) /\ k \notin StartedIn(ps, n)
  BY <1>3 DEF HomesIn, StartedIn
<1>5. HomesIn(more) = IF q.home THEN HomesIn(ps) \cup {k} ELSE HomesIn(ps)
  BY <1>1, <1>3 DEF HomesIn
<1>6. StartedIn(more, n)
        = IF q.chat = n THEN StartedIn(ps, n) \cup {k} ELSE StartedIn(ps, n)
  BY <1>1, <1>3 DEF StartedIn
<1>7. /\ Cardinality(HomesIn(ps) \cup {k}) = Cardinality(HomesIn(ps)) + 1
      /\ Cardinality(StartedIn(ps, n) \cup {k}) = Cardinality(StartedIn(ps, n)) + 1
  BY <1>4, CountsFinite, OneMore
<1>8. /\ Cardinality(HomesIn(ps)) \in Nat
      /\ Cardinality(StartedIn(ps, n)) \in Nat
  BY CountsFinite
<1>9. Cardinality(HomesIn(more)) <= Cardinality(HomesIn(ps)) + 1
  BY <1>5, <1>7, <1>8
<1>10. Cardinality(StartedIn(more, n))
         = Cardinality(StartedIn(ps, n)) + (IF q.chat = n THEN 1 ELSE 0)
  BY <1>6, <1>7, <1>8
<1> QED
  BY <1>9, <1>10

\* Processes that stay with their chats and keep their directories.
LEMMA SameCounts ==
  ASSUME NEW ps, NEW more, DOMAIN more = DOMAIN ps, NEW n,
         \A r \in DOMAIN ps : more[r].home = ps[r].home /\ more[r].chat = ps[r].chat
  PROVE  /\ HomesIn(more) = HomesIn(ps)
         /\ StartedIn(more, n) = StartedIn(ps, n)
<1>1. HomesIn(more) = HomesIn(ps)
  BY DEF HomesIn
<1>2. StartedIn(more, n) = StartedIn(ps, n)
  BY DEF StartedIn
<1> QED
  BY <1>1, <1>2

\* What a chat may have started and left behind is never more than six and three.
LEMMA Budgets ==
  ASSUME ProcInv
  PROVE  /\ StartsBefore \in 0..4 /\ StartsNow \in 0..2 /\ HomesBefore \in 0..1
         /\ StartsBefore + StartsNow <= 6 /\ HomesBefore + StartsNow <= 3
<1>1. attempt \in 1..4
  BY DEF ProcInv, TypeOK
<1> QED
  BY <1>1 DEF StartsBefore, StartsNow, HomesBefore, Restarts

LEMMA CountStarts == Init => CountInv
<1> SUFFICES ASSUME Init PROVE CountInv
  OBVIOUS
<1>1. procs = << >> /\ DOMAIN procs = {} /\ pc = "idle" /\ chats = 0 /\ proc = NoProc
  BY Nothing DEF Init
<1>2. StartsCounted
  BY <1>1 DEF StartsCounted
<1>3. HomesCounted
  BY <1>1, NoneStarted DEF HomesCounted, HomesMade, Busy
<1> QED
  BY <1>1, <1>2, <1>3 DEF CountInv, RestartSecond

\* Whose the processes are, and which of them have a directory.
SameProcesses ==
  /\ DOMAIN procs' = DOMAIN procs
  /\ \A p \in DOMAIN procs :
       procs'[p].chat = procs[p].chat /\ procs'[p].home = procs[p].home
  /\ HomesIn(procs') = HomesIn(procs)
  /\ \A n : StartedIn(procs', n) = StartedIn(procs, n)

\* An attempt goes on, or the chat ends.
GoesOn ==
  /\ UNCHANGED << chats, attempt >>
  /\ pc' = "idle" \/ pc' = pc \/ (pc = "writing" /\ pc' = "reading")

LEMMA BudgetStays ==
  ASSUME ProcInv, GoesOn
  PROVE  /\ HomesMade \in Int /\ HomesMade' \in Int /\ HomesMade <= HomesMade'
         /\ \A n : /\ StartsMade(n) \in Int /\ StartsMade(n)' \in Int
                   /\ StartsMade(n) <= StartsMade(n)'
<1>1. chats \in Nat /\ chats' = chats /\ attempt' = attempt
  BY DEF ProcInv, TypeOK, GoesOn
<1>2. StartsBefore' = StartsBefore /\ HomesBefore' = HomesBefore
  BY <1>1 DEF StartsBefore, HomesBefore
<1>3. Busy' => Busy /\ StartsNow' = StartsNow
  BY <1>1 DEF GoesOn, Busy, StartsNow, Restarts
<1>4. HomesMade \in Int /\ HomesMade' \in Int /\ HomesMade <= HomesMade'
  <2>1. CASE Busy'
    BY <2>1, <1>1, <1>2, <1>3, Budgets DEF HomesMade
  <2>2. CASE ~Busy'
    BY <2>2, <1>1, Budgets DEF HomesMade
  <2> QED
    BY <2>1, <2>2
<1>5. ASSUME NEW n
      PROVE  /\ StartsMade(n) \in Int /\ StartsMade(n)' \in Int
             /\ StartsMade(n) <= StartsMade(n)'
  <2>1. CASE Busy'
    BY <2>1, <1>1, <1>2, <1>3, Budgets DEF StartsMade
  <2>2. CASE ~Busy'
    BY <2>2, <1>1, Budgets DEF StartsMade
  <2> QED
    BY <2>1, <2>2
<1> QED
  BY <1>4, <1>5

LEMMA SameKeeps ==
  ASSUME ProcInv, CountInv, SameProcesses, GoesOn, proc' = proc
  PROVE  CountInv'
<1>1. proc \in DOMAIN procs \/ proc = NoProc
  BY DEF ProcInv, TypeOK
<1>2. procs \in Seq(Process) /\ chats' = chats
  BY DEF ProcInv, TypeOK, GoesOn
<1>3. StartsCounted'
  <2>1. \A p \in DOMAIN procs' : procs'[p].chat <= chats'
    BY <1>2 DEF CountInv, StartsCounted, SameProcesses
  <2>2. ASSUME NEW n \in 1..chats
        PROVE  Cardinality(StartedIn(procs', n)) <= StartsMade(n)'
    <3>1. Cardinality(StartedIn(procs', n)) = Cardinality(StartedIn(procs, n))
      BY DEF SameProcesses
    <3>2. Cardinality(StartedIn(procs, n)) <= StartsMade(n)
      BY DEF CountInv, StartsCounted
    <3>3. Cardinality(StartedIn(procs, n)) \in Nat
      BY <1>2, CountsFinite
    <3> QED
      BY <3>1, <3>2, <3>3, BudgetStays
  <2> QED
    BY <2>1, <2>2, <1>2 DEF StartsCounted
<1>4. HomesCounted'
  <2>1. Cardinality(HomesIn(procs)) \in Nat
    BY <1>2, CountsFinite
  <2>2. Cardinality(HomesIn(procs)) <= HomesMade
    BY DEF CountInv, HomesCounted
  <2>3. Cardinality(HomesIn(procs')) <= HomesMade'
    BY <2>1, <2>2, BudgetStays DEF SameProcesses
  <2>4. /\ \A p \in DOMAIN procs' : procs'[p].home => WithRole
        /\ proc' # NoProc => procs'[proc'].home = WithRole
    BY <1>1 DEF CountInv, HomesCounted, SameProcesses
  <2> QED
    BY <2>3, <2>4 DEF HomesCounted
<1>5. RestartSecond'
  BY DEF CountInv, RestartSecond, GoesOn
<1> QED
  BY <1>3, <1>4, <1>5 DEF CountInv

LEMMA UnchangedSame == procs' = procs => SameProcesses
BY DEF SameProcesses

LEMMA UpdatedSame ==
  ASSUME ProcInv, NEW p \in DOMAIN procs, NEW q \in Process,
         q.chat = procs[p].chat, q.home = procs[p].home,
         procs' = [procs EXCEPT ![p] = q]
  PROVE  SameProcesses
<1>1. procs \in Seq(Process)
  BY DEF ProcInv, TypeOK
<1>2. /\ DOMAIN procs' = DOMAIN procs /\ procs'[p] = q
      /\ \A r \in DOMAIN procs : r # p => procs'[r] = procs[r]
  BY <1>1, Updated
<1>3. \A r \in DOMAIN procs :
         procs'[r].home = procs[r].home /\ procs'[r].chat = procs[r].chat
  BY <1>2
<1>4. ASSUME NEW n
      PROVE  /\ HomesIn(procs') = HomesIn(procs)
             /\ StartedIn(procs', n) = StartedIn(procs, n)
  BY <1>2, <1>3, SameCounts
<1> QED
  BY <1>2, <1>3, <1>4 DEF SameProcesses

\* Steps at which no process starts or is closed.
LEMMA SameSteps ==
  ASSUME ProcInv, CountInv,
         \/ (StartIfNeeded /\ IsRunning) \/ StartFails \/ WritePrompt \/ WriteFails
         \/ ReadInit \/ ReadResult \/ ReadFailure \/ ReadEof \/ Agy
  PROVE  SameProcesses /\ proc' = proc
<1>1. CASE (StartIfNeeded /\ IsRunning) \/ StartFails \/ WriteFails \/ ReadEof \/ Expire
  BY <1>1, UnchangedSame
     DEF StartIfNeeded, StartFails, WriteFails, ReadEof, Expire, bridge
<1>2. CASE WritePrompt
  <2>1. /\ proc \in DOMAIN procs /\ Took(proc, chats) \in Process
        /\ procs' = [procs EXCEPT ![proc] = Took(proc, chats)]
    BY <1>2, WriteShape
  <2>2. Took(proc, chats).chat = procs[proc].chat
        /\ Took(proc, chats).home = procs[proc].home
    BY <2>1, ProcFields DEF Took, Process
  <2> QED
    BY <1>2, <2>1, <2>2, UpdatedSame DEF WritePrompt
<1>3. ASSUME NEW kind, Reading(kind)
      PROVE  SameProcesses
  <2>1. /\ proc \in DOMAIN procs /\ Gave(proc) \in Process
        /\ procs' = [procs EXCEPT ![proc] = Gave(proc)]
    BY <1>3, ReadShape
  <2>2. Gave(proc).chat = procs[proc].chat /\ Gave(proc).home = procs[proc].home
    BY <2>1, ProcFields DEF Gave, Process
  <2> QED
    BY <2>1, <2>2, UpdatedSame
<1>4. CASE ReadInit \/ ReadResult \/ ReadFailure
  BY <1>3, <1>4 DEF ReadInit, ReadResult, ReadFailure
<1>5. ASSUME NEW p \in DOMAIN procs, Announce(p) \/ Work(p) \/ Die(p) \/ Exit(p)
      PROVE  SameProcesses /\ proc' = proc
  <2>1. \E q \in Process : /\ procs' = [procs EXCEPT ![p] = q]
                           /\ q.chat = procs[p].chat /\ q.home = procs[p].home
    <3>1. CASE Announce(p)
      <4>1. PICK c \in 1..MaxConvs : /\ Told(p, c) \in Process
                                     /\ procs' = [procs EXCEPT ![p] = Told(p, c)]
        BY <3>1, AnnounceShape
      <4>2. Told(p, c).chat = procs[p].chat /\ Told(p, c).home = procs[p].home
        BY ProcFields DEF Told, Process
      <4> QED
        BY <4>1, <4>2
    <3>2. CASE Work(p)
      <4>1. Worked(p) \in Process /\ procs' = [procs EXCEPT ![p] = Worked(p)]
        BY <3>2, WorkShape
      <4>2. Worked(p).chat = procs[p].chat /\ Worked(p).home = procs[p].home
        BY ProcFields DEF Worked, Process
      <4> QED
        BY <4>1, <4>2
    <3>3. CASE Die(p)
      <4>1. PICK expiry \in BOOLEAN :
               /\ Ended(p, expiry) \in Process
               /\ procs' = [procs EXCEPT ![p] = Ended(p, expiry)]
        BY <3>3, DieShape
      <4>2. /\ Ended(p, expiry).chat = procs[p].chat
            /\ Ended(p, expiry).home = procs[p].home
        BY ProcFields DEF Ended, Process
      <4> QED
        BY <4>1, <4>2
    <3>4. CASE Exit(p)
      <4>1. Gone(p) \in Process /\ procs' = [procs EXCEPT ![p] = Gone(p)]
        BY <3>4, ExitShape
      <4>2. Gone(p).chat = procs[p].chat /\ Gone(p).home = procs[p].home
        BY ProcFields DEF Gone, Process
      <4> QED
        BY <4>1, <4>2
    <3> QED
      BY <1>5, <3>1, <3>2, <3>3, <3>4
  <2>2. proc' = proc
    BY <1>5 DEF Announce, Work, Die, Exit, bridge
  <2> QED
    BY <2>1, <2>2, UpdatedSame
<1>6. CASE Agy
  BY <1>1, <1>5, <1>6 DEF Agy, Expire, bridge
<1>7. proc' = proc
  BY <1>6 DEF StartIfNeeded, StartFails, WritePrompt, WriteFails, ReadInit,
              ReadResult, ReadFailure, ReadEof, Agy, Announce, Work, Die, Exit,
              Expire, bridge
<1> QED
  BY <1>1, <1>2, <1>4, <1>6, <1>7

\* All of them but the one that starts nothing because the process runs.
LEMMA QuietKeeps ==
  ASSUME ProcInv, CountInv,
         \/ StartFails \/ WritePrompt \/ WriteFails
         \/ ReadInit \/ ReadResult \/ ReadFailure \/ ReadEof \/ Agy
  PROVE  CountInv'
<1>1. SameProcesses /\ proc' = proc
  BY SameSteps
<1>2. GoesOn
  BY DEF GoesOn, StartFails, WritePrompt, WriteFails, ReadInit, ReadResult,
         ReadFailure, ReadEof, Fail, Agy, Announce, Work, Die, Exit, Expire,
         bridge
<1> QED
  BY <1>1, <1>2, SameKeeps

\* A process that runs is used again.
LEMMA ReuseKeeps ==
  ASSUME ProcInv, CountInv, StartIfNeeded, IsRunning
  PROVE  CountInv'
<1>1. SameProcesses /\ proc' = proc
  BY SameSteps
<1>2. /\ UNCHANGED << chats, attempt >> /\ pc = "ready" /\ pc' = "writing"
      /\ procs \in Seq(Process) /\ chats \in Nat /\ attempt \in 1..4
  BY DEF StartIfNeeded, ProcInv, TypeOK
<1>3. /\ StartsNow' = StartsNow + 1 /\ StartsBefore' = StartsBefore
      /\ HomesBefore' = HomesBefore /\ Busy /\ Busy'
  BY <1>2 DEF StartsNow, StartsBefore, HomesBefore, Busy, Restarts
<1>4. StartsCounted'
  <2>1. ASSUME NEW n \in 1..chats
        PROVE  Cardinality(StartedIn(procs', n)) <= StartsMade(n)'
    <3>1. Cardinality(StartedIn(procs', n)) = Cardinality(StartedIn(procs, n))
      BY <1>1 DEF SameProcesses
    <3>2. Cardinality(StartedIn(procs, n)) <= StartsMade(n)
      BY DEF CountInv, StartsCounted
    <3>3. Cardinality(StartedIn(procs, n)) \in Nat
      BY <1>2, CountsFinite
    <3> QED
      BY <1>2, <1>3, <3>1, <3>2, <3>3, Budgets DEF StartsMade
  <2> QED
    BY <2>1, <1>1, <1>2 DEF CountInv, StartsCounted, SameProcesses
<1>5. HomesCounted'
  <2>1. Cardinality(HomesIn(procs)) \in Nat
    BY <1>2, CountsFinite
  <2>2. Cardinality(HomesIn(procs)) <= HomesMade
    BY DEF CountInv, HomesCounted
  <2>3. Cardinality(HomesIn(procs')) <= HomesMade'
    BY <1>1, <1>2, <1>3, <2>1, <2>2, Budgets DEF SameProcesses, HomesMade
  <2>4. proc \in DOMAIN procs \/ proc = NoProc
    BY DEF ProcInv, TypeOK
  <2> QED
    BY <1>1, <2>3, <2>4 DEF CountInv, HomesCounted, SameProcesses
<1> QED
  BY <1>2, <1>4, <1>5 DEF CountInv, RestartSecond

\* A launch, which the step that makes it has a budget for.
LEMMA LaunchCounts ==
  ASSUME ProcInv, CountInv, Busy, Launch, UNCHANGED << chats, attempt >>,
         Busy', StartsNow' = StartsNow + 1, RestartSecond'
  PROVE  CountInv'
<1>1. /\ procs' = Append(procs, Fresh) /\ proc' = Len(procs')
      /\ procs \in Seq(Process) /\ Fresh \in Process
      /\ chats \in Nat /\ attempt \in 1..4 /\ chats' = chats
  BY FreshIsProcess DEF Launch, Fresh, ProcInv, TypeOK
<1>2. /\ DOMAIN procs = 1..Len(procs) /\ DOMAIN procs' = 1..(Len(procs) + 1)
      /\ procs'[Len(procs) + 1] = Fresh /\ proc' = Len(procs) + 1
      /\ \A r \in DOMAIN procs : procs'[r] = procs[r]
      /\ Len(procs) \in Nat
  BY <1>1, Grown
<1>3. StartsBefore' = StartsBefore /\ HomesBefore' = HomesBefore
  BY DEF StartsBefore, HomesBefore
<1>4. Fresh.chat = chats /\ Fresh.home = WithRole
  BY DEF Fresh
<1>5. StartsCounted'
  <2>1. ASSUME NEW n \in 1..chats
        PROVE  Cardinality(StartedIn(procs', n)) <= StartsMade(n)'
    <3>1. Cardinality(StartedIn(procs', n))
            = Cardinality(StartedIn(procs, n)) + (IF Fresh.chat = n THEN 1 ELSE 0)
      <4>1. PICK ps \in Seq(Process), q \in Process : ps = procs /\ q = Fresh
        BY <1>1
      <4>2. PICK more : more = Append(ps, q)
        OBVIOUS
      <4>3. Cardinality(StartedIn(more, n))
              = Cardinality(StartedIn(ps, n)) + (IF q.chat = n THEN 1 ELSE 0)
        BY <4>2, StartCounts, ZenonT(30)
      <4> QED
        BY <1>1, <4>1, <4>2, <4>3
    <3>2. Cardinality(StartedIn(procs, n)) <= StartsMade(n)
      BY DEF CountInv, StartsCounted
    <3>3. Cardinality(StartedIn(procs, n)) \in Nat
      BY <1>1, CountsFinite
    <3>4. n \in Nat
      BY <1>1
    <3>5. CASE n = chats
      <4>1. Cardinality(StartedIn(procs', n)) = Cardinality(StartedIn(procs, n)) + 1
        BY <1>4, <3>1, <3>5
      <4> QED
        BY <1>1, <1>3, <3>2, <3>3, <3>5, <4>1, Budgets DEF StartsMade
    <3>6. CASE n # chats
      <4>1. Cardinality(StartedIn(procs', n)) = Cardinality(StartedIn(procs, n))
        BY <1>4, <3>1, <3>3, <3>6
      <4> QED
        BY <1>1, <3>2, <3>6, <4>1 DEF StartsMade
    <3> QED
      BY <3>5, <3>6
  <2>2. \A p \in DOMAIN procs' : procs'[p].chat <= chats'
    BY <1>1, <1>2, <1>4 DEF CountInv, StartsCounted
  <2> QED
    BY <1>1, <2>1, <2>2 DEF StartsCounted
<1>6. HomesCounted'
  <2>1. /\ Cardinality(HomesIn(procs)) \in Nat
        /\ Cardinality(HomesIn(procs')) <= Cardinality(HomesIn(procs)) + 1
        /\ Cardinality(HomesIn(procs')) \in Nat
    <3>1. procs' \in Seq(Process)
      BY <1>1, Grown
    <3> QED
      BY <1>1, <3>1, CountsFinite, StartCounts
  <2>2. Cardinality(HomesIn(procs)) <= HomesMade
    BY DEF CountInv, HomesCounted
  <2>3. Cardinality(HomesIn(procs')) <= HomesMade'
    BY <1>1, <1>3, <2>1, <2>2, Budgets DEF HomesMade
  <2>4. \A p \in DOMAIN procs' : procs'[p].home => WithRole
    BY <1>2, <1>4 DEF CountInv, HomesCounted
  <2> QED
    BY <1>2, <1>4, <2>3, <2>4 DEF HomesCounted
<1> QED
  BY <1>5, <1>6 DEF CountInv

LEMMA LaunchesCount ==
  ASSUME ProcInv, CountInv, (StartIfNeeded /\ ~IsRunning) \/ Restart
  PROVE  CountInv'
<1>1. /\ Launch /\ UNCHANGED << chats, attempt >>
      /\ (pc = "ready" /\ pc' = "writing") \/ (pc = "restart" /\ pc' = "ready")
  BY DEF StartIfNeeded, Restart
<1>2. attempt \in 1..4 /\ (pc = "restart" => attempt \in {2, 4})
  BY DEF ProcInv, TypeOK, CountInv, RestartSecond
<1>3. Busy /\ Busy' /\ StartsNow' = StartsNow + 1
  BY <1>1, <1>2 DEF Busy, StartsNow, Restarts
<1>4. RestartSecond'
  BY <1>1 DEF RestartSecond
<1> QED
  BY <1>1, <1>3, <1>4, LaunchCounts

LEMMA ChatCounts ==
  ASSUME ProcInv, CountInv, Chat
  PROVE  CountInv'
<1>1. /\ procs' = procs /\ proc' \in {proc, NoProc} /\ chats' = chats + 1
      /\ attempt' = 1 /\ pc = "idle" /\ pc' = "ready"
      /\ chats \in Nat /\ procs \in Seq(Process)
  BY DEF Chat, ProcInv, TypeOK
<1>2. /\ ~Busy /\ Busy' /\ StartsNow' = 0 /\ StartsBefore' = 0 /\ HomesBefore' = 0
  BY <1>1 DEF Busy, StartsNow, StartsBefore, HomesBefore, Restarts
<1>3. \A p \in DOMAIN procs : procs[p].chat \in Nat /\ procs[p].chat <= chats
  BY ProcFields DEF CountInv, StartsCounted, Process
<1>4. StartsCounted'
  <2>1. ASSUME NEW n \in 1..(chats + 1)
        PROVE  Cardinality(StartedIn(procs, n)) <= StartsMade(n)'
    <3>1. CASE n = chats + 1
      <4>1. StartedIn(procs, n) = {}
        BY <1>1, <1>3, <3>1 DEF StartedIn
      <4>2. StartsMade(n)' = 0
        BY <1>1, <1>2, <3>1 DEF StartsMade
      <4> QED
        BY <4>1, <4>2, FS_EmptySet
    <3>2. CASE n # chats + 1
      <4>1. StartsMade(n)' = 6 /\ StartsMade(n) = 6
        BY <1>1, <1>2, <3>2 DEF StartsMade
      <4>2. n \in 1..chats
        BY <1>1, <3>2
      <4> QED
        BY <4>1, <4>2 DEF CountInv, StartsCounted
    <3> QED
      BY <3>1, <3>2
  <2>2. \A p \in DOMAIN procs' : procs'[p].chat <= chats'
    BY <1>1, <1>3
  <2> QED
    BY <1>1, <2>1, <2>2 DEF StartsCounted
<1>5. HomesCounted'
  <2>1. HomesMade = 3 * chats /\ HomesMade' = 3 * chats
    BY <1>1, <1>2 DEF HomesMade
  <2> QED
    BY <1>1, <2>1 DEF CountInv, HomesCounted
<1> QED
  BY <1>1, <1>4, <1>5 DEF CountInv, RestartSecond

LEMMA ReconfigureCounts ==
  ASSUME ProcInv, CountInv, Reconfigure
  PROVE  CountInv'
<1>1. /\ procs' = procs /\ proc' = NoProc /\ pc' = pc
      /\ UNCHANGED << chats, attempt >>
  BY DEF Reconfigure
<1>2. /\ HomesMade' = HomesMade /\ \A n : StartsMade(n)' = StartsMade(n)
  BY <1>1 DEF HomesMade, StartsMade, Busy, HomesBefore, StartsBefore, StartsNow, Restarts
<1> QED
  BY <1>1, <1>2 DEF CountInv, StartsCounted, HomesCounted, RestartSecond

LEMMA RetryCounts ==
  ASSUME ProcInv, CountInv, RetryExpired
  PROVE  CountInv'
<1>1. /\ pc = "reading" /\ attempt \in 1..3 /\ attempt' = attempt + 1
      /\ proc' = NoProc /\ chats' = chats /\ procs' = Closed
      /\ pc' = (IF attempt = 2 THEN "ready" ELSE "restart")
      /\ chats \in Nat /\ procs \in Seq(Process)
  BY DEF RetryExpired, AtEof, ProcInv, TypeOK
<1>2. /\ proc \in DOMAIN procs /\ Shut(proc) \in Process /\ proc # NoProc
      /\ procs' = [procs EXCEPT ![proc] = Shut(proc)]
  BY <1>1, CloseShape, ProcAtWork
<1>3. Shut(proc).chat = procs[proc].chat /\ ~Shut(proc).home
  BY <1>2, ProcFields DEF Shut, Process
<1>4. /\ DOMAIN procs' = DOMAIN procs /\ procs'[proc] = Shut(proc)
      /\ \A r \in DOMAIN procs : r # proc => procs'[r] = procs[r]
  BY <1>1, <1>2, Updated
<1>5. /\ HomesIn(procs') = HomesIn(procs) \ {proc}
      /\ \A n : StartedIn(procs', n) = StartedIn(procs, n)
  <2>1. /\ DOMAIN procs' = DOMAIN procs /\ ~procs'[proc].home
        /\ \A r \in DOMAIN procs : procs'[r].chat = procs[r].chat
        /\ \A r \in DOMAIN procs : r # proc => procs'[r].home = procs[r].home
    BY <1>2, <1>3, <1>4
  <2>2. HomesIn(procs') = HomesIn(procs) \ {proc}
    BY <1>2, <2>1 DEF HomesIn
  <2>3. \A n : StartedIn(procs', n) = StartedIn(procs, n)
    BY <2>1 DEF StartedIn
  <2> QED
    BY <2>2, <2>3
<1>6. /\ Busy /\ Busy' /\ StartsBefore + StartsNow = StartsBefore' + StartsNow'
      /\ HomesBefore' + StartsNow' = HomesBefore + StartsNow - 1
  BY <1>1 DEF Busy, StartsBefore, StartsNow, HomesBefore, Restarts
<1>7. StartsCounted'
  <2>1. ASSUME NEW n \in 1..chats
        PROVE  Cardinality(StartedIn(procs', n)) <= StartsMade(n)'
    BY <1>1, <1>5, <1>6 DEF CountInv, StartsCounted, StartsMade
  <2>2. \A p \in DOMAIN procs' : procs'[p].chat <= chats'
    BY <1>1, <1>3, <1>4 DEF CountInv, StartsCounted
  <2> QED
    BY <1>1, <2>1, <2>2 DEF StartsCounted
<1>8. HomesCounted'
  <2>1. Cardinality(HomesIn(procs)) \in Nat /\ IsFiniteSet(HomesIn(procs))
    BY <1>1, CountsFinite
  <2>2. Cardinality(HomesIn(procs)) <= HomesMade
    BY DEF CountInv, HomesCounted
  <2>3. Cardinality(HomesIn(procs')) <= HomesMade'
    <3>1. HomesMade' = HomesMade - 1 /\ HomesMade \in Int
      BY <1>1, <1>6, Budgets DEF HomesMade, StartsNow, StartsBefore, HomesBefore, Restarts
    <3>2. CASE WithRole
      <4>1. proc \in HomesIn(procs)
        BY <1>2, <3>2 DEF CountInv, HomesCounted, HomesIn
      <4>2. Cardinality(HomesIn(procs')) = Cardinality(HomesIn(procs)) - 1
        BY <1>5, <2>1, <4>1, OneLess
      <4> QED
        BY <2>1, <2>2, <3>1, <4>2
    <3>3. CASE ~WithRole
      <4>1. HomesIn(procs') = {}
        BY <1>5, <3>3 DEF CountInv, HomesCounted, HomesIn
      <4>2. Cardinality(HomesIn(procs')) = 0
        BY <4>1, FS_EmptySet
      <4>3. HomesMade' >= 0
        <5>1. chats # 0
          BY <1>6 DEF ProcInv, ChatStarted
        <5>2. HomesMade' = 3 * (chats - 1) + HomesBefore' + StartsNow'
          BY <1>1, <1>6 DEF HomesMade
        <5>3. HomesBefore' \in Nat /\ StartsNow' \in Nat
          BY <1>1 DEF HomesBefore, StartsNow, Restarts
        <5>4. 3 * (chats - 1) >= 0 /\ 3 * (chats - 1) \in Int
          <6>1. chats \in Nat
            BY <1>1
          <6> QED
            BY <5>1, <6>1
        <5> QED
          BY <5>2, <5>3, <5>4
      <4> QED
        BY <4>2, <4>3
    <3> QED
      BY <3>2, <3>3
  <2>4. \A p \in DOMAIN procs' : procs'[p].home => WithRole
    BY <1>3, <1>4 DEF CountInv, HomesCounted
  <2> QED
    BY <1>1, <2>3, <2>4 DEF HomesCounted
<1>9. RestartSecond'
  BY <1>1 DEF RestartSecond
<1> QED
  BY <1>7, <1>8, <1>9 DEF CountInv

LEMMA CountStutters == CountInv /\ UNCHANGED vars => CountInv'
<1> SUFFICES ASSUME CountInv, UNCHANGED vars PROVE CountInv'
  OBVIOUS
<1>1. UNCHANGED << pc, chats, attempt, proc, procs >>
  BY DEF vars, bridge
<1>2. /\ HomesMade' = HomesMade /\ \A n : StartsMade(n)' = StartsMade(n)
  BY <1>1 DEF HomesMade, StartsMade, Busy, HomesBefore, StartsBefore, StartsNow, Restarts
<1> QED
  BY <1>1, <1>2 DEF CountInv, StartsCounted, HomesCounted, RestartSecond

LEMMA CountStep == ProcInv /\ CountInv /\ [Next]_vars => CountInv'
<1> SUFFICES ASSUME ProcInv, CountInv, [Next]_vars PROVE CountInv'
  OBVIOUS
<1>1. CASE \/ StartFails \/ WritePrompt \/ WriteFails
           \/ ReadInit \/ ReadResult \/ ReadFailure \/ ReadEof \/ Agy
  BY <1>1, QuietKeeps
<1>2. CASE StartIfNeeded \/ Restart
  BY <1>2, ReuseKeeps, LaunchesCount
<1> QED
  BY <1>1, <1>2, ChatCounts, RetryCounts, ReconfigureCounts, CountStutters
     DEF Next, Bridge

LEMMA CountInvariant == Spec => []CountInv
BY ProcInvariant, CountStarts, CountStep, PTL DEF Spec

(* A chat starts six processes at most, however often conversations expire  *)
(* and processes die, and all chats together leave no more than three       *)
(* directories each (process.py, provider.py: the retries after an expiry). *)
THEOREM LeftoversCorrect == Spec => []LeftoversBounded
<1>1. ProcInv /\ CountInv => LeftoversBounded
  <2> SUFFICES ASSUME ProcInv, CountInv PROVE LeftoversBounded
    OBVIOUS
  <2>1. chats \in Nat /\ procs \in Seq(Process)
    BY DEF ProcInv, TypeOK
  <2>2. ASSUME NEW n \in 1..chats
        PROVE  Cardinality({p \in DOMAIN procs : procs[p].chat = n}) <= 6
    <3>1. Cardinality(StartedIn(procs, n)) <= StartsMade(n)
      BY DEF CountInv, StartsCounted
    <3>2. StartsMade(n) \in Int /\ StartsMade(n) <= 6
      BY Budgets DEF StartsMade
    <3>3. Cardinality(StartedIn(procs, n)) \in Nat
      BY <2>1, CountsFinite
    <3>4. Cardinality(StartedIn(procs, n)) <= 6
      BY <3>1, <3>2, <3>3
    <3> QED
      BY <3>4 DEF StartedIn
  <2>3. Cardinality({p \in DOMAIN procs : procs[p].home}) <= 3 * chats
    <3>1. Cardinality(HomesIn(procs)) <= HomesMade
      BY DEF CountInv, HomesCounted
    <3>2. HomesMade \in Int /\ HomesMade <= 3 * chats
      BY <2>1, Budgets DEF HomesMade
    <3>3. Cardinality(HomesIn(procs)) \in Nat
      BY <2>1, CountsFinite
    <3>4. Cardinality(HomesIn(procs)) <= 3 * chats
      BY <2>1, <3>1, <3>2, <3>3
    <3> QED
      BY <3>4 DEF HomesIn
  <2> QED
    BY <2>2, <2>3 DEF LeftoversBounded
<1> QED
  BY <1>1, ProcInvariant, CountInvariant, PTL

=============================================================================
