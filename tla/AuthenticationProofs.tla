------------------------ MODULE AuthenticationProofs ------------------------
(***************************************************************************)
(* Proofs about DeviceFlow and Authentication for any logins, providers,   *)
(* files, intervals and delays: the polls of the device flow, and what the *)
(* credential file tells of the logins that have written it.               *)
(***************************************************************************)
EXTENDS Authentication, TLAPS

USE FlowAssumption, AuthAssumption

-----------------------------------------------------------------------------
(* The device flow.                                                        *)

FlowTypes ==
  /\ now \in Nat /\ deadline \in Nat /\ interval \in Nat /\ wake \in Nat
  /\ announced \in Nat /\ slowDowns \in Nat
  /\ pollAt \in Nat /\ answerAt \in Nat /\ consentAt \in Nat

\* A flow that has no code yet has no history, only a failed one a cause, and
\* only one that polls an answer on its way.
NothingYet ==
  /\ flowPc \in {"idle", "asking"} =>
       slowDowns = 0 /\ answerAt = 0 /\ pollAt = 0 /\ consent = "pending"
  /\ cause # "none" => flowPc = "failed"
  /\ verdict # "none" => flowPc = "polling"

\* The interval has grown with every "slow_down".
IntervalGrown ==
  flowPc \in {"checking", "polling", "sleeping"} =>
    interval = announced + slowDowns * SlowStep

\* A sleep follows an answer and lasts an interval.  A consent that the last
\* poll has not seen is no older than that poll, and so when the sleep is over
\* no older than the poll and the sleep together have taken.
SleepsLongEnough ==
  /\ flowPc = "sleeping" =>
       /\ wake = answerAt + interval /\ answerAt <= now /\ now <= wake
       /\ pollAt <= answerAt /\ answerAt <= pollAt + MaxDelay
       /\ consent = "granted" => consentAt >= pollAt
  /\ flowPc = "checking" =>
       /\ answerAt # 0 => now >= answerAt + interval
       /\ pollAt <= now
       /\ consent = "granted" =>
            consentAt >= pollAt /\ now <= consentAt + MaxDelay + interval
  /\ flowPc = "polling" =>
       /\ answerAt # 0 => pollAt >= answerAt + interval
       /\ pollAt <= now /\ now <= pollAt + MaxDelay
       /\ verdict \in {"pending", "slow_down"} /\ consent = "granted" =>
            consentAt >= pollAt

FlowInv ==
  /\ FlowTypes /\ NothingYet /\ IntervalGrown /\ SleepsLongEnough
  /\ GrantFetched

LEMMA FlowStarts == FlowInit => FlowInv
BY DEF FlowInit, FlowInv, FlowTypes, NothingYet, IntervalGrown,
       SleepsLongEnough, GrantFetched

LEMMA ForgottenStarts == ForgetFlow => FlowInv'
BY DEF ForgetFlow, FlowInv, FlowTypes, NothingYet, IntervalGrown,
       SleepsLongEnough, GrantFetched

LEMMA BeginKeeps == FlowInv /\ BeginFlow => FlowInv'
BY DEF BeginFlow, timing, history, user, FlowInv, FlowTypes, NothingYet,
       IntervalGrown, SleepsLongEnough, GrantFetched

\* slow_down adds one SlowStep.
LEMMA OneStepMore ==
  ASSUME NEW n \in Nat
  PROVE  /\ n * SlowStep \in Nat
         /\ (n + 1) * SlowStep = n * SlowStep + SlowStep
         /\ 0 * SlowStep = 0
OBVIOUS

LEMMA Later == \A t, n \in Nat : t <= t /\ t <= t + n
OBVIOUS

LEMMA FlowKeeps == FlowInv /\ FlowNext => FlowInv'
<1> SUFFICES ASSUME FlowInv, FlowNext PROVE FlowInv'
  OBVIOUS
<1>1. CASE Initiate
  BY <1>1, OneStepMore DEF Initiate, FailFor, Escape, timing, history, user, FlowInv, FlowTypes, NothingYet, SleepsLongEnough,
         IntervalGrown, GrantFetched
<1>2. CASE Check
  BY <1>2 DEF Check, FailFor, timing, history, user, FlowInv, FlowTypes, NothingYet, SleepsLongEnough,
         IntervalGrown, GrantFetched
<1>3. CASE SleepOn
  <2>1. /\ slowDowns' = slowDowns + SlowSteps
        /\ interval' = interval + SlowSteps * SlowStep
        /\ flowPc = "polling" /\ wake' = now + interval'
        /\ answerAt' = now /\ flowPc' = "sleeping" /\ verdict' = "none"
        /\ verdict \in {"pending", "slow_down"}
        /\ UNCHANGED << now, deadline, cause, consent, consentAt, announced, pollAt >>
    BY <1>3 DEF SleepOn, user
  <2>2. /\ interval = announced + slowDowns * SlowStep /\ FlowTypes
        /\ cause = "none"
    BY <2>1 DEF IntervalGrown, FlowInv, NothingYet
  <2>3. SlowSteps = 0 \/ SlowSteps = 1
    BY DEF SlowSteps
  <2>4. IntervalGrown'
    <3>1. CASE SlowSteps = 1
      <4>1. slowDowns' * SlowStep = slowDowns * SlowStep + SlowStep
        BY <2>1, <2>2, <3>1, OneStepMore DEF FlowTypes
      <4>2. interval' = interval + SlowStep
        BY <2>1, <3>1
      <4> QED
        BY <2>1, <2>2, <4>1, <4>2, OneStepMore DEF IntervalGrown, FlowTypes
    <3>2. CASE SlowSteps = 0
      <4>1. slowDowns' = slowDowns /\ interval' = interval
        BY <2>1, <2>2, <3>2, OneStepMore DEF FlowTypes
      <4> QED
        BY <2>1, <2>2, <4>1 DEF IntervalGrown
    <3> QED
      BY <2>3, <3>1, <3>2
  <2>5. slowDowns' \in Nat /\ interval' \in Nat /\ wake' \in Nat
    BY <2>1, <2>2, <2>3 DEF FlowTypes
  <2>6. FlowTypes' /\ NothingYet' /\ GrantFetched'
    BY <2>1, <2>2, <2>5 DEF FlowTypes, NothingYet, GrantFetched
  <2>7. /\ answerAt' = now' /\ wake' = answerAt' + interval' /\ now' \in Nat
        /\ interval' \in Nat /\ answerAt' \in Nat /\ wake' \in Nat
    BY <2>1, <2>2, <2>5 DEF FlowTypes
  <2>8. answerAt' <= now' /\ now' <= wake'
    <3>1. now' <= now' + interval' /\ now' <= now'
      BY <2>7, Later, Zenon
    <3> QED
      BY <2>7, <3>1, Zenon
  <2>9. /\ pollAt' <= answerAt' /\ answerAt' <= pollAt' + MaxDelay
        /\ consent' = "granted" => consentAt' >= pollAt'
    BY <2>1 DEF FlowInv, SleepsLongEnough
  <2>10. SleepsLongEnough'
    BY <2>1, <2>7, <2>8, <2>9 DEF SleepsLongEnough
  <2> QED
    BY <2>4, <2>6, <2>10 DEF FlowInv
<1>4. CASE Finish
  BY <1>4 DEF Finish, FailFor, Escape, timing, history, user, FlowInv, FlowTypes,
         NothingYet, SleepsLongEnough, IntervalGrown, GrantFetched
<1>8. CASE Answer
  BY <1>8 DEF Answer, timing, history, user, FlowInv, FlowTypes,
         NothingYet, SleepsLongEnough, IntervalGrown, GrantFetched
<1>5. CASE Wake
  BY <1>5 DEF Wake, timing, history, user, FlowInv, FlowTypes, NothingYet, SleepsLongEnough,
         IntervalGrown, GrantFetched
<1>6. CASE Decide
  BY <1>6 DEF Decide, timing, history, user, FlowInv, FlowTypes, NothingYet, SleepsLongEnough,
         IntervalGrown, GrantFetched
<1>7. CASE Tick
  BY <1>7 DEF Tick, timing, history, user, FlowInv, FlowTypes, NothingYet, SleepsLongEnough,
         IntervalGrown, GrantFetched
<1> QED
  BY <1>1, <1>2, <1>3, <1>4, <1>5, <1>6, <1>7, <1>8 DEF FlowNext, FlowStep

LEMMA FlowFollows == FlowInv => PollsSpaced
<1> SUFFICES ASSUME FlowInv, flowPc = "polling", answerAt # 0
             PROVE  pollAt >= answerAt + announced + slowDowns * SlowStep
  BY DEF PollsSpaced
<1>1. pollAt >= answerAt + interval
      /\ interval = announced + slowDowns * SlowStep
  BY DEF FlowInv, SleepsLongEnough, IntervalGrown
<1>2. slowDowns * SlowStep \in Nat
  BY OneStepMore DEF FlowInv, FlowTypes
<1> QED
  BY <1>1, <1>2 DEF FlowInv, FlowTypes

\* A step of a login starts the flow, runs it, forgets it or leaves it alone.
LEMMA FlowOfSteps ==
  Next => BeginFlow \/ FlowNext \/ ForgetFlow \/ UNCHANGED flowVars
BY DEF Next, Login, Step, FlowEnds, Load, CreateTemp, WriteTemp, Replace,
       SaveEnds, Die, FlowRuns

LEMMA FlowInvariant == Spec => []FlowInv
<1>1. Init => FlowInv
  BY FlowStarts DEF Init
<1>2. FlowInv /\ [Next]_vars => FlowInv'
  <2> SUFFICES ASSUME FlowInv, [Next]_vars PROVE FlowInv'
    OBVIOUS
  <2>1. CASE UNCHANGED flowVars
    BY <2>1 DEF flowVars, timing, history, user, FlowInv, FlowTypes, NothingYet,
                IntervalGrown, SleepsLongEnough, GrantFetched
  <2> QED
    BY <2>1, FlowOfSteps, BeginKeeps, FlowKeeps, ForgottenStarts DEF vars
<1> QED
  BY <1>1, <1>2, PTL DEF Spec

(* Whatever Google answers and however late, two polls are as far apart as *)
(* it has asked for (poll_device_token).                                   *)
THEOREM SpacingCorrect == Spec => []PollsSpaced
BY FlowInvariant, FlowFollows, PTL

(* A flow that expires has missed no consent but one given after its last  *)
(* poll was sent, within a poll and a sleep of the deadline, however late  *)
(* an answer is when it arrives (poll_device_token, _post).                *)
THEOREM GrantCorrect == Spec => []GrantFetched
<1>1. FlowInv => GrantFetched
  BY DEF FlowInv
<1> QED
  BY <1>1, FlowInvariant, PTL

-----------------------------------------------------------------------------
(* The credential file.                                                    *)

Saving == {"creating", "writing", "replacing"}

\* Only the temporary file of a login that is replacing the file is whole, and
\* only a dead login has left one.
TempState ==
  \A l \in Logins :
    /\ temp[l] # "none" => pc[l] \in {"writing", "replacing", "dead"}
    /\ pc[l] = "replacing" => temp[l] = "whole"

NotTorn == file.is # "torn"

FileInv == TypeOK /\ TempState /\ NotTorn

LEMMA TableTypes ==
  /\ NoTable \in Credentials /\ NoCredentials \in Credentials
  /\ NoTable.kind = "missing" /\ ~NoTable.control
  /\ NoCredentials.kind = "none" /\ ~NoCredentials.control
  /\ \A l \in Logins, k \in {"key", "oauth"}, c \in BOOLEAN :
       /\ Table(k, l, c) \in Credentials /\ Table(k, l, c).kind = k
       /\ Table(k, l, c).control = c
  /\ Credentials \subseteq Tables
BY DEF NoTable, NoCredentials, Table, Credentials, Tables

LEMMA ContentTypes ==
  /\ Unreadable \in Contents /\ Unreadable.is = "unreadable"
  /\ Unreadable.tables = [p \in Providers |-> NoTable]
  /\ \A t \in [Providers -> Tables] :
       /\ Readable(t) \in Contents /\ Readable(t).is = "tables"
       /\ Readable(t).tables = t
BY TableTypes DEF Unreadable, Absent, Readable, Contents

\* A table that neither is invalid nor no table is loaded as a credential.
LEMMA ValidatedType ==
  ASSUME NEW t \in Tables, t.kind \notin {"scalar", "invalid"}
  PROVE  /\ Validated(t) \in Credentials
         /\ t.kind # "incomplete" => Validated(t) = t
         /\ ~t.control => ~Validated(t).control
<1>1. CASE t \in Credentials
  BY <1>1 DEF Validated, Credentials
<1>2. CASE t \notin Credentials
  <2>1. t.kind = "incomplete"
    BY <1>2 DEF Tables
  <2> QED
    BY <2>1, TableTypes DEF Validated
<1> QED
  BY <1>1, <1>2

\* Types after the end of a login's process.
LEMMA EndTypes ==
  ASSUME TypeOK, NEW l \in Logins, NEW how \in Ended, End(l, how)
  PROVE  /\ pc' \in [Logins -> Ended \cup {"idle", "flow", "loading", "creating",
                                           "writing", "replacing", "chmod"}]
         /\ provider' \in [Logins -> Providers]
         /\ cred' \in [Logins -> Credentials]
         /\ stored' \in [Logins -> [Providers -> Credentials]]
         /\ since' \in [Logins -> SUBSET Providers]
         /\ pc'[l] = how /\ \A m \in Logins \ {l} : pc'[m] = pc[m]
<1>1. [p \in Providers |-> NoTable] \in [Providers -> Credentials]
  BY TableTypes
<1> QED
  BY <1>1, TableTypes DEF TypeOK, End, Goto

LEMMA SavedTypes ==
  ASSUME TypeOK, NEW l \in Logins
  PROVE  Encoded(l) \in Contents /\ Encoded(l).is \in {"tables", "unreadable"}
<1> DEFINE saved == [stored[l] EXCEPT ![provider[l]] = cred[l]]
<1>1. saved \in [Providers -> Credentials]
  BY DEF TypeOK
<1>2. saved \in [Providers -> Tables]
  BY <1>1, TableTypes
<1>3. Encoded(l) = Unreadable \/ Encoded(l) = Readable(saved)
  BY DEF Encoded
<1> QED
  BY <1>2, <1>3, ContentTypes

LEMMA FileStarts == Init => FileInv
<1> SUFFICES ASSUME Init PROVE FileInv
  OBVIOUS
<1>1. [p \in Providers |-> NoTable] \in [Providers -> Credentials]
  BY TableTypes
<1>2. file \in Contents /\ NotTorn
  BY FilesAssumption DEF Init, NotTorn
<1>3. TypeOK
  BY <1>1, <1>2, TableTypes DEF Init, TypeOK, Ended
<1> QED
  BY <1>2, <1>3 DEF Init, FileInv, TempState

LEMMA LoginKeepsFile == FileInv /\ (\E l \in Logins : Login(l)) => FileInv'
<1> SUFFICES ASSUME FileInv, NEW l \in Logins, Login(l) PROVE FileInv'
  OBVIOUS
<1>1. /\ temp' = temp /\ file' = file /\ latest' = latest /\ overtaken' = overtaken
      /\ pc[l] = "idle"
  BY DEF Login
<1>2. PICK p \in Providers :
        \/ /\ Goto(l, "flow") /\ provider' = [provider EXCEPT ![l] = p]
           /\ UNCHANGED << cred, stored, since >>
        \/ End(l, "error")
        \/ /\ \E c \in {NoCredentials} \cup
                       {Table("key", l, control) : control \in BOOLEAN} :
                cred' = [cred EXCEPT ![l] = c]
           /\ provider' = [provider EXCEPT ![l] = p]
           /\ Goto(l, "loading")
           /\ UNCHANGED << stored, since >>
  BY DEF Login
<1>3. TypeOK' /\ pc' \in [Logins -> {pc[m] : m \in Logins}
                                      \cup {"flow", "error", "loading"}]
              /\ pc'[l] \in {"flow", "error", "loading"}
              /\ \A m \in Logins \ {l} : pc'[m] = pc[m]
  <2>1. CASE Goto(l, "flow") /\ provider' = [provider EXCEPT ![l] = p]
             /\ UNCHANGED << cred, stored, since >>
    BY <1>1, <2>1 DEF Goto, TypeOK, FileInv
  <2>2. CASE End(l, "error")
    BY <1>1, <2>2, EndTypes DEF TypeOK, FileInv, Ended
  <2>3. CASE /\ \E c \in {NoCredentials} \cup
                         {Table("key", l, control) : control \in BOOLEAN} :
                  cred' = [cred EXCEPT ![l] = c]
             /\ provider' = [provider EXCEPT ![l] = p]
             /\ Goto(l, "loading")
             /\ UNCHANGED << stored, since >>
    BY <1>1, <2>3, TableTypes DEF Goto, TypeOK, FileInv
  <2> QED
    BY <1>2, <2>1, <2>2, <2>3
<1>4. TempState'
  BY <1>1, <1>3 DEF FileInv, TempState
<1> QED
  BY <1>1, <1>3, <1>4 DEF FileInv, NotTorn

LEMMA FlowEndsKeepsFile == FileInv /\ (\E l \in Logins : FlowEnds(l)) => FileInv'
<1> SUFFICES ASSUME FileInv, NEW l \in Logins, FlowEnds(l) PROVE FileInv'
  OBVIOUS
<1>1. /\ temp' = temp /\ file' = file /\ latest' = latest /\ overtaken' = overtaken
      /\ pc[l] = "flow"
  BY DEF FlowEnds
<1>2. TypeOK' /\ pc'[l] \in {"loading", "error", "escaped"}
              /\ \A m \in Logins \ {l} : pc'[m] = pc[m]
  <2>1. CASE End(l, "error") \/ End(l, "escaped")
    BY <1>1, <2>1, EndTypes DEF TypeOK, FileInv, Ended
  <2>2. CASE /\ Goto(l, "loading")
             /\ cred' = [cred EXCEPT ![l] = Table("oauth", l, FALSE)]
             /\ UNCHANGED << provider, stored, since >>
    BY <1>1, <2>2, TableTypes DEF Goto, TypeOK, FileInv
  <2> QED
    BY <2>1, <2>2 DEF FlowEnds
<1> QED
  BY <1>1, <1>2 DEF FileInv, TempState, NotTorn

LEMMA LoadKeepsFile == FileInv /\ (\E l \in Logins : Load(l)) => FileInv'
<1> SUFFICES ASSUME FileInv, NEW l \in Logins, Load(l) PROVE FileInv'
  OBVIOUS
<1>1. /\ temp' = temp /\ file' = file /\ latest' = latest /\ overtaken' = overtaken
      /\ pc[l] = "loading"
  BY DEF Load
<1>2. TypeOK' /\ pc'[l] \in Ended \cup {"creating"}
              /\ \A m \in Logins \ {l} : pc'[m] = pc[m]
  <2>1. CASE LoadOutcome \in Ended /\ End(l, LoadOutcome)
    BY <1>1, <2>1, EndTypes DEF TypeOK, FileInv
  <2>2. CASE /\ LoadOutcome = "creating"
             /\ Goto(l, "creating")
             /\ stored' = [stored EXCEPT ![l] =
                             [p \in Providers |-> Validated(file.tables[p])]]
             /\ since' = [since EXCEPT ![l] = {}]
             /\ UNCHANGED << provider, cred >>
    <3>1. \A p \in Providers : /\ file.tables[p] \in Tables
                               /\ file.tables[p].kind \notin {"scalar", "invalid"}
      BY <2>2 DEF LoadOutcome, FileInv, TypeOK, Contents
    <3>2. [p \in Providers |-> Validated(file.tables[p])] \in [Providers -> Credentials]
      BY <3>1, ValidatedType
    <3> QED
      BY <1>1, <2>2, <3>2 DEF Goto, TypeOK, FileInv
  <2> QED
    BY <2>1, <2>2 DEF Load
<1> QED
  BY <1>1, <1>2 DEF FileInv, TempState, NotTorn, Ended

LEMMA CreateKeepsFile == FileInv /\ (\E l \in Logins : CreateTemp(l)) => FileInv'
<1> SUFFICES ASSUME FileInv, NEW l \in Logins, CreateTemp(l) PROVE FileInv'
  OBVIOUS
<1>1. /\ file' = file /\ latest' = latest /\ overtaken' = overtaken
      /\ pc[l] = "creating"
  BY DEF CreateTemp
<1>2. CASE End(l, "escaped") /\ temp' = temp
  <2>1. TypeOK' /\ pc'[l] = "escaped" /\ \A m \in Logins \ {l} : pc'[m] = pc[m]
    BY <1>1, <1>2, EndTypes DEF TypeOK, FileInv, Ended
  <2> QED
    BY <1>1, <1>2, <2>1 DEF FileInv, TempState, NotTorn
<1>3. CASE /\ Goto(l, "writing") /\ temp' = [temp EXCEPT ![l] = "partial"]
           /\ UNCHANGED << provider, cred, stored, since >>
  BY <1>1, <1>3 DEF Goto, FileInv, TypeOK, TempState, NotTorn
<1> QED
  BY <1>2, <1>3 DEF CreateTemp

LEMMA WriteKeepsFile == FileInv /\ (\E l \in Logins : WriteTemp(l)) => FileInv'
BY DEF WriteTemp, Goto, FileInv, TypeOK, TempState, NotTorn

LEMMA ReplaceKeepsFile == FileInv /\ (\E l \in Logins : Replace(l)) => FileInv'
<1> SUFFICES ASSUME FileInv, NEW l \in Logins, Replace(l) PROVE FileInv'
  OBVIOUS
<1>1. pc[l] = "replacing" /\ temp[l] = "whole" /\ file' = Encoded(l)
  BY DEF Replace, FileInv, TempState
<1>2. file' \in Contents /\ NotTorn'
  BY <1>1, SavedTypes DEF FileInv, NotTorn
<1>3. TypeOK'
  BY <1>2 DEF Replace, Goto, FileInv, TypeOK
<1> QED
  BY <1>2, <1>3 DEF Replace, Goto, FileInv, TypeOK, TempState

LEMMA SaveEndsKeepsFile == FileInv /\ (\E l \in Logins : SaveEnds(l)) => FileInv'
<1> SUFFICES ASSUME FileInv, NEW l \in Logins, SaveEnds(l) PROVE FileInv'
  OBVIOUS
<1>1. /\ file' = file /\ latest' = latest /\ overtaken' = overtaken
      /\ temp' = [temp EXCEPT ![l] = "none"]
      /\ End(l, "done") \/ End(l, "escaped")
  BY DEF SaveEnds
<1>2. TypeOK' /\ pc'[l] \in {"done", "escaped"}
              /\ \A m \in Logins \ {l} : pc'[m] = pc[m]
  BY <1>1, EndTypes DEF TypeOK, FileInv, Ended
<1> QED
  BY <1>1, <1>2 DEF FileInv, TypeOK, TempState, NotTorn

LEMMA DieKeepsFile == FileInv /\ (\E l \in Logins : Die(l)) => FileInv'
<1> SUFFICES ASSUME FileInv, NEW l \in Logins, Die(l) PROVE FileInv'
  OBVIOUS
<1>1. /\ file' = file /\ latest' = latest /\ overtaken' = overtaken /\ temp' = temp
      /\ End(l, "dead")
  BY DEF Die
<1>2. TypeOK' /\ pc'[l] = "dead" /\ \A m \in Logins \ {l} : pc'[m] = pc[m]
  BY <1>1, EndTypes DEF TypeOK, FileInv, Ended
<1> QED
  BY <1>1, <1>2 DEF FileInv, TempState, NotTorn

LEMMA FileInvariant == Spec => []FileInv
<1>1. FileInv /\ [Next]_vars => FileInv'
  <2> SUFFICES ASSUME FileInv, [Next]_vars PROVE FileInv'
    OBVIOUS
  <2>1. CASE FlowRuns \/ UNCHANGED vars
    BY <2>1 DEF FlowRuns, vars, authVars, FileInv, TypeOK, TempState, NotTorn
  <2>2. CASE \E l \in Logins : Login(l) \/ Step(l) \/ Die(l)
    BY <2>2, LoginKeepsFile, FlowEndsKeepsFile, LoadKeepsFile, CreateKeepsFile,
       WriteKeepsFile, ReplaceKeepsFile, SaveEndsKeepsFile, DieKeepsFile DEF Step
  <2> QED
    BY <2>1, <2>2 DEF Next
<1> QED
  BY <1>1, FileStarts, PTL DEF Spec

(* What logins hold, and what they have loaded from any file, are          *)
(* credentials (AuthManager).                                              *)
THEOREM TypeCorrect == Spec => []TypeOK
<1>1. FileInv => TypeOK
  BY DEF FileInv
<1> QED
  BY <1>1, FileInvariant, PTL

(* The file is what some login has written in full or what was there       *)
(* before, whichever login dies or fails between any two steps             *)
(* (TomlCredentialStore.save).                                             *)
THEOREM WholeCorrect == Spec => []FileWhole
<1>1. FileInv => FileWhole
  BY DEF FileInv, TempState, NotTorn, FileWhole
<1> QED
  BY <1>1, FileInvariant, PTL


-----------------------------------------------------------------------------
(* What a lookup finds.                                                    *)

\* A login that has a provider's credential has a real one.
Obtained ==
  \A l \in Logins : pc[l] \in Saving \cup {"loading"} => cred[l].kind # "missing"

\* What is read back has no control character: TOML would not have been read.
NoControl ==
  /\ \A p \in Providers : ~file.tables[p].control
  /\ \A l \in Logins, p \in Providers : ~stored[l][p].control

LoggedIn(p) == latest[p].kind # "missing"

\* The file holds the last login of a provider, unless it cannot be read.
FileTells ==
  \A p \in Providers : LoggedIn(p) =>
    /\ file.is \in {"tables", "unreadable"}
    /\ file.is = "unreadable" => \E q \in Providers : latest[q].control
    /\ (file.is = "tables" /\ p \notin overtaken) => file.tables[p] = latest[p]

\* So do the credentials a login has loaded, but for logins since.
StoredTells ==
  \A l \in Logins, p \in Providers :
    (pc[l] \in Saving /\ LoggedIn(p) /\ p \notin since[l] /\ p \notin overtaken)
    => stored[l][p] = latest[p]

LookupInv == FileInv /\ Obtained /\ NoControl /\ FileTells /\ StoredTells

LEMMA LookupStarts == Init => LookupInv
<1> SUFFICES ASSUME Init PROVE LookupInv
  OBVIOUS
<1>1. NoControl
  BY FilesAssumption, TableTypes DEF Init, NoControl
<1> QED
  BY <1>1, FileStarts, TableTypes
     DEF Init, LookupInv, Obtained, FileTells, StoredTells, LoggedIn, Saving

\* A login that ends leaves nothing that has to tell anything.
LEMMA EndKeepsLookup ==
  ASSUME LookupInv, NEW l \in Logins, NEW how \in Ended, End(l, how),
         file' = file, latest' = latest, overtaken' = overtaken, FileInv'
  PROVE  LookupInv'
<1>1. /\ pc'[l] = how /\ \A m \in Logins \ {l} : pc'[m] = pc[m]
      /\ \A m \in Logins \ {l} : /\ cred'[m] = cred[m] /\ stored'[m] = stored[m]
                                 /\ since'[m] = since[m]
      /\ stored'[l] = [p \in Providers |-> NoTable]
  BY DEF End, Goto, LookupInv, FileInv, TypeOK
<1>2. how \notin Saving \cup {"loading"}
  BY DEF Ended, Saving
<1>3. NoControl'
  BY <1>1, TableTypes DEF LookupInv, NoControl
<1>4. Obtained' /\ StoredTells'
  BY <1>1, <1>2 DEF LookupInv, Obtained, StoredTells, LoggedIn
<1>5. FileTells'
  BY DEF LookupInv, FileTells, LoggedIn
<1> QED
  BY <1>3, <1>4, <1>5 DEF LookupInv

\* A step that leaves the file and what is loaded alone, and takes a login
\* with a credential at most one step further.
LEMMA QuietKeepsLookup ==
  ASSUME LookupInv, NEW l \in Logins, FileInv',
         UNCHANGED << file, latest, overtaken, stored, since >>,
         \A m \in Logins \ {l} : pc'[m] = pc[m] /\ cred'[m] = cred[m],
         pc'[l] \in Saving => pc[l] \in Saving,
         pc'[l] \in Saving \cup {"loading"} => cred'[l].kind # "missing"
  PROVE  LookupInv'
<1>1. NoControl' /\ FileTells'
  BY DEF LookupInv, NoControl, FileTells, LoggedIn
<1>2. Obtained' /\ StoredTells'
  BY DEF LookupInv, Obtained, StoredTells, LoggedIn
<1> QED
  BY <1>1, <1>2 DEF LookupInv

LEMMA LoginKeepsLookup ==
  ASSUME LookupInv, NEW l \in Logins, Login(l), FileInv'
  PROVE  LookupInv'
<1>1. UNCHANGED << file, latest, overtaken >>
  BY DEF Login
<1>2. \/ /\ Goto(l, "flow") /\ UNCHANGED << cred, stored, since >>
      \/ End(l, "error")
      \/ /\ \E c \in {NoCredentials} \cup
                     {Table("key", l, control) : control \in BOOLEAN} :
              cred' = [cred EXCEPT ![l] = c]
         /\ Goto(l, "loading")
         /\ UNCHANGED << stored, since >>
  BY DEF Login
<1>3. CASE Goto(l, "flow") /\ UNCHANGED << cred, stored, since >>
  <2>1. pc'[l] = "flow" /\ \A m \in Logins \ {l} : pc'[m] = pc[m]
    BY <1>3 DEF Goto, LookupInv, FileInv, TypeOK
  <2> QED
    BY <1>1, <1>3, <2>1, QuietKeepsLookup DEF Saving
<1>4. CASE End(l, "error")
  BY <1>1, <1>4, EndKeepsLookup DEF Ended
<1>5. CASE /\ \E c \in {NoCredentials} \cup
                       {Table("key", l, control) : control \in BOOLEAN} :
                cred' = [cred EXCEPT ![l] = c]
           /\ Goto(l, "loading")
           /\ UNCHANGED << stored, since >>
  <2>1. /\ pc'[l] = "loading" /\ cred'[l].kind # "missing"
        /\ \A m \in Logins \ {l} : pc'[m] = pc[m] /\ cred'[m] = cred[m]
    BY <1>5, TableTypes DEF Goto, LookupInv, FileInv, TypeOK
  <2> QED
    BY <1>1, <1>5, <2>1, QuietKeepsLookup DEF Saving
<1> QED
  BY <1>2, <1>3, <1>4, <1>5

LEMMA FlowEndsKeepsLookup ==
  ASSUME LookupInv, NEW l \in Logins, FlowEnds(l), FileInv'
  PROVE  LookupInv'
<1>1. UNCHANGED << file, latest, overtaken >>
  BY DEF FlowEnds
<1>2. CASE End(l, "error") \/ End(l, "escaped")
  BY <1>1, <1>2, EndKeepsLookup DEF Ended
<1>3. CASE /\ Goto(l, "loading")
           /\ cred' = [cred EXCEPT ![l] = Table("oauth", l, FALSE)]
           /\ UNCHANGED << provider, stored, since >>
  <2>1. Table("oauth", l, FALSE).kind # "missing"
    BY DEF Table
  <2>2. /\ pc'[l] = "loading" /\ cred'[l].kind # "missing"
        /\ \A m \in Logins \ {l} : pc'[m] = pc[m] /\ cred'[m] = cred[m]
    BY <1>3, <2>1, ZenonT(30) DEF Goto, LookupInv, FileInv, TypeOK
  <2> QED
    BY <1>1, <1>3, <2>2, QuietKeepsLookup DEF Saving
<1> QED
  BY <1>2, <1>3 DEF FlowEnds

LEMMA LoadKeepsLookup ==
  ASSUME LookupInv, NEW l \in Logins, Load(l), FileInv'
  PROVE  LookupInv'
<1>1. UNCHANGED << file, latest, overtaken >> /\ pc[l] = "loading"
  BY DEF Load
<1>2. CASE LoadOutcome \in Ended /\ End(l, LoadOutcome)
  BY <1>1, <1>2, EndKeepsLookup
<1>3. CASE /\ LoadOutcome = "creating"
           /\ Goto(l, "creating")
           /\ stored' = [stored EXCEPT ![l] =
                           [p \in Providers |-> Validated(file.tables[p])]]
           /\ since' = [since EXCEPT ![l] = {}]
           /\ UNCHANGED << provider, cred >>
  <2>1. /\ pc'[l] = "creating" /\ cred'[l] = cred[l]
        /\ stored'[l] = [p \in Providers |-> Validated(file.tables[p])]
        /\ \A m \in Logins \ {l} : /\ pc'[m] = pc[m] /\ stored'[m] = stored[m]
                                   /\ since'[m] = since[m] /\ cred'[m] = cred[m]
    BY <1>3 DEF Goto, LookupInv, FileInv, TypeOK
  <2>2. file.is \notin {"symlink", "unreadable", "torn"}
    BY <1>3 DEF LoadOutcome
  <2>3. \A p \in Providers : /\ file.tables[p] \in Tables
                             /\ file.tables[p].kind \notin {"scalar", "invalid"}
    BY <1>3 DEF LoadOutcome, LookupInv, FileInv, TypeOK, Contents
  <2>4. \A p \in Providers : ~Validated(file.tables[p]).control
    BY <2>3, ValidatedType DEF LookupInv, NoControl
  <2>5. NoControl'
    BY <1>1, <2>1, <2>4 DEF LookupInv, NoControl
  <2>6. \A p \in Providers : LoggedIn(p) /\ p \notin overtaken =>
          Validated(file.tables[p]) = latest[p]
    <3> SUFFICES ASSUME NEW p \in Providers, LoggedIn(p), p \notin overtaken
                 PROVE  Validated(file.tables[p]) = latest[p]
      OBVIOUS
    <3>1. file.tables[p] = latest[p]
      BY <2>2 DEF LookupInv, FileTells
    <3>2. latest[p].kind # "incomplete"
      BY DEF LookupInv, FileInv, TypeOK, Credentials
    <3> QED
      BY <2>3, <3>1, <3>2, ValidatedType
  <2>7. StoredTells'
    BY <1>1, <2>1, <2>6 DEF LookupInv, StoredTells, LoggedIn
  <2>8. Obtained' /\ FileTells'
    BY <1>1, <2>1 DEF LookupInv, Obtained, FileTells, LoggedIn
  <2> QED
    BY <2>5, <2>7, <2>8 DEF LookupInv
<1> QED
  BY <1>2, <1>3 DEF Load


\* Only what the login itself has obtained may spoil the file.
LEMMA SavedControl ==
  ASSUME LookupInv, NEW l \in Logins
  PROVE  /\ Encoded(l).is = "unreadable" => cred[l].control
         /\ Encoded(l).is = "tables" =>
              Encoded(l).tables = [stored[l] EXCEPT ![provider[l]] = cred[l]]
         /\ \A p \in Providers : ~Encoded(l).tables[p].control
<1> DEFINE saved == [stored[l] EXCEPT ![provider[l]] = cred[l]]
<1>1. saved \in [Providers -> Tables]
  BY TableTypes DEF LookupInv, FileInv, TypeOK
<1>2. \A p \in Providers : p # provider[l] => ~saved[p].control
  BY DEF LookupInv, FileInv, TypeOK, NoControl
<1>3. saved[provider[l]] = cred[l]
  BY DEF LookupInv, FileInv, TypeOK
<1>4. CASE \E p \in Providers : saved[p].control
  <2>1. Encoded(l) = Unreadable
    BY <1>4 DEF Encoded
  <2>2. cred[l].control
    BY <1>2, <1>3, <1>4
  <2> QED
    BY <2>1, <2>2, ContentTypes, TableTypes
<1>5. CASE ~\E p \in Providers : saved[p].control
  <2>1. Encoded(l) = Readable(saved)
    BY <1>5 DEF Encoded
  <2> QED
    BY <1>1, <1>5, <2>1, ContentTypes
<1> QED
  BY <1>4, <1>5

LEMMA ReplaceKeepsLookup ==
  ASSUME LookupInv, NEW l \in Logins, Replace(l), FileInv'
  PROVE  LookupInv'
<1> DEFINE mine == provider[l]
<1>1. /\ pc[l] = "replacing" /\ file' = Encoded(l) /\ mine \in Providers
      /\ UNCHANGED << cred, stored >>
  BY DEF Replace, LookupInv, FileInv, TempState, TypeOK
<1>2. /\ pc'[l] = "chmod" /\ \A m \in Logins \ {l} : pc'[m] = pc[m]
      /\ latest'[mine] = cred[l]
      /\ \A p \in Providers \ {mine} : latest'[p] = latest[p]
      /\ overtaken' = (overtaken \cup since[l]) \ {mine}
      /\ \A m \in Running : since'[m] = since[m] \cup {mine}
  BY DEF Replace, Goto, LookupInv, FileInv, TypeOK, Running
<1>3. NoControl'
  BY <1>1, SavedControl DEF LookupInv, NoControl
<1>4. Obtained'
  BY <1>1, <1>2 DEF LookupInv, Obtained, Saving
<1>5. FileTells'
  <2> SUFFICES ASSUME NEW p \in Providers, LoggedIn(p)'
               PROVE  /\ file'.is \in {"tables", "unreadable"}
                      /\ file'.is = "unreadable" =>
                           \E q \in Providers : latest'[q].control
                      /\ (file'.is = "tables" /\ p \notin overtaken') =>
                           file'.tables[p] = latest'[p]
    BY DEF FileTells
  <2>1. file'.is \in {"tables", "unreadable"}
    BY <1>1, SavedTypes DEF LookupInv, FileInv
  <2>2. ASSUME file'.is = "unreadable" PROVE latest'[mine].control
    BY <1>1, <1>2, <2>2, SavedControl
  <2>3. ASSUME file'.is = "tables", p \notin overtaken'
        PROVE  file'.tables[p] = latest'[p]
    <3>1. file'.tables = [stored[l] EXCEPT ![mine] = cred[l]]
      BY <1>1, <2>3, SavedControl
    <3>2. CASE p = mine
      BY <1>1, <1>2, <3>1, <3>2 DEF LookupInv, FileInv, TypeOK
    <3>3. CASE p # mine
      <4>1. p \notin overtaken /\ p \notin since[l] /\ LoggedIn(p)
        BY <1>2, <2>3, <3>3 DEF LoggedIn
      <4>2. stored[l][p] = latest[p]
        BY <1>1, <4>1 DEF LookupInv, StoredTells, Saving
      <4> QED
        BY <1>1, <1>2, <3>1, <3>3, <4>2 DEF LookupInv, FileInv, TypeOK
    <3> QED
      BY <3>2, <3>3
  <2> QED
    BY <1>1, <2>1, <2>2, <2>3
<1>6. StoredTells'
  <2> SUFFICES ASSUME NEW m \in Logins, NEW p \in Providers, pc'[m] \in Saving,
                      LoggedIn(p)', p \notin since'[m], p \notin overtaken'
               PROVE  stored'[m][p] = latest'[p]
    BY DEF StoredTells
  <2>1. m # l /\ pc[m] \in Saving
    BY <1>2 DEF Saving
  <2>2. m \in Running
    BY <2>1 DEF Running, Saving, Ended
  <2>3. p # mine /\ p \notin since[m] /\ p \notin overtaken /\ LoggedIn(p)
    BY <1>2, <2>2 DEF LoggedIn
  <2> QED
    BY <1>1, <1>2, <2>1, <2>3 DEF LookupInv, StoredTells
<1> QED
  BY <1>3, <1>4, <1>5, <1>6 DEF LookupInv

LEMMA StepsKeepLookup ==
  ASSUME LookupInv, FileInv', NEW l \in Logins, Login(l) \/ Step(l) \/ Die(l)
  PROVE  LookupInv'
<1>1. CASE CreateTemp(l)
  <2>1. CASE End(l, "escaped")
    BY <1>1, <2>1, EndKeepsLookup DEF CreateTemp, Ended
  <2>2. CASE Goto(l, "writing") /\ UNCHANGED << provider, cred, stored, since >>
    <3>1. /\ pc'[l] = "writing" /\ pc[l] = "creating"
          /\ \A m \in Logins \ {l} : pc'[m] = pc[m]
          /\ UNCHANGED << file, latest, overtaken >>
      BY <1>1, <2>2 DEF CreateTemp, Goto, LookupInv, FileInv, TypeOK
    <3>2. cred[l].kind # "missing"
      BY <3>1 DEF LookupInv, Obtained, Saving
    <3> QED
      BY <2>2, <3>1, <3>2, QuietKeepsLookup DEF Saving
  <2> QED
    BY <1>1, <2>1, <2>2 DEF CreateTemp
<1>2. CASE WriteTemp(l)
  <2>1. /\ pc'[l] = "replacing" /\ pc[l] = "writing"
        /\ \A m \in Logins \ {l} : pc'[m] = pc[m]
        /\ UNCHANGED << file, latest, overtaken, provider, cred, stored, since >>
    BY <1>2 DEF WriteTemp, Goto, LookupInv, FileInv, TypeOK
  <2>2. cred[l].kind # "missing"
    BY <2>1 DEF LookupInv, Obtained, Saving
  <2> QED
    BY <2>1, <2>2, QuietKeepsLookup DEF Saving
<1>3. CASE SaveEnds(l)
  BY <1>3, EndKeepsLookup DEF SaveEnds, Ended
<1>4. CASE Die(l)
  BY <1>4, EndKeepsLookup DEF Die, Ended
<1> QED
  BY <1>1, <1>2, <1>3, <1>4, LoginKeepsLookup, FlowEndsKeepsLookup,
     LoadKeepsLookup, ReplaceKeepsLookup DEF Step

LEMMA LookupInvariant == Spec => []LookupInv
<1>1. LookupInv /\ FileInv' /\ [Next]_vars => LookupInv'
  <2> SUFFICES ASSUME LookupInv, FileInv', [Next]_vars PROVE LookupInv'
    OBVIOUS
  <2>1. CASE FlowRuns \/ UNCHANGED vars
    BY <2>1 DEF FlowRuns, vars, authVars, LookupInv, Obtained, NoControl,
                FileTells, StoredTells, LoggedIn
  <2>2. CASE \E l \in Logins : Login(l) \/ Step(l) \/ Die(l)
    BY <2>2, StepsKeepLookup
  <2> QED
    BY <2>1, <2>2 DEF Next
<1> QED
  BY <1>1, LookupStarts, FileInvariant, PTL DEF Spec

(* A lookup finds a provider's last login, unless the environment or a     *)
(* concurrent login overrules it or a key cannot be read back              *)
(* (AuthManager.login and resolve).                                        *)
THEOREM LookupCorrect == Spec => []LookupFindsLogin
<1>1. LookupInv => LookupFindsLogin
  <2> SUFFICES ASSUME LookupInv, NEW p \in Providers, LoggedIn(p),
                      p \notin overtaken, Environment[p] = "unset",
                      \A q \in Providers : ~latest[q].control
               PROVE  Resolve(p) = latest[p]
    BY DEF LookupFindsLogin, LoggedIn
  <2>1. file.is = "tables" /\ file.tables[p] = latest[p]
    BY DEF LookupInv, FileTells
  <2>2. latest[p].kind \notin {"missing", "scalar", "invalid", "incomplete"}
    BY DEF LookupInv, FileInv, TypeOK, Credentials, LoggedIn
  <2>3. ResolveStored(p) = Validated(file.tables[p])
    BY <2>1, <2>2 DEF ResolveStored
  <2>4. Resolve(p) = ResolveStored(p)
    BY DEF Resolve
  <2> QED
    BY <2>1, <2>2, <2>3, <2>4 DEF Validated
<1> QED
  BY <1>1, LookupInvariant, PTL


=============================================================================
