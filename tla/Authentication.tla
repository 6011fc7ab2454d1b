--------------------------- MODULE Authentication ---------------------------
(***************************************************************************)
(* `pelmeni auth login` and the lookup of credentials (src/pelmeni/auth):  *)
(* every login is a process of its own that obtains a credential, loads    *)
(* the whole credential file, sets its provider's entry and replaces the   *)
(* file by a temporary one.  Other processes look providers up at any time.*)
(* Any login may die between two steps; at most one runs the device flow.  *)
(***************************************************************************)
EXTENDS DeviceFlow

CONSTANTS Logins,       \* processes, one login each
          Nobody,       \* not a login
          Providers,    \* providers logged in to
          Google,       \* the provider that has a device flow
          NoAuth,       \* providers that need no credentials
          HasClientId,  \* a client id is given, or is in the environment
          Files,        \* what the credential file may hold at first
          Environment   \* what PELMENI_<provider>_API_KEY is: "unset",
                        \* "empty", "none" or "key"

ASSUME AuthAssumption ==
  /\ Google \in Providers /\ NoAuth \subseteq Providers
  /\ Nobody \notin Logins /\ HasClientId \in BOOLEAN
  /\ Environment \in [Providers -> {"unset", "empty", "none", "key"}]

\* A table of the file or a credential: its kind, who made it, and whether
\* its key holds a control character.  "incomplete" tables lack a field of
\* their kind, in "invalid" ones provider is no string, "scalar" is no table.
Table(kind, of, control) == [kind |-> kind, of |-> of, control |-> control]
NoTable       == Table("missing", Nobody, FALSE)
NoCredentials == Table("none", Nobody, FALSE)

Credentials == [kind : {"missing", "none", "key", "oauth"},
                of : Logins \cup {Nobody}, control : BOOLEAN]
Tables == Credentials \cup
          [kind : {"incomplete", "invalid", "scalar"},
           of : {Nobody}, control : {FALSE}]

\* Contents of a file: readable TOML or not.
Readable(tables) == [is |-> "tables", tables |-> tables]
Absent     == [is |-> "absent", tables |-> [p \in Providers |-> NoTable]]
Unreadable == [Absent EXCEPT !.is = "unreadable"]
Symlink    == [Absent EXCEPT !.is = "symlink"]
Torn       == [Absent EXCEPT !.is = "torn"]

Contents == [is : {"absent", "symlink", "unreadable", "torn", "tables"},
             tables : [Providers -> Tables]]

\* What is there before the first login: no file that a crash has torn, and
\* no key that TOML could not hold.
ASSUME FilesAssumption ==
  /\ Files \subseteq Contents
  /\ \A f \in Files : f.is # "torn" /\ \A p \in Providers : ~f.tables[p].control

VARIABLES
  file,       \* credentials.toml
  temp,       \* the temporary file of each login: "none", "partial", "whole"
  pc,         \* what each login is about to do, or how it ended: "done",
              \* "error" (printed), "escaped" (a traceback), "dead"
  provider,   \* the provider each login is for
  cred,       \* the credential it has obtained
  stored,     \* the credentials it has loaded
  latest,     \* the credential of the last login that replaced the file
  since,      \* providers replaced since each login loaded
  overtaken   \* providers whose login another, loaded before it, overwrote

authVars == << file, temp, pc, provider, cred, stored, latest, since,
               overtaken >>
vars == << authVars, flowVars >>

Ended   == {"done", "error", "escaped", "dead"}
Running == {l \in Logins : pc[l] \notin Ended \cup {"idle"}}

Init ==
  /\ FlowInit
  /\ file \in Files
  /\ temp = [l \in Logins |-> "none"]
  /\ pc = [l \in Logins |-> "idle"]
  /\ provider = [l \in Logins |-> Google]
  /\ cred = [l \in Logins |-> NoTable]
  /\ stored = [l \in Logins |-> [p \in Providers |-> NoTable]]
  /\ latest = [p \in Providers |-> NoTable]
  /\ since = [l \in Logins |-> {}]
  /\ overtaken = {}

-----------------------------------------------------------------------------
(* The lookup. *)

\* TypeAdapter(Credentials).validate_python: whatever names a provider is a
\* NoCredentials if it is nothing else.
Validated(table) == IF table.kind = "incomplete" THEN NoCredentials ELSE table

Failure(why) == Table(why, Nobody, FALSE)

\* NoAuthHandler, and AuthManager.resolve's AuthError.
ResolveNoAuth(p) == IF p \in NoAuth THEN NoCredentials ELSE Failure("AuthError")

\* TomlStoreHandler; the store raises CredentialStoreError.
ResolveStored(p) ==
  CASE file.is \in {"symlink", "unreadable", "torn"} -> Failure("StoreError")
    [] file.tables[p].kind = "missing" -> ResolveNoAuth(p)
    [] file.tables[p].kind = "scalar"  -> Failure("ValueError")
    [] file.tables[p].kind = "invalid" -> Failure("AuthError")
    [] OTHER -> Validated(file.tables[p])

\* EnvVarHandler.
Resolve(p) ==
  CASE Environment[p] = "unset" -> ResolveStored(p)
    [] Environment[p] = "empty" -> Failure("AuthError")
    [] Environment[p] = "none"  -> NoCredentials
    [] OTHER -> Table("key", Nobody, FALSE)

-----------------------------------------------------------------------------
(* A login. *)

Goto(l, where) == pc' = [pc EXCEPT ![l] = where]

\* The process of a login that is over takes its variables with it.
End(l, how) ==
  /\ Goto(l, how)
  /\ provider' = [provider EXCEPT ![l] = Google]
  /\ cred' = [cred EXCEPT ![l] = NoTable]
  /\ stored' = [stored EXCEPT ![l] = [p \in Providers |-> NoTable]]
  /\ since' = [since EXCEPT ![l] = {}]

\* AuthManager.login up to the loading: no key, blank, "none" or a key.
Login(l) ==
  /\ pc[l] = "idle"
  /\ \E p \in Providers :
       \/ /\ p = Google /\ HasClientId      \* no key
          /\ BeginFlow
          /\ Goto(l, "flow")
          /\ provider' = [provider EXCEPT ![l] = p]
          /\ UNCHANGED << cred, stored, since >>
       \/ /\ ~(p = Google /\ HasClientId)   \* no key, or a blank one
          /\ End(l, "error")
          /\ UNCHANGED flowVars
       \/ /\ \E c \in {NoCredentials} \cup
                      {Table("key", l, control) : control \in BOOLEAN} :
               cred' = [cred EXCEPT ![l] = c]
          /\ provider' = [provider EXCEPT ![l] = p]
          /\ Goto(l, "loading")
          /\ UNCHANGED << stored, since, flowVars >>
  /\ UNCHANGED << file, temp, latest, overtaken >>

\* GoogleOAuthFlow.login returns or raises.
FlowEnds(l) ==
  /\ pc[l] = "flow" /\ FlowOver
  /\ \/ /\ flowPc = "token"
        /\ Goto(l, "loading")
        /\ cred' = [cred EXCEPT ![l] = Table("oauth", l, FALSE)]
        /\ UNCHANGED << provider, stored, since >>
     \/ flowPc = "failed" /\ End(l, "error")
     \/ flowPc = "escaped" /\ End(l, "escaped")
  /\ ForgetFlow
  /\ UNCHANGED << file, temp, latest, overtaken >>

\* AuthManager.load: AuthError for an invalid table; what is no table, and
\* CredentialStoreError, pass through handle_auth.
LoadOutcome ==
  CASE file.is \in {"symlink", "unreadable", "torn"} -> "escaped"
    [] \E p \in Providers : file.tables[p].kind = "scalar"  -> "escaped"
    [] \E p \in Providers : file.tables[p].kind = "invalid" -> "error"
    [] OTHER -> "creating"

Load(l) ==
  /\ pc[l] = "loading"
  /\ \/ /\ LoadOutcome = "creating"
        /\ Goto(l, "creating")
        /\ stored' = [stored EXCEPT ![l] =
                       [p \in Providers |-> Validated(file.tables[p])]]
        /\ since' = [since EXCEPT ![l] = {}]
        /\ UNCHANGED << provider, cred >>
     \/ LoadOutcome \in Ended /\ End(l, LoadOutcome)
  /\ UNCHANGED << file, temp, latest, overtaken, flowVars >>

\* Mutant: the file is opened for writing in place.
CreateTempInPlace(l) ==
  /\ pc[l] = "creating"
  /\ Goto(l, "writing")
  /\ file' = Torn
  /\ UNCHANGED << temp, provider, cred, stored, latest, since, overtaken,
                  flowVars >>

\* mkdir and mkstemp, which are not under save's try.
CreateTemp(l) ==
  /\ pc[l] = "creating"
  /\ \/ /\ Goto(l, "writing")
        /\ temp' = [temp EXCEPT ![l] = "partial"]
        /\ UNCHANGED << provider, cred, stored, since >>
     \/ /\ End(l, "escaped")
        /\ UNCHANGED temp
  /\ UNCHANGED << file, latest, overtaken, flowVars >>

\* fchmod, write, flush and fsync.
WriteTemp(l) ==
  /\ pc[l] = "writing"
  /\ Goto(l, "replacing")
  /\ temp' = [temp EXCEPT ![l] = "whole"]
  /\ UNCHANGED << file, provider, cred, stored, latest, since, overtaken,
                  flowVars >>

\* Mutant: only this login's entry is saved.
EncodedAlone(l) ==
  Readable([p \in Providers |->
              IF p = provider[l] THEN cred[l] ELSE NoTable])

\* AuthManager.save and _encode: _quote leaves control characters as they
\* are, which TOML does not allow.
Encoded(l) ==
  LET saved == [stored[l] EXCEPT ![provider[l]] = cred[l]]
  IN  IF \E p \in Providers : saved[p].control
      THEN Unreadable
      ELSE Readable(saved)

\* The rename; since, latest and overtaken are bookkeeping.
Replace(l) ==
  /\ pc[l] = "replacing"
  /\ Goto(l, "chmod")
  /\ file' = IF temp[l] = "whole" THEN Encoded(l) ELSE Torn
  /\ temp' = [temp EXCEPT ![l] = "none"]
  /\ latest' = [latest EXCEPT ![provider[l]] = cred[l]]
  /\ since' = [m \in Logins |-> IF m \in Running THEN since[m] \cup {provider[l]}
                                               ELSE since[m]]
  /\ overtaken' = (overtaken \cup since[l]) \ {provider[l]}
  /\ UNCHANGED << provider, cred, stored, flowVars >>

\* The last chmod succeeds, or an OSError: then the temporary file goes and
\* CredentialStoreError leaves login.
SaveEnds(l) ==
  /\ \/ pc[l] = "chmod" /\ End(l, "done")
     \/ pc[l] \in {"writing", "replacing", "chmod"} /\ End(l, "escaped")
  /\ temp' = [temp EXCEPT ![l] = "none"]
  /\ UNCHANGED << file, latest, overtaken, flowVars >>

Die(l) ==
  /\ l \in Running
  /\ End(l, "dead")
  /\ IF pc[l] = "flow" THEN ForgetFlow ELSE UNCHANGED flowVars
  /\ UNCHANGED << file, temp, latest, overtaken >>

Step(l) ==
  \/ FlowEnds(l) \/ Load(l) \/ CreateTemp(l) \/ WriteTemp(l) \/ Replace(l)
  \/ SaveEnds(l)

\* The flow runs while its process does.
FlowRuns == FlowNext /\ (\E l \in Logins : pc[l] = "flow") /\ UNCHANGED authVars

Next ==
  \/ \E l \in Logins : Login(l) \/ Step(l) \/ Die(l)
  \/ FlowRuns

Fairness ==
  /\ \A l \in Logins : WF_vars(Step(l))
  /\ WF_vars(FlowStep /\ FlowRuns)
  /\ WF_vars(Tick /\ FlowRuns)

Spec == Init /\ [][Next]_vars /\ Fairness

-----------------------------------------------------------------------------
(* Types; what a login has loaded are credentials, whatever tables the     *)
(* file holds (AuthManager.load validates each).                           *)
TypeOK ==
  /\ file \in Contents
  /\ temp \in [Logins -> {"none", "partial", "whole"}]
  /\ pc \in [Logins -> Ended \cup {"idle", "flow", "loading", "creating",
                                   "writing", "replacing", "chmod"}]
  /\ provider \in [Logins -> Providers]
  /\ cred \in [Logins -> Credentials]
  /\ stored \in [Logins -> [Providers -> Credentials]]
  /\ latest \in [Providers -> Credentials]
  /\ since \in [Logins -> SUBSET Providers]
  /\ overtaken \in SUBSET Providers

(* A lookup finds the provider's last login, unless its environment        *)
(* variable is set, a login that had loaded the file before overwrote it,  *)
(* or a key with a control character was saved (AuthManager.login, _quote).*)
LookupFindsLogin ==
  \A p \in Providers :
    (/\ latest[p].kind # "missing" /\ p \notin overtaken /\ Environment[p] = "unset"
     /\ \A q \in Providers : ~latest[q].control)
    => Resolve(p) = latest[p]

(* A crash or an error between any two steps of saving leaves a file that  *)
(* some login has written in full, and a temporary file is left only by a  *)
(* process that died (TomlCredentialStore.save).                           *)
FileWhole ==
  /\ file.is # "torn"
  /\ \A l \in Logins : temp[l] # "none" =>
       pc[l] \in {"writing", "replacing", "dead"}

(* Every login ends: the flow has a deadline and its requests time out.    *)
LoginEnds == \A l \in Logins : (l \in Running) ~> (l \notin Running)

=============================================================================
