# Pelmeni in TLA+

Specifications of pelmeni (`src/pelmeni/`, a terminal coding agent in Python), their
TLC configurations and their TLAPS proofs. A module stands beside the code it models;
`PROJECT.json` gives, for each definition, the lines it is a translation of.

## 1. The system

A user types a prompt. The REPL appends it to the message history and runs the request
loop: compact the history if it is too long, send it to a provider, dispatch the tool
calls of the answer through the hook chain, append their results, and again, until an
answer has no calls or the iteration cap is met. Everything is written to a session log.
The bus, the MCP server and `AgentSession` serve agents driven as a library.

| Component | State it keeps | Operations | Modelled in |
| --- | --- | --- | --- |
| Conversation and rounds (`domain/`) | messages | build a message, group into rounds | `Conversation`, `CompactorCode` |
| Context compactor (`context/`) | none | estimate, truncate, condense, prune | `Compactor`, `CompactorCode` |
| Request loop (`loop.py`) | messages, iteration, tool history | run | `AgentLoop` |
| REPL (`cli/repl.py`) | active role, session | prompt, `/role`, `/compact`, `/task`, `/exit` | `AgentLoop` |
| Tool dispatch, registry (`tools/`) | active hook chain | dispatch | `ToolDispatch`, `ToolGate` |
| Hooks (`hooks/`), configuration (`config/`) | chain, hook tables | run the chain | `ToolDispatch` |
| Session store (`session/store.py`) | `main.jsonl`, `main.tmp` | create, open, ensure header, log, update the conversation | `SessionStore` |
| Agent session (`agent_session.py`) | messages, hook context | step | `AgentSession` |
| Session reader (`session/reader.py`) | none | replay a log into messages | `SessionReader` |
| Agent bus (`bus/`) | queues, subscribers, key-value state | create, publish, subscribe, push, pop, read, write | `AgentBus`, `TaskQueue` |
| Antigravity bridge (`providers/antigravity/`) | process, conversation, temporary directory | start, prompt, restart, close | `AntigravityBridge` |
| Authentication (`auth/`) | credential file | login, resolve, device flow | `Authentication`, `DeviceFlow` |
| Tool handlers (`tools/file_ops.py`, ...) | the user's files | read, write, edit, bash | `FileOps` |
| MCP server (`mcp/server.py`) | its input | list and call tools | `McpServer` |
| HTTP providers and router (`providers/`) | none | translate, chat | `ProviderMessages` |
| Agent profiles and prompts | constant tables | none | no state |
| Multi-agent pipeline | does not exist in code | described in `CONTEXT.md` only | no code |

**How they interact.** The loop calls the compactor, the provider and dispatch one after
another in one thread; they share the message list. Dispatch calls the registry, the
hooks and a handler. The bridge provider calls back into the loop while a request runs
(`on_init`), and the loop writes the conversation id into the session log's header,
from where it reads it for the next request. The MCP server dispatches tool calls of the
bridge process through the same registry, in another process.

**What is hard.** Long sequences of legal steps (prompts, failures, refusals, compaction)
after which a request must still be well formed; a call that hooks inspect and the handler
parses again; a process that dies in the middle of an append or between a copy and a
rename; a conversation that expires while it is used; tasks on a bus whose consumer dies.
`PROJECT.json` lists these hazards, each at its line.

**What makes each component correct.**

* Conversation and compactor: a call and its results stay together, no round is pruned
  without need, the round in hand is not touched, the token count is exact.
* Loop and REPL: every request is well formed and holds the prompt it is made for, a
  prompt costs a bounded number of requests, every run ends, hooks see the calls the
  model sees.
* Dispatch and hooks: no handler runs with a call that a guard has not let pass or that
  the role may not make, unless a hook of the user wrote that call itself, and it runs once.
* Session store: events stand in the log once and in order, a crash costs little, the
  header stays on line 1 and holds the last conversation.
* Agent session: as the loop, over several steps, an exception between two calls included.
* Session reader: what is replayed is what the model was sent and answered.
* Bus: a task pushed is popped once, in order, by whichever adapter; two processes talk to
  the same bus.
* Bridge: the answer is to the prompt asked and comes from the conversation that is
  recorded, and no process or directory outlives its owner.
* Authentication: a lookup finds what was stored last, a crash spoils nothing, polls keep
  Google's pace, a consent is noticed, a login ends.
* Tool handlers: a file is the old text or the new one, and an edit changes what it says
  of the text it has read.
* MCP server: every request is answered once, in order.
* Providers: the turns of a request are in the order its API asks for, results stand with
  their calls, and all of the history is in it.

## 2. The modules

### Conversation, Compactor, CompactorCode, MCCompactor, CompactorProofs

`Conversation` has messages (a role, the length of the content, the calls, the call a result
answers), rounds and the pairing of calls and results. Texts are lengths: the compactor
reads nothing else of them. `Compactor` has `TruncateCompactor` as a function on histories;
the models of the loop and of the session use it. `CompactorCode` has the same code round by
round and loop by loop, as recursive functions: a loop over messages (`SegmentByUser`, whose
body is `AddToSegments`), one over the turns of a round (`CondenseRoundTools`) and the
pruning loop (`PruneRoundsToTarget`, one turn of which is `PruneOldest`). Its state is the
list that `compact` is given, grown by a message at a time (`AddPrompt`, `AddAnswer`,
`AddResult`). The loops are checked against the function over every history up to a bound,
and proved to agree with it on all. The estimator counts the characters of a message's JSON:
a constant for the frame, the content, and a constant for each call.

### AgentLoop, MCAgentLoop, AgentLoopProofs

`cli/repl.py` and `loop.py`, one thread. An action is what runs between two points where
the process waits, named by `pc`:

| `pc` | the process | actions |
| --- | --- | --- |
| `idle` | waits for a line of input | `SubmitPrompt`, `SwitchRole`, `CompactCommand`, `Exit` |
| `turn` | is at the head of an iteration | `SendRequest` |
| `chat` | waits for the provider | `BridgeAnnounces`, `ProviderAnswers`, `ProviderFails` |
| `dispatch` | dispatches the next call | `DispatchCall` |
| `down` | is gone | |

`Crash` is an exception that nothing catches, or Ctrl-C, during a run. `header` is the
conversation id in the session's header, `resumed` what `provider.chat` was given.
What dispatch returns is reduced to "refused by the registry" or "anything else", with a
size; how it comes about is the matter of `ToolDispatch`.

### AgentSession, MCAgentSession, AgentSessionProofs

`agent_session.py`, whose `step` a library user calls again after whatever became of the
last call. `pc` is `idle` between steps, `turn` at the head of an iteration, `chat` while
the provider works and `dispatch` while a call is dispatched (`Step`, `SendRequest`,
`ProviderFails`, `ProviderAnswers`, `DispatchCall`). `Raise` is an exception that `step`
does not catch: local variables are lost, messages stay. Among the local variables is the
context of the hooks (`active`), which the session takes over (`kept`) only after the last
call of an answer. The answers a model may give are a set of sequences of calls
(`Answers`).

### ToolGate, ToolDispatch, MCToolDispatch, ToolProofs

`ToolGate` is the promise: a request whose requester may make it is carried out at most
once, as it was made or as it was amended by those who may, and only after each guard
concerned has let that very request pass. `ToolDispatch` is the code: the registry's
whitelist, then the hooks of the chain one by one (`SkipHook`, `HookAllows`, `HookDenies`,
`HookModifies`, `ChainRaises`, `ChainEnds`), then parsing and the handler
(`HandlerNotRun`, `HandlerRuns`). One hook is one step, since a hook may ask the user.

The code has one dict for the registry check, every hook and the handler. `call` is what
that dict holds, `current` what the dict holds that the next hook is given, and `shared`
says that the two are one. A hook of the user does one of `UserVerdicts`: it answers, may
answer with another dict (`to`), and may write in the one it was given (`left`), whatever
it answers. What it writes is what the handler runs; another dict goes to the later hooks
alone. So a built-in hook binds what runs only behind every hook that writes in the dict,
and not behind one that returns another (`Binding`), and what hooks write is not asked of
the registry (`Amendments`). `tool_history` gets the same dict, as it is by then; the
models of the loop and of `AgentSession` have calls as values, that is, no such hooks.
 Argument texts are model values; that a text is not JSON, names a
destructive command, a path outside the project or an ignored path, is membership in a
set. The module-level refinement `Gate` maps a call being decided to ToolGate's request
and the hooks that let it pass to its cleared guards. The hook tables go through
`ExtractRawHooks` only for a chain set up from the configuration file (`ViaConfig`).

### SessionStore, MCSessionStore, SessionStoreProofs

`main.jsonl` as a sequence of lines, with a flag that says that the last one has no
newline. `Log`, `EnsureHeader` and `AppendHeader` append a whole line, or die and leave a
part of it (`Tear`: nothing, a part that does not parse, a part that ends within a
character, or all but the newline). The next append to a line without newline spoils
both. Lines are UTF-8 and not confined to ASCII, and all reads are strict: a line cut
within a character (`Cut`) makes `_rewrite_main_header` and `read_session_messages` raise,
and `read_header` if it is line 1, or stands near enough to be decoded along with it.
Then nothing is recorded, the REPL's start fails (`EnsureHeader`), and a conversation that
the bridge announces is a failed `on_init`. `WriteTemp` and `Replace` are the two steps of
`_rewrite_main_header`; `Crash` can come between them. `EnsuresHeader` tells a caller that
runs `ensure_header` first, as the REPL does, from one that does not. Reopening a session
is an operation of the exported interface (`open_session`), which the tests use; the REPL
itself always starts a new session. The operating system does not crash: the code syncs
nothing, so that there is nothing to check.

### SessionReader, MCSessionReader

`SessionReader` extends `AgentLoop`: whenever the loop sends a request, gets an answer or
dispatches a call, the event's messages are appended to `log`, a request with all its
messages. `Replay` is `read_session_messages` as a fold over this log. The reader compares
messages as texts, so a prompt, which `AgentLoop` numbers, becomes its text (`TextOf`),
and two prompts may have the same. Lines that do not parse yield no message and are left
out; tearing is the matter of `SessionStore`. `intact` says that no compaction has changed
a message so far: until then the replay is the history (`ReplayFaithful`), and nothing is
missing from it even afterwards (`NothingLost`). The proofs are in `AgentLoopProofs`.

### AntigravityBridge, AntigravityBridgeProofs, MCAntigravityBridge

The provider, its session and the `agy` processes it starts, driven by the loop with the
conversation id of the header. `pc` says where the one thread of the code is:

| `pc` | the code | actions |
| --- | --- | --- |
| `idle` | no chat runs | `Chat`, `Reconfigure` |
| `ready` | `_execute_prompt_turn` begins | `StartIfNeeded`, `StartFails` |
| `writing` | writes the prompt to the pipe | `WritePrompt`, `WriteFails` |
| `reading` | reads lines until a result | `ReadInit`, `ReadResult`, `ReadFailure`, `RetryExpired`, `ReadEof` |
| `restart` | `send_prompt` starts again after an expiry | `Restart`, `StartFails` |

`agy` is external. Of it the model has what `process.py` and `events.py` expect: a process
works in the conversation it was given or opens one, announces it before its first result,
answers prompts in order, and may die at any time, of an expiry (which it reports on stderr,
in words that the code takes for one) or of an accident, which it reports in others. Its
output ends before it can be waited for, so that there is a state `closing` in which
`poll()` still sees it running. `send_prompt` and `chat` each retry once without
conversation, and the new session of `chat` retries once more: `attempt` counts up to 4.
`on_init`, which rewrites the session header, may raise at each announcement: the chat
fails, the process goes on, and its answer stays in the pipe. The auxiliary variable
`unheard` has the processes to which this has happened. A process can have a home directory
of its own only if the provider was built with a role (`WithRole`), which the REPL's factory
does not do. The throw-away process that lists the tools, `run_antigravity` and the prompt's
policy header are left out.

### TaskQueue, AgentBus, MCAgentBus, AgentBusProofs

`TaskQueue` is what `protocol.py` promises of `push_task` and `pop_task`: a FIFO queue,
reliable, or one that may lose and repeat tasks. `AgentBus` is one queue and one channel
used by agents in several processes. `CreateBus` gives an agent Redis or the memory of its
process, for `create_bus` decides by a probe that may time out, for each agent anew. On
memory an operation is one step (`Put`, `Take`), but for the wait of `pop_task`. On Redis
it is a command and a reply (`Send`, `Execute`, `Reply`; `Pop`, `Serve`, `Arrive`), and the
connection may break, or the operation be cancelled, at each point (`LoseReply`, `LosePop`,
`LoseChannel`). After that the operation raises or redis-py sends the command again,
depending on its version and options (the code sets none, and asks for 5.0 or later).
`abandoned` counts the `BLPOP`s whose client is gone and which Redis still serves. Redis,
redis-py and `asyncio.Queue` are external; what is modelled of them is what the adapters
call. A message that does not validate is yielded in memory, where it is passed as it is, and
dropped by the subscriber on Redis, where it is text (`Dropped`).
`Store(s)` maps the queue of a process, `Remote` the one on Redis, to `TaskQueue`.
`read_state` and `write_state`, a dictionary, are left out, as are several queue names and
the copies that `push_task` and `publish` make, for values are not shared in TLA+.

### DeviceFlow, Authentication, MCAuthentication, AuthenticationProofs

`DeviceFlow` is `auth/oauth/google.py` with a clock: `now` is `time.monotonic`, `Tick`
moves it while a poll is under way or the flow sleeps, and nothing else takes time.
`flowPc` is `asking` (the request for a code), `checking` (the head of the loop),
`polling`, `sleeping`, or an end: `token`, `failed` (a `RuntimeError`) or `escaped` (a
`KeyError` or `ValueError` of a body that lacks a field). The user's consent may come in
any of them (`Decide`). Google answers a poll by what the user has decided at that moment
(`Answer`), and the answer is on its way (`verdict`) for as long as the poll still takes:
when the client gets it (`SleepOn`, `Finish`) it may be out of date.

`Authentication` has logins, each a process of its own: obtain a credential, load the
whole file, set one entry, and replace the file by a temporary one (`Login`, `FlowEnds`,
`Load`, `CreateTemp`, `WriteTemp`, `Replace`, `SaveEnds`); each may die or fail at each of
these steps. `Resolve` is the chain of the environment variable, the stored table and
providers without credentials. A table is its kind and who made it; kinds that are not a
credential (`incomplete`, `invalid`, `scalar`) are what an editor may have left in the
file. A file that is absent and one without tables are looked up alike. One login at a
time runs the device flow: flows share nothing. `latest`, `since` and `overtaken` are
bookkeeping for the properties. `refresh` has no caller and `expires_at` no reader, so
tokens have no age.

### FileOps, McpServer, MCMcpServer, ToolProofs

`FileOps` is `edit_file`, `write_file`, `read_path` and `execute_bash` on one path, by
several agents. (`write` is the handler's: calls by the announced schema do not reach it,
see section 5.) `edit_file` is four steps or more (`CheckIsFile`, `ReadText`, `CreateTemp`,
`WriteTemp`, `Rename`), between which other agents and other programs (`ChangeOutside`)
change the path and the process may die. A text is a sequence of words, among them the three
ends of a line: `read_text` turns each into LF (`Universal`), and writing does not turn it
back, on a system where a line ends with LF. `McpServer` composes it with the JSON-RPC loop:
the server is one of the agents and runs the calls of `tools/call` lines (`ReadLine`,
`Answer`), the others call tools on their own. A command that bash runs inherits the
server's standard input (`CommandReadsInput`). `owed` is what the client has a right to: it
is computed from JSON-RPC, not from the server's code. Lines are told apart by what they
parse to.

### ProviderMessages, MCProviderMessages, AgentLoopProofs

`ProviderMessages` extends `AgentLoop`: each role has its provider, and the answers to a
request are those that the provider's parser can build (`GoogleCalls`, `AnthropicCalls`):
Gemini gives no ids, so the parser numbers the calls of an answer and ids repeat from one
answer to the next. `AnthropicRequest` and `GoogleRequest` are the two translators: what
`AnthropicAppend` and `GoogleAppend` add for each message, from the first to the last. A
block is its kind, its call and the message it is from; arguments, signatures and results
are passed on and not modelled. Calls without a name are left out, which the adapters treat
differently. `AnthropicTurnsMatch` does not claim that the API accepts the request: two of
its demands are not met (section 5). Both properties are about configurations that keep a
round: with `keep_recent_rounds = 0` compaction may remove every message (which the tests of
the compactor expect), so that there is no request to be valid. The proofs are in
`AgentLoopProofs`.

## 3. The runs

| Run | Configuration | Question |
| --- | --- | --- |
| `compactor` | every history of up to 6 messages | Do the loops compute the function (`LoopsAgree`), count tokens exactly, prune no more than needed, keep calls with results and the last round verbatim? |
| `loop` | 3 prompts, 2 iterations, 2 calls an answer, 2 roles, fairness | Is every request well formed, with its prompt, are requests bounded, and does every run end, whatever happened before? |
| `session` | 3 steps, 2 of which raise, 2 iterations | Does a step that raises cost the history more than one answer's results, and do hooks know what the messages show? |
| `dispatch` | the four built-in hooks and two of the user: the second in the chain writes in the dict, the last returns another | Does dispatch implement `ToolGate`, does no handler run with what a binding guard stops, or for a role that may not use it unless a hook wrote the call? |
| `modify` | a hook that returns another dict, a chain from the configuration file | A statement of the documentation that the code does not honour (section 5). |
| `store` | 3 events, 2 crashes, 2 conversations | Are order, header and conversation kept, and what does a crash cost the file? |
| `bridge` | 2 chats, 7 processes, 4 conversations | Whoever dies or expires and whenever `on_init` fails: is there one process at work, to which prompt is a reply, is its conversation recorded and not lost, are retries and what they leave behind bounded? |
| `replay` | 3 prompts, the first and third alike, compaction | Is the replayed log the history until a compaction, and is a message ever missing from it? |
| `bus` | 3 agents of 2 processes, 2 items, of which one does not validate, 2 faults | Is the queue in memory reliable and FIFO, what may the one on Redis lose or repeat and for what, and what do subscribers hear? |
| `auth` | 2 logins, 3 providers, files of an earlier login and of an editor | Does a lookup find the last login, is the file whole, are polls spaced as Google asks, how late must a consent be to be missed, and does every login end? |
| `files` | the MCP server and another agent, 3 requests, a change from outside, a failed write | Is a file ever torn, is every request answered once, and does an edit change what it says of the text it has read? |
| `providers` | 3 prompts, 2 iterations, 2 calls an answer, a role on Google and one on Anthropic | Do both translators build requests with turns in order, results behind their calls and all of the history, whatever failed or was cut off before? |

**Bounds.** Pruning and condensing depend on the last round, the rounds before it and the
floor: six messages hold three rounds, one of them with a call and its result, and sizes lie
below, just above and far above the limit of a result, so that rounds are pruned by need,
stop at the floor, and are condensed with and without effect. Three prompts give a prompt
whose predecessors were answered, failed or cut off by the cap, with compaction before each
of them; two iterations meet the cap, two calls in an answer have one served and one
refused. Two effects in `ToolDispatch` suffice for a call that finds what the call before it
left behind. Three steps of `AgentSession` have one before and one after a step that raises,
and two such steps, between which a compaction can fall. In `SessionStore` two crashes
suffice to tear a line and to tear the one merged with it, three events to have one before,
one at and one after. In `AntigravityBridge` two chats have a process of the first one used,
found dead or found dying by the second, four conversations an expiry at each of the four
attempts, and seven processes one more than a chat may start. In `AgentBus` three agents are
two that compete for the memory of a process and one that has no part in it, or two
consumers and a producer on Redis; two items show an order; with two faults one is lost or
doubled while the other is in flight. In `auth` two logins are what one can lose to another;
a lifetime of four seconds, intervals of one and polls of up to one have the flow polled
several times, slowed down, answered late and expire while it polls or sleeps. `SlowStep`
and `MaxDelay` are one there, for 5 and 30. In `files` three requests have one before, one
behind and one read by the command; texts of two words have an old text that occurs once and
one that occurs twice. In `providers` two rounds fit into the history before it is
compacted, so that ids repeat in one request. The agents of one process are interchangeable
(symmetry; the run has no liveness property). The proofs remove these bounds from the
invariants named in section 4.

**Deadlock** is not checked where the system may stop: the REPL exits, a bounded number of
prompts, effects, events or crashes is used up.

**Fairness** is assumed in `loop` and `auth`. In `auth` the steps of a login, the steps of
the flow and the clock are fair: a process that is not killed goes on. Nothing is assumed of
Google: `Answer` is not fair, for httpx gives a request up after 30 seconds, and the flow
then ends (`Finish`). The user need not decide, and a login may be killed at any time; the
flow's own deadline ends it. In `loop` three steps are fair: the head of an iteration, the
provider's reply or failure, the dispatch of a call. They are steps of a loop that waits for
nothing else. `FairSpec` states it of what these steps do to `pc` and `pending`, which is
the same and cheaper to check. That a provider replies or fails is justified by the timeouts
of the HTTP providers, that a call returns by the 60 seconds of bash; the Antigravity bridge
reads its process without a timeout and a confirmation waits for the user, so for these it
is an assumption. Nothing is assumed of the user: prompts are not fair.

**Mutants.** Each property of a passing run is violated by a mutation of the code's model
that PROJECT.json names. Mutants are the definitions with a comment that starts with
"Mutant:"; no specification uses them.

## 4. What is proved

For every value of the constants that satisfies the named assumptions.

* `CompactorProofs`. `CompactType`, `CompactPairing`, `CompactKeepsEnds` and
  `CompactKeepsLastRound`: compaction maps histories to histories, keeps each call with its
  results, and keeps the first message and, if at least one round is kept, the last round,
  every message of it as it is. The argument: a cut is the
  index of a user message or beyond the end; results lie at most as far behind their call
  as the call's answer has calls, hence within one round; condensing changes sizes alone.
  `LoopsCorrect`, `PruningCorrect` and `CodePairing` are about the loops of
  `CompactorCode`, for every list that has no system message but the first (`CodeInv`).
  Three loop invariants carry them: after n messages the segments are the rounds of these n
  (`Grouped`); condensing the rounds is condensing the history; and after d turns of the
  pruning loop d rounds are gone, the running count is the estimate of what is left, and no
  earlier cut was admissible (`LoopAt`). Each turn frees a positive number of tokens, so
  that the guard against a turn that frees none never ends the loop, and it stops at the
  least admissible cut, which is the one that `Compact` chooses.
* `AgentLoopProofs`. `LoopInv == TypeOK /\ ToolPairing /\ RequestHasPrompt` is inductive.
  `ToolPairing` needs, beyond the pairing of the history, that the pending calls are the
  tail of the last answer's: without it `DispatchCall` could append a result of another
  call. `CompactPairing` carries it over `SendRequest` and `CompactCommand`.
  `RoundCorrect` (`LastRoundOnlyGrows`) follows from the types and
  `CompactKeepsLastRound`: a step appends to the last round or leaves it as it is.
  `CountersCorrect` needs `CountersInv`: while a run lasts the tools offered are those of
  the active role (a role changes between runs only), the results of the last round match
  the tool history one by one, and its answers are as many as the iterations, or one more
  while calls are dispatched; compaction does not touch that round. For the session reader,
  `ReplayComplete` and `ReplayCorrect` follow from `ReaderInv`. A request is logged with
  all its messages, and the reader leaves out only what it has; each later step logs what
  it appends to the history. So nothing is missing, and as long as nothing was compacted
  the replay is the history, but for a last prompt that was not sent yet or repeats the
  message before it (`Copied`). `ProgressCorrect` (`RunProgresses`) is the safety half of
  `RunEnds`: no step of a run takes it back, so that only waiting can keep it from ending.
* `AgentLoopProofs`, of `ProviderMessages`, for any tools, roles, providers of roles and
  numbers of calls. `AnthropicCorrect` and `GoogleCorrect` need
  `ProviderInv == LoopInv /\ TurnsInv`, which `ProviderInvariant` states. `LoopInv` is not
  enough: a history in which every call has its result may still begin with an answer, or
  have two in a row, two calls of one id may ask for different tools, and two of one answer
  may have one id. `TurnsInv` says
  that the system prompt is first and alone, that each answer follows a prompt or a result
  (`Orderly`), that so does the answer to the request at hand, and that an id of Gemini's
  tells the tool while one of Anthropic's is new (`NamesKnown`, `IdsFor`), and that the
  calls of one answer differ in their ids (`IdsApart`). Compaction keeps
  it, since it removes whole rounds. Given such a history, the rest is about the two
  translators. After n messages a request is as `BuiltAnthropic` or `BuiltGoogle` say: valid
  but for the last answer, which is followed by the results that the history has for it so
  far, in their order (`Follows`, `Responds`). Each kind of message takes that from n to
  n + 1 (`AnthropicAnswer`, `AnthropicUser`, `GoogleOpens`, `GoogleResult`), and at the end
  no call is open (`Closed`). That nothing of the history is missing (`Complete`) is carried
  along: a message appended to a request adds to what its blocks say just what is `Held` in
  it (`SaysAll`).
* `AgentSessionProofs`. `SessionInv` gives `SessionTypeCorrect`, `SessionDamageLocal` and
  `SessionHooksRemember`. It says that results stand behind their answer in the order of
  its calls (`ResultsInPlace`); that the answers cut short, but for the one at work, are no
  more than the steps that raised; that the context the session keeps ends with the calls
  that are answered in full (`KeptEnds`); and where the answer at work is, how many of its
  calls have results, and that `active` is the kept context and these (`Dispatching`). What
  compaction removes is whole answers from the front, so each part survives it.
* `ToolProofs`, of `ToolDispatch`, for any chain and whatever the hooks of the user
  answer or write. `DispatchInv` (a call being decided is permitted or was written by a
  hook; what has passed a hook has nothing that hook stops) gives `PermissionCorrect`.
  `GuardsCorrect` and `GateImplemented` need `Inspected` as well: each binding hook before
  `next` that concerns the tool has let pass the very call that is in the dict now. It
  holds since no hook behind a binding one writes there, and since up to the first hook
  that returns another dict the chain goes on with this one. Each step of `ToolDispatch`
  is an `Ask`, `Amend`, `Clear`, `Drop`, `CarryOut` or a stutter of `ToolGate`.
* `SessionStoreProofs`. `StoreInv` adds to the type invariant that the temporary file is
  the rewritten log, that event numbers are those of calls made, and that a torn line is
  not one that was logged; it gives `OrderCorrect`. `HeaderCorrect` follows from it as an
  action property. `ConversationCorrect` needs `HeaderInv` and a caller that ensures the
  header. `LossCorrect` needs `LossInv`: a line without newline is a debt of one event,
  which the crash that tore it has paid for already; and a line cut within a character is
  one that a crash tore. It is about what the file holds. Of a file
  with such a line nothing can be read.

* `AuthenticationProofs`. `FlowInv` says of the device flow that the interval has grown by
  every `slow_down`, that a sleep has lasted an interval when the loop goes on, and that an
  answer that is out of date was given after its poll was sent, so that the consent it
  missed is no older than the poll and the sleep; `SpacingCorrect` and `GrantCorrect`
  follow, for any intervals, lifetimes and delays. `FileInv` (types, and which login has
  which temporary file) gives `TypeCorrect` and `WholeCorrect`. `LookupCorrect` needs
  `LookupInv`: the file, and the credentials that each saving login has loaded, show the
  last login of every provider, but for those that were made since it loaded and those
  that such a login has overwritten; and only the login that has just obtained a key with
  a control character can make the file unreadable.
* `ToolProofs`, of `FileOps` under the steps of `McpServer`, for any finite set of
  agents. `FilesCorrect` needs only the shape of the state and the count of writers: a
  write that ends badly leaves the set of writers and becomes a failure in one step.
  `EditCorrect` needs `DraftCurrent`: what an edit is going to write is what it read, with
  every line end an LF and its one match replaced; and as long as nobody has changed the
  path, what it read is what is there. Any rename, the edit's own or another agent's, ends
  the latter. `AnswersCorrect`
  needs `ServerInv`: what the client is owed is the answers given, the request in hand,
  and what the lines that wait call for, in this order. A line that the server skips or
  refuses calls for just what it says at once, and a line that a command has read is
  owed no more.
* `AntigravityBridgeProofs`, whatever `on_init` does. `ProcInv` gives `TypeCorrect` and
  `OneProcessCorrect`. It adds that no process belongs to a later provider, that a
  restart has closed its process, and that an expiry is reported by a process that is over,
  of a conversation that is: so a process is replaced or left only when it is dead.
  `AnswerCorrect`, `RecordCorrect` and `ConversationCorrect` need `TalkInv`. A running
  process has announced its conversation before any result, so that the session knows the
  conversation a result is from (`Introduced`); its pipes hold one prompt or one result, of
  the chat at work, and between chats nothing (`OneTurn`). That is so unless `on_init` has
  failed on its announcement: then there is one more, which is always of an earlier chat
  and comes first, so that each answer is to a prompt before the one it is taken for
  (`Overdue`, `Held`, `Behind`, `Turns`). And as long as the header's conversation is
  there, the session and its process work in it (`HeaderKnown`).
  `LeftoversCorrect` needs `CountInv`: how many processes a chat has started and how many
  home directories were made and not removed is bounded by where it is and at which
  attempt, and a restart belongs to the second or fourth attempt.
* `AgentBusProofs`. `BusInv` adds to the types that a reply is on its way only to an agent
  that waits on Redis, that whatever is pushed was issued before (so that a task put into
  memory is new to its queue), and that an agent without a bus has done nothing. With it
  each step is one of `TaskQueue` or leaves its variables alone, for the queue on Redis
  (`RedisImplemented`) and for that of every process (`StoresImplemented`).
  `SubscriptionsCorrect` needs `HearingInv`: what a subscriber has been given and what waits
  for it are the messages posted on its bus since its first step, but for those that its bus
  drops and, after a broken connection, for others. `DamageCounted` needs `DamageInv`: the
  items lost, the items repeated, the `BLPOP`s abandoned and the commands that Redis will
  execute a second time are together at most as many as the faults so far, and no two
  commands carry the same item. A command that is sent again is paid for when its reply is
  lost, not when it is executed.

Sums, counts and what a recursive function or a fold returns for a list of any length need
an induction. The library states induction for an operator that is a parameter, which the
installed provers cannot instantiate; `NaturalInduction` of `CompactorProofs` states it for
a set of naturals instead, and `Iterates` that a function defined by its predecessor's
value satisfies its equation. Both are consequences of well-foundedness and first-order, so
that SMT and Zenon can use them.

**Model-checked only**: `RunEnds` of `AgentLoop` and `LoginEnds` of `Authentication`, since
liveness under fairness is out of the prover's reach. Every other property of a passing
run is stated by a theorem.

## 5. Where code and documentation differ

Shown by the run `modify`: a hook's modification is dropped. `HookChain.run` returns
"allow" without a call, so the handler runs the dict that dispatch was given, while the
later hooks judge the one that the hook returned (`hooks/chain.py:52`, against
`CONTEXT.md:130`).

Met while modelling; the passing runs have these behaviours, and their properties are
stated up to them:

* A crash that tears a line within a character makes the whole log unreadable, and not one
  line of it (`session/reader.py:135`, `session/store.py:53` and `:150`, against
  `tests/test_session.py:440`; `CutLines`, of which `LossBounded` has one per crash).
* When `on_init` raises (it rewrites the session header), its chat ends but the process
  goes on; the next chat of that process takes that answer for its own, and each later one
  the answer before its own (`providers/antigravity/process.py:209`,
  `providers/router.py:103`; `late` in `AnswerMatchesPrompt`).
* An edit of a file with CRLF at the ends of its lines changes all of them
  (`tools/file_ops.py:119`, against the docstring in line 112; `Universal` in
  `EditReplacesOne`).

Met as well; no run is listed for them:

* A hook that writes in the dict it is given has its way whatever it answers, tool name
  included: neither the registry nor an earlier hook sees the call again, and
  `tool_history` has the written one (`tools/dispatch.py:50`, `:98` and `:137`;
  `Amendments` and `Binding` of `ToolDispatch`).
* `RedisBus` drops a message that does not validate, without a word, which a subscriber of
  `InMemoryBus` is given (`bus/redis_bus.py:42`; `Dropped`); a task that does not parse is
  taken off its list and dropped likewise.
* Hook tables of a configuration file never reach the chain, `fail_open` among them
  (`config/service.py:36`, against ADR 0006; `ExtractRawHooks`).
* After a crash in the middle of the header, `ensure_header` merges the new header with
  the torn one, and there is none on line 1 (`session/store.py:123`, against the docstring
  in line 103).
* After a compaction each request is replayed anew, but for its system prompt, although
  the reader promises unique messages (`session/reader.py:114`, against line 127).
* Dispatch "never raises", but an `OSError` of a handler leaves it, the loop and the REPL
  (`tools/dispatch.py:70`; the outcome `raised` of `ToolDispatch`).
* Without `ensure_header`, a recorded conversation lands below the events, where it is
  never read (`session/store.py:132`; `EnsuresHeader = FALSE`).
* A truncated tool result is longer than the limit it is truncated to, by the marker
  (`context/compactor.py:41`; `TruncatedSize` in `Compactor`).
* A prompt typed again after its request failed is replayed as the same message, or the
  request anew (`session/reader.py:92`).
* `RedisBus` and `InMemoryBus` are said to be interchangeable, with identical semantics
  (`docs/bus-dual-adapter-seam.md`, "Seam Properties"): only the latter implements the
  reliable queue, as `StoresAreQueues` and `RedisIsQueue` say.
* A key with a control character is saved without an error and makes the whole file
  unreadable, for every provider, until somebody edits it (`auth/store.py:79`).
* A stored table that lacks a field of its kind is taken for "no credentials", and not
  reported (`auth/manager.py`; `Validated`).
* `CredentialStoreError`, `KeyError` and `ValueError` leave `pelmeni auth login` as
  tracebacks, for `cli/auth.py:28` catches `AuthError`; in the REPL they, and `AuthError`,
  leave `ProviderRouter.chat`, which resolves credentials outside its `try`
  (`providers/router.py:85`).
* If only the last `chmod` of saving fails, the login reports a failure although the file
  has been replaced (`auth/store.py:43`).
* A bash command reads the requests that wait in the MCP server's input, unless its input
  is redirected (`tools/bash.py:14`), and after a timeout only the shell is killed.
* `read` of a directory that cannot be listed raises, which ends the MCP server
  (`tools/file_ops.py:50`, `tools/dispatch.py:70`); output of a command that is no UTF-8 is
  reported as invalid arguments, after the command has run.
* A failed edit or write leaves its temporary file behind (`tools/file_ops.py:70`).
* An answer without text and calls is sent to Anthropic as an empty text block, which its
  API refuses (`providers/anthropic/messages.py:125`); Gemini's ids repeat, so that an
  Anthropic request may hold one id twice after a change of role
  (`providers/google/calls.py:59`).
* A Gemini call without `args` gets the arguments "None", which do not parse
  (`providers/google/calls.py:57`).
* The tool `write` is announced with a parameter `content`, while its handler takes
  `payload`, so that each call of it ends as an error (`tools/registry.py:185`,
  `tools/file_ops.py:85`).

## 6. Not modelled

Texts, wording and layout; importing a user's hook module; subagent logs (an append each);
names of session directories; the tools `grep` and `glob`, which only read, and `lsp`, which
has no handler; the transport of the HTTP providers, their tool schemas and the
OpenAI-compatible adapter, which passes messages on; `refresh` of a token, which nothing
calls; the printing commands of the REPL, completion and key bindings; prompts and profiles,
which are constant; the multi-agent pipeline of `CONTEXT.md`, which has no code.

## 7. Plan

| Order | Modules | What they are to show |
| --- | --- | --- |
| 1 | `Conversation`, `Compactor`, `CompactorCode` | done, proved, the loops included |
| 2 | `AgentLoop` (uses 1) | done, proved but for the liveness |
| 3 | `ToolGate`, `ToolDispatch` | done, proved |
| 4 | `SessionStore` | done, proved |
| 5 | `AgentSession` (uses 1) | done, proved |
| 6 | `SessionReader` (uses 1, reads what 2 and 4 write) | done, proved |
| 7 | `TaskQueue`, `AgentBus` | done, proved |
| 8 | `AntigravityBridge` | done, proved |
| 9 | `DeviceFlow`, `Authentication` | done, proved but for the liveness |
| 10 | `FileOps`, `McpServer` | done, proved |
| 11 | `ProviderMessages` (uses 2) | done, proved |

What is left out, and why, is in section 6.
