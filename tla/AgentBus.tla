------------------------------ MODULE AgentBus ------------------------------
(***************************************************************************)
(* The agent bus (src/pelmeni/bus/): one task queue and one channel, used  *)
(* by agents in several processes.  create_bus gives an agent the Redis    *)
(* adapter if a probe succeeds, else the memory of its own process.        *)
(*                                                                         *)
(* An operation on memory runs without a wait, but for pop_task on an      *)
(* empty queue.  One on Redis is a command and a reply; when the           *)
(* connection breaks, redis-py, which the adapter calls without options,   *)
(* sends the command again or raises, as its version has it.  What Redis   *)
(* has not executed by then it does not execute later; a BLPOP that waits  *)
(* it may keep until it notices.                                           *)
(***************************************************************************)
EXTENDS Integers, FiniteSets, SequencesExt

CONSTANTS Agents,
          Stores,       \* shared_stores, a namespace of a process each
          StoreOf,      \* agent -> the store its process falls back to
          Redis,        \* the one Redis
          NoBus,        \* no bus was created yet
          Unreadable,   \* what another version wrote, and does not validate here
          MaxItems,     \* bound: tasks and messages
          MaxFaults     \* bound: connections that break, cancelled operations

Buses == Stores \cup {Redis}
Items == 1..MaxItems

ASSUME BusAssumption ==
  /\ IsFiniteSet(Agents) /\ StoreOf \in [Agents -> Stores]
  /\ Redis \notin Stores /\ NoBus \notin Buses
  /\ MaxItems \in Nat /\ MaxFaults \in Nat
  /\ Unreadable \subseteq Items

VARIABLES
  bus,       \* agent -> its adapter
  op,        \* agent -> "free", "sending", "executed", "pop", "sub", "away"
  command,   \* agent -> [kind, item] while it sends a command to Redis
  queue,     \* bus -> tasks that wait
  flight,    \* agent -> the reply to its BLPOP on the way
  got,       \* agent -> the tasks its pop_task calls returned
  abandoned, \* BLPOPs of dead connections that Redis still serves
  inbox,     \* agent -> messages on the way to a subscriber
  heard,     \* agent -> messages its subscription has yielded
  \* Auxiliary: what the properties speak of.
  unread,    \* calls of pop_task that returned None
  pushed,    \* bus -> tasks taken in, in order
  posted,    \* bus -> messages published, in order
  since,     \* agent -> messages posted before it subscribed
  gap,       \* agent -> has its subscription been interrupted?
  issued,    \* tasks and messages so far
  faults     \* connections broken and operations cancelled so far

vars == << bus, op, command, queue, flight, got, abandoned, inbox, heard,
           unread, pushed, posted, since, gap, issued, faults >>
\* Left alone by commands, by pop_task and by subscriptions.
channelVars == << inbox, heard, posted, since, gap >>
taskVars == << queue, flight, got, abandoned, unread, pushed >>
otherVars == << bus, command, issued, channelVars >>

-----------------------------------------------------------------------------
NoCommand == [kind |-> "none", item |-> 0]

Init ==
  /\ bus = [a \in Agents |-> NoBus]
  /\ op = [a \in Agents |-> "free"]
  /\ command = [a \in Agents |-> NoCommand]
  /\ queue = [b \in Buses |-> << >>] /\ pushed = [b \in Buses |-> << >>]
  /\ posted = [b \in Buses |-> << >>]
  /\ flight = [a \in Agents |-> << >>] /\ got = [a \in Agents |-> << >>]
  /\ inbox = [a \in Agents |-> << >>] /\ heard = [a \in Agents |-> << >>]
  /\ since = [a \in Agents |-> 0] /\ gap = [a \in Agents |-> FALSE]
  /\ abandoned = 0 /\ unread = 0 /\ issued = 0 /\ faults = 0

\* create_bus: Redis if it answers in time, else the process's memory.
CreateBus(a) ==
  /\ bus[a] = NoBus
  /\ bus' = [bus EXCEPT ![a] = Redis] \/ bus' = [bus EXCEPT ![a] = StoreOf[a]]
  /\ UNCHANGED << op, command, issued, faults, channelVars, taskVars >>

\* Subscribers that are registered on bus b.
Subscribers(b) == {a \in Agents : bus[a] = b /\ op[a] = "sub"}

\* Mutant: a subscriber's queue holds one message.
AcceptLatest(b, kind, item) ==
  IF kind = "task"
    THEN /\ queue' = [queue EXCEPT ![b] = Append(@, item)]
         /\ pushed' = [pushed EXCEPT ![b] = Append(@, item)]
         /\ UNCHANGED << flight, got, abandoned, unread, channelVars >>
    ELSE /\ inbox' = [a \in Agents |-> IF a \in Subscribers(b)
                        THEN << item >> ELSE inbox[a]]
         /\ posted' = [posted EXCEPT ![b] = Append(@, item)]
         /\ UNCHANGED << heard, since, gap, taskVars >>

\* Bus b takes in a task, or fans out a message.
Accept(b, kind, item) ==
  IF kind = "task"
    THEN /\ queue' = [queue EXCEPT ![b] = Append(@, item)]
         /\ pushed' = [pushed EXCEPT ![b] = Append(@, item)]
         /\ UNCHANGED << flight, got, abandoned, unread, channelVars >>
    ELSE /\ inbox' = [a \in Agents |-> IF a \in Subscribers(b)
                        THEN Append(inbox[a], item) ELSE inbox[a]]
         /\ posted' = [posted EXCEPT ![b] = Append(@, item)]
         /\ UNCHANGED << heard, since, gap, taskVars >>

\* InMemoryBus.push_task and publish.
Put(a, kind) ==
  /\ bus[a] \in Stores /\ op[a] = "free" /\ issued < MaxItems
  /\ issued' = issued + 1
  /\ Accept(bus[a], kind, issued + 1)
  /\ UNCHANGED << bus, op, command, faults >>

\* RedisBus.push_task and publish: the command is sent,
Send(a, kind) ==
  /\ bus[a] = Redis /\ op[a] = "free" /\ issued < MaxItems
  /\ issued' = issued + 1
  /\ op' = [op EXCEPT ![a] = "sending"]
  /\ command' = [command EXCEPT ![a] = [kind |-> kind, item |-> issued + 1]]
  /\ UNCHANGED << bus, faults, channelVars, taskVars >>

\* executed,
Execute(a) ==
  /\ op[a] = "sending"
  /\ op' = [op EXCEPT ![a] = "executed"]
  /\ Accept(Redis, command[a].kind, command[a].item)
  /\ UNCHANGED << bus, command, issued, faults >>

\* and answered.
Reply(a) ==
  /\ op[a] = "executed"
  /\ op' = [op EXCEPT ![a] = "free"]
  /\ command' = [command EXCEPT ![a] = NoCommand]
  /\ UNCHANGED << bus, issued, faults, channelVars, taskVars >>

Fault == faults < MaxFaults /\ faults' = faults + 1

\* The connection breaks before the reply: the command is sent again, or the
\* operation raises.  A cancelled operation ends in the same way.
LoseReply(a) ==
  /\ op[a] \in {"sending", "executed"} /\ Fault
  /\ \/ op' = [op EXCEPT ![a] = "sending"] /\ UNCHANGED command
     \/ /\ op' = [op EXCEPT ![a] = "free"]
        /\ command' = [command EXCEPT ![a] = NoCommand]
  /\ UNCHANGED << bus, issued, channelVars, taskVars >>

-----------------------------------------------------------------------------
\* pop_task waits for a task.
Pop(a) ==
  /\ bus[a] # NoBus /\ op[a] = "free"
  /\ op' = [op EXCEPT ![a] = "pop"]
  /\ UNCHANGED << bus, command, issued, faults, channelVars, taskVars >>

\* Mutant: a LifoQueue.
TakeLast(a) ==
  /\ op[a] = "pop" /\ bus[a] \in Stores /\ queue[bus[a]] # << >>
  /\ got' = [got EXCEPT ![a] = Append(@, Last(queue[bus[a]]))]
  /\ queue' = [queue EXCEPT ![bus[a]] = Front(@)]
  /\ op' = [op EXCEPT ![a] = "free"]
  /\ UNCHANGED << flight, abandoned, unread, pushed, faults, otherVars >>

\* asyncio.Queue.get returns.
Take(a) ==
  /\ op[a] = "pop" /\ bus[a] \in Stores /\ queue[bus[a]] # << >>
  /\ got' = [got EXCEPT ![a] = Append(@, Head(queue[bus[a]]))]
  /\ queue' = [queue EXCEPT ![bus[a]] = Tail(@)]
  /\ op' = [op EXCEPT ![a] = "free"]
  /\ UNCHANGED << flight, abandoned, unread, pushed, faults, otherVars >>

\* Mutant: BRPOP.
ServeLast(a) ==
  /\ op[a] = "pop" /\ bus[a] = Redis /\ flight[a] = << >>
  /\ queue[Redis] # << >>
  /\ flight' = [flight EXCEPT ![a] = << Last(queue[Redis]) >>]
  /\ queue' = [queue EXCEPT ![Redis] = Front(@)]
  /\ UNCHANGED << op, got, abandoned, unread, pushed, faults, otherVars >>

\* Redis takes the head off the list for a client that is blocked in BLPOP.
Serve(a) ==
  /\ op[a] = "pop" /\ bus[a] = Redis /\ flight[a] = << >>
  /\ queue[Redis] # << >>
  /\ flight' = [flight EXCEPT ![a] = << Head(queue[Redis]) >>]
  /\ queue' = [queue EXCEPT ![Redis] = Tail(@)]
  /\ UNCHANGED << op, got, abandoned, unread, pushed, faults, otherVars >>

\* Mutant: pop_task drops a text it cannot parse and waits for the next.
ArriveSkipping(a) ==
  /\ flight[a] # << >>
  /\ IF Head(flight[a]) \in Unreadable THEN UNCHANGED << op, got >>
     ELSE /\ got' = [got EXCEPT ![a] = Append(@, Head(flight[a]))]
          /\ op' = [op EXCEPT ![a] = "free"]
  /\ flight' = [flight EXCEPT ![a] = << >>]
  /\ UNCHANGED << queue, unread, abandoned, pushed, faults, otherVars >>

\* The reply arrives; a text that is no task makes pop_task return None.
Arrive(a) ==
  /\ flight[a] # << >>
  /\ IF Head(flight[a]) \in Unreadable
       THEN unread' = unread + 1 /\ UNCHANGED got
       ELSE /\ got' = [got EXCEPT ![a] = Append(@, Head(flight[a]))]
            /\ UNCHANGED unread
  /\ flight' = [flight EXCEPT ![a] = << >>]
  /\ op' = [op EXCEPT ![a] = "free"]
  /\ UNCHANGED << queue, abandoned, pushed, faults, otherVars >>

\* A pop_task of memory is cancelled: a getter leaves nothing behind.
CancelTake(a) ==
  /\ op[a] = "pop" /\ bus[a] \in Stores
  /\ op' = [op EXCEPT ![a] = "free"]
  /\ UNCHANGED << bus, command, issued, faults, channelVars, taskVars >>

\* A pop_task of Redis is cancelled or its connection breaks, after which it
\* raises or sends BLPOP again.  A reply on the way is lost; if there is none,
\* Redis keeps the old BLPOP.
LosePop(a) ==
  /\ op[a] = "pop" /\ bus[a] = Redis /\ Fault
  /\ op' = [op EXCEPT ![a] = "free"] \/ UNCHANGED op
  /\ flight' = [flight EXCEPT ![a] = << >>]
  /\ abandoned' = IF flight[a] = << >> THEN abandoned + 1 ELSE abandoned
  /\ UNCHANGED << queue, got, unread, pushed, otherVars >>

\* Redis serves a BLPOP whose client is gone,
ServeAbandoned ==
  /\ abandoned > 0 /\ queue[Redis] # << >>
  /\ queue' = [queue EXCEPT ![Redis] = Tail(@)]
  /\ abandoned' = abandoned - 1
  /\ UNCHANGED << op, flight, got, unread, pushed, faults, otherVars >>

\* or notices that it is gone.
NoticeAbandoned ==
  /\ abandoned > 0
  /\ abandoned' = abandoned - 1
  /\ UNCHANGED << op, queue, flight, got, unread, pushed, faults, otherVars >>

-----------------------------------------------------------------------------
\* The first __anext__ of subscribe registers the subscriber.
Subscribe(a) ==
  /\ bus[a] # NoBus /\ op[a] = "free"
  /\ op' = [op EXCEPT ![a] = "sub"]
  /\ since' = [since EXCEPT ![a] = Len(posted[bus[a]])]
  /\ UNCHANGED << bus, command, inbox, heard, posted, gap, issued, faults,
                  taskVars >>

\* What bus b drops instead of handing it to a subscriber: Redis passes text,
\* memory the message itself.
Dropped(b) == IF b = Redis THEN Unreadable ELSE {}

\* The next message arrives: the generator yields it, or drops it and goes on.
Hear(a) ==
  /\ op[a] = "sub" /\ inbox[a] # << >>
  /\ IF Head(inbox[a]) \in Dropped(bus[a]) THEN UNCHANGED heard
     ELSE heard' = [heard EXCEPT ![a] = Append(@, Head(inbox[a]))]
  /\ inbox' = [inbox EXCEPT ![a] = Tail(@)]
  /\ UNCHANGED << bus, op, command, posted, since, gap, issued, faults,
                  taskVars >>

\* A subscriber's connection breaks: what was on the way is lost, and what is
\* published until redis-py has subscribed again.
LoseChannel(a) ==
  /\ op[a] = "sub" /\ bus[a] = Redis /\ Fault
  /\ op' = [op EXCEPT ![a] = "away"]
  /\ inbox' = [inbox EXCEPT ![a] = << >>]
  /\ gap' = [gap EXCEPT ![a] = TRUE]
  /\ UNCHANGED << bus, command, heard, posted, since, issued, taskVars >>

Resubscribe(a) ==
  /\ op[a] = "away"
  /\ op' = [op EXCEPT ![a] = "sub"]
  /\ UNCHANGED << bus, command, issued, faults, channelVars, taskVars >>

\* Mutant: the queue of a subscriber that leaves is used for its next
\* subscription.
LeaveKeeping(a) ==
  /\ op[a] \in {"sub", "away"}
  /\ op' = [op EXCEPT ![a] = "free"]
  /\ heard' = [heard EXCEPT ![a] = << >>]
  /\ since' = [since EXCEPT ![a] = 0] /\ gap' = [gap EXCEPT ![a] = FALSE]
  /\ UNCHANGED << bus, command, inbox, posted, issued, faults, taskVars >>

\* The generator is closed.
Leave(a) ==
  /\ op[a] \in {"sub", "away"}
  /\ op' = [op EXCEPT ![a] = "free"]
  /\ inbox' = [inbox EXCEPT ![a] = << >>]
  /\ heard' = [heard EXCEPT ![a] = << >>]
  /\ since' = [since EXCEPT ![a] = 0] /\ gap' = [gap EXCEPT ![a] = FALSE]
  /\ UNCHANGED << bus, command, posted, issued, faults, taskVars >>

Next ==
  \/ \E a \in Agents :
       \/ CreateBus(a)
       \/ \E kind \in {"task", "message"} : Put(a, kind) \/ Send(a, kind)
       \/ Execute(a) \/ Reply(a) \/ LoseReply(a)
       \/ Pop(a) \/ Take(a) \/ CancelTake(a)
       \/ Serve(a) \/ Arrive(a) \/ LosePop(a)
       \/ Subscribe(a) \/ Hear(a) \/ Leave(a)
       \/ LoseChannel(a) \/ Resubscribe(a)
  \/ ServeAbandoned \/ NoticeAbandoned

Spec == Init /\ [][Next]_vars

-----------------------------------------------------------------------------
TypeOK ==
  /\ bus \in [Agents -> Buses \cup {NoBus}]
  /\ op \in [Agents -> {"free", "sending", "executed", "pop", "sub", "away"}]
  /\ command \in [Agents -> [kind : {"none", "task", "message"},
                              item : Items \cup {0}]]
  /\ queue \in [Buses -> Seq(Items)] /\ pushed \in [Buses -> Seq(Items)]
  /\ posted \in [Buses -> Seq(Items)]
  /\ flight \in [Agents -> Seq(Items)] /\ got \in [Agents -> Seq(Items)]
  /\ inbox \in [Agents -> Seq(Items)] /\ heard \in [Agents -> Seq(Items)]
  /\ since \in [Agents -> Nat] /\ gap \in [Agents -> BOOLEAN]
  /\ unread \in Nat /\ abandoned \in 0..MaxFaults
  /\ issued \in 0..MaxItems /\ faults \in 0..MaxFaults

Users(b) == {a \in Agents : bus[a] = b}

\* One for each task in the lists of the agents on Redis.
Entries(list) == UNION {{a} \X DOMAIN list[a] : a \in Users(Redis)}

\* What Redis took in and neither holds nor has handed over.
Losses ==
  Len(pushed[Redis]) - Len(queue[Redis]) - unread
    - Cardinality(Entries(flight)) - Cardinality(Entries(got))

Repeats == Len(pushed[Redis]) - Cardinality(Range(pushed[Redis]))

\* On Redis a broken connection or a cancelled operation costs one task or
\* doubles one, at most, and a BLPOP that is left behind is such a loss to come.
DamageBounded == Losses + Repeats + abandoned <= faults

\* s is t without some of its elements, all of them in lost.
Lacks(s, t, lost) ==
  \E at \in [DOMAIN s -> DOMAIN t] :
     /\ \A i, j \in DOMAIN s : i < j => at[i] < at[j]
     /\ \A i \in DOMAIN s : s[i] = t[at[i]]
     /\ \A k \in DOMAIN t : t[k] \in lost \/ \E i \in DOMAIN s : at[i] = k

\* A subscription yields, in order and once, what is published on its bus from
\* its first step on, less what does not validate, which on Redis it never
\* yields; only one whose connection broke may miss more.
SubscribersHear ==
  \A a \in Agents : op[a] \in {"sub", "away"} =>
    LET all == posted[bus[a]]
        due == SubSeq(all, since[a] + 1, Len(all))
    IN /\ Lacks(heard[a] \o inbox[a], due,
                IF gap[a] THEN Items ELSE Dropped(bus[a]))
       /\ Range(heard[a]) \cap Dropped(bus[a]) = {}

GotFrom(b) ==
  [a \in Agents |-> IF bus[a] = b THEN got[a] ELSE << >>]

Store(s) == INSTANCE TaskQueue
              WITH Tasks <- Items, Consumers <- Agents, Reliable <- TRUE,
                   queue <- queue[s], pushed <- Range(pushed[s]),
                   onway <- [a \in Agents |-> << >>], got <- GotFrom(s)

Remote == INSTANCE TaskQueue
            WITH Tasks <- Items, Consumers <- Agents, Reliable <- FALSE,
                 queue <- queue[Redis], pushed <- Range(pushed[Redis]),
                 onway <- flight, got <- GotFrom(Redis)

\* In memory a task queue is reliable: each task is handed to one agent, in
\* order, whoever pushes, waits and is cancelled, and no agent of another
\* process or of Redis ever takes part.
StoresAreQueues ==
  /\ \A s \in Stores : Store(s)!Init
  /\ [][\A s \in Stores : Store(s)!Next \/ UNCHANGED Store(s)!queueVars]_vars

\* On Redis it keeps the order of what it holds and hands each entry to one
\* agent, but may lose and repeat.
RedisIsQueue == Remote!Spec

=============================================================================
