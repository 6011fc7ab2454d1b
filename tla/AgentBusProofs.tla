--------------------------- MODULE AgentBusProofs ---------------------------
(***************************************************************************)
(* For any agents, processes, numbers of tasks and of faults: a queue in   *)
(* memory is a reliable FIFO queue, and the one on Redis an unreliable one *)
(* that a fault costs one task at most; a subscription yields what is      *)
(* published from its first step on.                                       *)
(***************************************************************************)
EXTENDS AgentBus,
        CompactorProofs   \* its lemmas about sequences

\* A reply is on its way only to an agent that waits in pop_task on Redis.
FlightInv ==
  \A a \in Agents : flight[a] # << >> =>
     /\ op[a] = "pop" /\ bus[a] = Redis
     /\ Len(flight[a]) = 1

\* What is pushed, or sent to Redis, was issued.  Agents without a bus are idle.
IssuedInv ==
  /\ \A b \in Buses : Range(pushed[b]) \subseteq 1..issued
  /\ \A a \in Agents : op[a] \in {"sending", "executed"} =>
        bus[a] = Redis /\ command[a].item \in 1..issued
  /\ \A a \in Agents : bus[a] = NoBus => op[a] = "free" /\ got[a] = << >>

BusInv == TypeOK /\ abandoned <= faults /\ FlightInv /\ IssuedInv

-----------------------------------------------------------------------------
LEMMA RangeOfAppend ==
  ASSUME NEW S, NEW s \in Seq(S), NEW e \in S
  PROVE  Range(Append(s, e)) = Range(s) \cup {e}
<1>1. /\ DOMAIN Append(s, e) = 1..(Len(s) + 1) /\ DOMAIN s = 1..Len(s)
      /\ Len(s) \in Nat
  OBVIOUS
<1>2. /\ \A i \in 1..Len(s) : Append(s, e)[i] = s[i]
      /\ Append(s, e)[Len(s) + 1] = e
  OBVIOUS
<1>3. 1..(Len(s) + 1) = (1..Len(s)) \cup {Len(s) + 1}
  BY <1>1
<1>4. QED
  BY <1>1, <1>2, <1>3 DEF Range

\* Taking the first element of a queue, or adding one, gives a queue.
LEMMA QueueSteps ==
  ASSUME NEW S, NEW s \in Seq(S)
  PROVE  /\ \A e \in S : Append(s, e) \in Seq(S) /\ << e >> \in Seq(S)
         /\ s # << >> => Head(s) \in S /\ Tail(s) \in Seq(S)
         /\ << >> \in Seq(S)
  OBVIOUS

LEMMA BusInit == Init => BusInv
<1>1. SUFFICES ASSUME Init PROVE BusInv
  OBVIOUS
<1>2. TypeOK
  BY <1>1, BusAssumption DEF Init, TypeOK, NoCommand, Buses, Items
<1>3. FlightInv
  BY <1>1 DEF Init, FlightInv
<1>4. IssuedInv
  BY <1>1 DEF Init, IssuedInv, Range
<1>5. QED
  BY <1>1, <1>2, <1>3, <1>4 DEF BusInv, Init

\* Accepting an item that was issued keeps the types of what a bus holds.
LEMMA AcceptTypes ==
  ASSUME TypeOK, IssuedInv, NEW b \in Buses, NEW kind,
         NEW item \in Items, Accept(b, kind, item)
  PROVE  /\ queue' \in [Buses -> Seq(Items)] /\ pushed' \in [Buses -> Seq(Items)]
         /\ posted' \in [Buses -> Seq(Items)] /\ inbox' \in [Agents -> Seq(Items)]
         /\ \A c \in Buses : Range(pushed'[c]) \subseteq Range(pushed[c]) \cup {item}
         /\ UNCHANGED << flight, got, abandoned, unread, heard, since, gap >>
<1>1. CASE kind = "task"
  <2>1. /\ queue' = [queue EXCEPT ![b] = Append(@, item)]
        /\ pushed' = [pushed EXCEPT ![b] = Append(@, item)]
        /\ UNCHANGED << flight, got, abandoned, unread, inbox, heard, posted,
                        since, gap >>
    BY <1>1 DEF Accept, channelVars
  <2>2. /\ Append(queue[b], item) \in Seq(Items)
        /\ Append(pushed[b], item) \in Seq(Items)
        /\ Range(Append(pushed[b], item)) = Range(pushed[b]) \cup {item}
    <3>1. queue[b] \in Seq(Items) /\ pushed[b] \in Seq(Items)
      BY DEF TypeOK
    <3>2. QED
      BY <3>1, QueueSteps, RangeOfAppend
  <2>3. QED
    BY <2>1, <2>2 DEF TypeOK
<1>2. CASE kind # "task"
  <2>1. /\ inbox' = [a \in Agents |-> IF a \in Subscribers(b)
                      THEN Append(inbox[a], item) ELSE inbox[a]]
        /\ posted' = [posted EXCEPT ![b] = Append(@, item)]
        /\ UNCHANGED << queue, flight, got, abandoned, unread, pushed, heard,
                        since, gap >>
    BY <1>2 DEF Accept, taskVars
  <2>2. /\ Append(posted[b], item) \in Seq(Items)
        /\ \A a \in Agents : Append(inbox[a], item) \in Seq(Items)
    BY QueueSteps DEF TypeOK
  <2>3. QED
    BY <2>1, <2>2 DEF TypeOK
<1>3. QED
  BY <1>1, <1>2

\* The numbers issued so far are among those issued after a step.
LEMMA IssuedGrows ==
  ASSUME TypeOK, issued < MaxItems
  PROVE  /\ issued + 1 \in Items /\ issued + 1 \in 0..MaxItems
         /\ 1..issued \subseteq 1..(issued + 1) /\ issued + 1 \in 1..(issued + 1)
  BY BusAssumption DEF TypeOK, Items

LEMMA FaultTypes ==
  ASSUME TypeOK, abandoned <= faults, Fault
  PROVE  faults' \in 0..MaxFaults /\ abandoned <= faults' /\ abandoned + 1 <= faults'
         /\ abandoned + 1 \in 0..MaxFaults
  BY BusAssumption DEF TypeOK, Fault

LEMMA BusFacts ==
  /\ Stores \subseteq Buses /\ Redis \in Buses /\ Redis \notin Stores
  /\ NoBus # Redis /\ NoBus \notin Stores
  /\ \A a \in Agents : StoreOf[a] \in Stores
BY BusAssumption DEF Buses

\* A BLPOP that Redis kept is served or noticed.
LEMMA AbandonedTypes ==
  ASSUME TypeOK, abandoned <= faults, abandoned > 0
  PROVE  abandoned - 1 \in 0..MaxFaults /\ abandoned - 1 <= faults
BY BusAssumption DEF TypeOK

LEMMA BusStep == BusInv /\ [Next]_vars => BusInv'
<1> SUFFICES ASSUME BusInv, [Next]_vars PROVE BusInv'
  OBVIOUS
<1> USE DEF BusInv, channelVars, taskVars, otherVars
<1>1. ASSUME NEW a \in Agents, CreateBus(a)
      PROVE  BusInv'
  <2>1. bus' \in [Agents -> Buses \cup {NoBus}] /\ bus[a] = NoBus
        /\ \A c \in Agents \ {a} : bus'[c] = bus[c]
    BY ZenonT(30), <1>1, BusFacts DEF CreateBus, TypeOK
  <2>2. bus'[a] # NoBus /\ flight[a] = << >>
    BY <1>1, BusFacts DEF CreateBus, TypeOK, FlightInv
  <2>3. TypeOK'
    BY <1>1, <2>1, <2>2
    DEF CreateBus, TypeOK
  <2>4. (abandoned <= faults)'
    BY <1>1, <2>1, <2>2
    DEF CreateBus, TypeOK
  <2>5. FlightInv'
    BY <1>1, <2>1, <2>2
    DEF CreateBus, TypeOK, FlightInv
  <2>6. IssuedInv'
    BY <1>1, <2>1, <2>2
    DEF CreateBus, TypeOK, IssuedInv, FlightInv
  <2>7. QED
    BY <2>3, <2>4, <2>5, <2>6 DEF BusInv
<1>2. ASSUME NEW a \in Agents, NEW kind \in {"task", "message"}, Put(a, kind)
      PROVE  BusInv'
  <2>1. issued + 1 \in Items /\ issued + 1 \in 0..MaxItems 
         /\ 1..issued \subseteq 1..(issued + 1) /\ issued + 1 \in 1..(issued + 1)
    BY <1>2, IssuedGrows DEF Put
  <2>2. bus[a] \in Buses
    BY <1>2, BusFacts DEF Put
  <2>3. Accept(bus[a], kind, issued + 1)
    BY <1>2 DEF Put
  <2>4. /\ queue' \in [Buses -> Seq(Items)] /\ pushed' \in [Buses -> Seq(Items)]
        /\ posted' \in [Buses -> Seq(Items)] /\ inbox' \in [Agents -> Seq(Items)]
        /\ \A c \in Buses : Range(pushed'[c]) \subseteq Range(pushed[c]) \cup {issued + 1}
        /\ UNCHANGED << flight, got, abandoned, unread, heard, since, gap >>
    BY <2>1, <2>2, <2>3, AcceptTypes
  <2>5. UNCHANGED << bus, op, command, faults >> /\ issued' = issued + 1
    BY <1>2 DEF Put
  <2>6. TypeOK'
    BY <2>1, <2>2, <2>3, <2>4, <2>5 DEF TypeOK
  <2>7. (abandoned <= faults)'
    BY <2>1, <2>2, <2>3, <2>4, <2>5
  <2>8. FlightInv'
    BY <2>1, <2>2, <2>3, <2>4, <2>5 DEF FlightInv, TypeOK
  <2>9. IssuedInv'
    BY <2>1, <2>2, <2>3, <2>4, <2>5 DEF IssuedInv, TypeOK
  <2>10. QED
    BY <2>6, <2>7, <2>8, <2>9 DEF BusInv
<1>3. ASSUME NEW a \in Agents, NEW kind \in {"task", "message"}, Send(a, kind)
      PROVE  BusInv'
  <2>1. /\ issued + 1 \in Items /\ issued + 1 \in 0..MaxItems
        /\ 1..issued \subseteq 1..(issued + 1) /\ issued + 1 \in 1..(issued + 1)
    BY <1>3, IssuedGrows DEF Send
  <2>2. /\ bus[a] = Redis /\ command'[a].item = issued + 1 /\ issued' = issued + 1
        /\ \A c \in Agents \ {a} : command'[c] = command[c] /\ op'[c] = op[c]
        /\ UNCHANGED << bus, got, pushed >>
    BY <1>3 DEF Send, TypeOK
  <2>3. TypeOK'
    BY <1>3, <2>1, <2>2, BusFacts
    DEF Send, TypeOK
  <2>4. (abandoned <= faults)'
    BY <1>3, <2>1, <2>2, BusFacts
    DEF Send, TypeOK
  <2>5. FlightInv'
    BY <1>3, <2>1, <2>2, BusFacts
    DEF Send, TypeOK, FlightInv
  <2>6. IssuedInv'
    <3>1. \A b \in Buses : Range(pushed'[b]) \subseteq 1..issued'
      BY <2>1, <2>2 DEF IssuedInv
    <3>2. ASSUME NEW c \in Agents, op'[c] \in {"sending", "executed"}
          PROVE  bus'[c] = Redis /\ command'[c].item \in 1..issued'
      <4>1. CASE c = a
        BY <2>1, <2>2, <4>1
      <4>2. CASE c # a
        BY <2>1, <2>2, <3>2, <4>2 DEF IssuedInv
      <4> QED
        BY <4>1, <4>2
    <3>3. ASSUME NEW c \in Agents, bus'[c] = NoBus
          PROVE  op'[c] = "free" /\ got'[c] = << >>
      BY <2>2, <3>3, BusFacts DEF IssuedInv
    <3> QED
      BY <3>1, <3>2, <3>3 DEF IssuedInv
  <2>7. QED
    BY <2>3, <2>4, <2>5, <2>6 DEF BusInv
<1>4. ASSUME NEW a \in Agents, Execute(a)
      PROVE  BusInv'
  <2>1. op[a] = "sending" /\ UNCHANGED << bus, command, issued, faults >>
        /\ op' = [op EXCEPT ![a] = "executed"]
    BY <1>4 DEF Execute
  <2>2. command[a].item \in 1..issued /\ 1..issued \subseteq Items /\ Redis \in Buses
        /\ bus[a] = Redis
    BY <2>1, BusFacts, BusAssumption DEF TypeOK, IssuedInv, Items
  <2>3. Accept(Redis, command[a].kind, command[a].item)
    BY <1>4 DEF Execute
  <2>4. /\ queue' \in [Buses -> Seq(Items)] /\ pushed' \in [Buses -> Seq(Items)]
        /\ posted' \in [Buses -> Seq(Items)] /\ inbox' \in [Agents -> Seq(Items)]
        /\ \A c \in Buses :
             Range(pushed'[c]) \subseteq Range(pushed[c]) \cup {command[a].item}
        /\ UNCHANGED << flight, got, abandoned, unread, heard, since, gap >>
    BY <2>2, <2>3, AcceptTypes
  <2>5. TypeOK'
    BY <2>1, <2>2, <2>3, <2>4 DEF TypeOK
  <2>6. (abandoned <= faults)'
    BY <2>1, <2>2, <2>3, <2>4
  <2>7. FlightInv'
    BY <2>1, <2>2, <2>3, <2>4 DEF FlightInv, TypeOK
  <2>8. IssuedInv'
    BY <2>1, <2>2, <2>3, <2>4 DEF IssuedInv, TypeOK
  <2>9. QED
    BY <2>5, <2>6, <2>7, <2>8 DEF BusInv
<1>5. ASSUME NEW a \in Agents, Reply(a)
      PROVE  BusInv'
  <2>1. TypeOK'
    BY <1>5
    DEF Reply, NoCommand, TypeOK
  <2>2. (abandoned <= faults)'
    BY <1>5
    DEF Reply, NoCommand, TypeOK
  <2>3. FlightInv'
    BY <1>5
    DEF Reply, NoCommand, TypeOK, FlightInv
  <2>4. IssuedInv'
    BY <1>5
    DEF Reply, NoCommand, TypeOK, IssuedInv, FlightInv
  <2>5. QED
    BY <2>1, <2>2, <2>3, <2>4 DEF BusInv
<1>6. ASSUME NEW a \in Agents, LoseReply(a)
      PROVE  BusInv'
  <2>1. NoCommand \in [kind : {"none", "task", "message"}, item : Items \cup {0}]
    BY DEF NoCommand
  <2>2. command' \in [Agents -> [kind : {"none", "task", "message"},
                                item : Items \cup {0}]]
    BY <1>6, <2>1 DEF LoseReply, TypeOK
  <2>3. op' \in [Agents -> {"free", "sending", "executed", "pop", "sub", "away"}]
    BY <1>6 DEF LoseReply, TypeOK
  <2>4. TypeOK'
    BY <1>6, <2>1, <2>2, <2>3, FaultTypes
    DEF LoseReply, TypeOK
  <2>5. (abandoned <= faults)'
    BY <1>6, <2>1, <2>2, <2>3, FaultTypes
    DEF LoseReply, TypeOK
  <2>6. FlightInv'
    BY <1>6, <2>1, <2>2, <2>3, FaultTypes
    DEF LoseReply, TypeOK, FlightInv
  <2>7. IssuedInv'
    BY <1>6, <2>1, <2>2, <2>3, FaultTypes, SMTT(30)
    DEF LoseReply, TypeOK, IssuedInv, FlightInv
  <2>8. QED
    BY <2>4, <2>5, <2>6, <2>7 DEF BusInv
<1>7. ASSUME NEW a \in Agents, Pop(a)
      PROVE  BusInv'
  <2>1. TypeOK'
    BY <1>7
    DEF Pop, TypeOK
  <2>2. (abandoned <= faults)'
    BY <1>7
    DEF Pop, TypeOK
  <2>3. FlightInv'
    BY <1>7
    DEF Pop, TypeOK, FlightInv
  <2>4. IssuedInv'
    BY <1>7
    DEF Pop, TypeOK, IssuedInv, FlightInv
  <2>5. QED
    BY <2>1, <2>2, <2>3, <2>4 DEF BusInv
<1>8. ASSUME NEW a \in Agents, Take(a)
      PROVE  BusInv'
  <2>1. bus[a] \in Buses /\ flight[a] = << >>
    BY <1>8, BusFacts DEF Take, FlightInv
  <2>2. /\ Head(queue[bus[a]]) \in Items /\ Tail(queue[bus[a]]) \in Seq(Items)
        /\ Append(got[a], Head(queue[bus[a]])) \in Seq(Items)
    BY <1>8, <2>1, QueueSteps DEF Take, TypeOK
  <2>3. TypeOK'
    BY <1>8, <2>1, <2>2, BusFacts
    DEF Take, TypeOK
  <2>4. (abandoned <= faults)'
    BY <1>8, <2>1, <2>2, BusFacts
    DEF Take, TypeOK
  <2>5. FlightInv'
    BY <1>8, <2>1, <2>2, BusFacts
    DEF Take, TypeOK, FlightInv
  <2>6. IssuedInv'
    BY <1>8, <2>1, <2>2, BusFacts
    DEF Take, TypeOK, IssuedInv, FlightInv
  <2>7. QED
    BY <2>3, <2>4, <2>5, <2>6 DEF BusInv
<1>9. ASSUME NEW a \in Agents, CancelTake(a)
      PROVE  BusInv'
  <2>1. TypeOK'
    BY <1>9, BusFacts
    DEF CancelTake, TypeOK
  <2>2. (abandoned <= faults)'
    BY <1>9, BusFacts
    DEF CancelTake, TypeOK
  <2>3. FlightInv'
    BY <1>9, BusFacts
    DEF CancelTake, TypeOK, FlightInv
  <2>4. IssuedInv'
    BY <1>9, BusFacts
    DEF CancelTake, TypeOK, IssuedInv, FlightInv
  <2>5. QED
    BY <2>1, <2>2, <2>3, <2>4 DEF BusInv
<1>10. ASSUME NEW a \in Agents, Serve(a)
      PROVE  BusInv'
  <2>1. /\ << Head(queue[Redis]) >> \in Seq(Items)
        /\ Tail(queue[Redis]) \in Seq(Items)
        /\ Len(<< Head(queue[Redis]) >>) = 1
    BY <1>10, BusFacts, QueueSteps DEF Serve, TypeOK
  <2>2. TypeOK'
    BY <1>10, <2>1, BusFacts
    DEF Serve, TypeOK
  <2>3. (abandoned <= faults)'
    BY <1>10, <2>1, BusFacts
    DEF Serve, TypeOK
  <2>4. FlightInv'
    BY <1>10, <2>1, BusFacts
    DEF Serve, TypeOK, FlightInv
  <2>5. IssuedInv'
    BY <1>10, <2>1, BusFacts
    DEF Serve, TypeOK, IssuedInv, FlightInv
  <2>6. QED
    BY <2>2, <2>3, <2>4, <2>5 DEF BusInv
<1>11. ASSUME NEW a \in Agents, Arrive(a)
      PROVE  BusInv'
  <2>1. /\ Append(got[a], Head(flight[a])) \in Seq(Items)
        /\ << >> \in Seq(Items) /\ unread + 1 \in Nat
        /\ op[a] = "pop" /\ bus[a] = Redis
    BY <1>11, QueueSteps DEF Arrive, TypeOK, FlightInv
  <2>2. TypeOK'
    BY <1>11, <2>1, BusFacts
    DEF Arrive, TypeOK
  <2>3. (abandoned <= faults)'
    BY <1>11, <2>1, BusFacts
    DEF Arrive, TypeOK
  <2>4. FlightInv'
    BY <1>11, <2>1, BusFacts
    DEF Arrive, TypeOK, FlightInv
  <2>5. IssuedInv'
    BY <1>11, <2>1, BusFacts
    DEF Arrive, TypeOK, IssuedInv, FlightInv
  <2>6. QED
    BY <2>2, <2>3, <2>4, <2>5 DEF BusInv
<1>12. ASSUME NEW a \in Agents, LosePop(a)
      PROVE  BusInv'
  <2>1. TypeOK'
    BY <1>12, FaultTypes, QueueSteps
    DEF LosePop, TypeOK
  <2>2. (abandoned <= faults)'
    BY <1>12, FaultTypes, QueueSteps
    DEF LosePop, TypeOK
  <2>3. FlightInv'
    BY <1>12, FaultTypes, QueueSteps
    DEF LosePop, TypeOK, FlightInv
  <2>4. IssuedInv'
    BY <1>12, FaultTypes, QueueSteps
    DEF LosePop, TypeOK, IssuedInv, FlightInv
  <2>5. QED
    BY <2>1, <2>2, <2>3, <2>4 DEF BusInv
<1>13. ASSUME NEW a \in Agents, Subscribe(a)
      PROVE  BusInv'
  <2>1. TypeOK'
    BY <1>13
    DEF Subscribe, TypeOK
  <2>2. (abandoned <= faults)'
    BY <1>13
    DEF Subscribe, TypeOK
  <2>3. FlightInv'
    BY <1>13
    DEF Subscribe, TypeOK, FlightInv
  <2>4. IssuedInv'
    BY <1>13
    DEF Subscribe, TypeOK, IssuedInv, FlightInv
  <2>5. QED
    BY <2>1, <2>2, <2>3, <2>4 DEF BusInv
<1>14. ASSUME NEW a \in Agents, Hear(a)
      PROVE  BusInv'
  <2>1. TypeOK'
    <3>1. inbox' \in [Agents -> Seq(Items)]
      BY <1>14, QueueSteps DEF Hear, TypeOK
    <3>2. heard' \in [Agents -> Seq(Items)]
      <4>1. inbox[a] # << >> /\ inbox[a] \in Seq(Items) /\ heard[a] \in Seq(Items)
        BY <1>14 DEF Hear, TypeOK
      <4>2. Append(heard[a], Head(inbox[a])) \in Seq(Items)
        BY <4>1, QueueSteps
      <4> QED
        BY <1>14, <4>2 DEF Hear, TypeOK
    <3> QED
      BY <1>14, <3>1, <3>2 DEF Hear, TypeOK, taskVars
  <2>2. (abandoned <= faults)'
    BY <1>14, QueueSteps
    DEF Hear, TypeOK
  <2>3. FlightInv'
    BY <1>14, QueueSteps
    DEF Hear, TypeOK, FlightInv
  <2>4. IssuedInv'
    BY <1>14, QueueSteps
    DEF Hear, TypeOK, IssuedInv, FlightInv
  <2>5. QED
    BY <2>1, <2>2, <2>3, <2>4 DEF BusInv
<1>15. ASSUME NEW a \in Agents, LoseChannel(a)
      PROVE  BusInv'
  <2>1. TypeOK'
    BY <1>15, FaultTypes, QueueSteps
    DEF LoseChannel, TypeOK
  <2>2. (abandoned <= faults)'
    BY <1>15, FaultTypes, QueueSteps
    DEF LoseChannel, TypeOK
  <2>3. FlightInv'
    BY <1>15, FaultTypes, QueueSteps
    DEF LoseChannel, TypeOK, FlightInv
  <2>4. IssuedInv'
    BY <1>15, FaultTypes, QueueSteps
    DEF LoseChannel, TypeOK, IssuedInv, FlightInv
  <2>5. QED
    BY <2>1, <2>2, <2>3, <2>4 DEF BusInv
<1>16. ASSUME NEW a \in Agents, Resubscribe(a)
      PROVE  BusInv'
  <2>1. TypeOK'
    BY <1>16
    DEF Resubscribe, TypeOK
  <2>2. (abandoned <= faults)'
    BY <1>16
    DEF Resubscribe, TypeOK
  <2>3. FlightInv'
    BY <1>16
    DEF Resubscribe, TypeOK, FlightInv
  <2>4. IssuedInv'
    BY <1>16
    DEF Resubscribe, TypeOK, IssuedInv, FlightInv
  <2>5. QED
    BY <2>1, <2>2, <2>3, <2>4 DEF BusInv
<1>17. ASSUME NEW a \in Agents, Leave(a)
      PROVE  BusInv'
  <2>1. TypeOK'
    BY <1>17, QueueSteps
    DEF Leave, TypeOK
  <2>2. (abandoned <= faults)'
    BY <1>17, QueueSteps
    DEF Leave, TypeOK
  <2>3. FlightInv'
    BY <1>17, QueueSteps
    DEF Leave, TypeOK, FlightInv
  <2>4. IssuedInv'
    BY <1>17, QueueSteps
    DEF Leave, TypeOK, IssuedInv, FlightInv
  <2>5. QED
    BY <2>1, <2>2, <2>3, <2>4 DEF BusInv
<1>18. ASSUME ServeAbandoned
      PROVE  BusInv'
  <2>1. Tail(queue[Redis]) \in Seq(Items)
    BY <1>18, BusFacts, QueueSteps DEF ServeAbandoned, TypeOK
  <2>2. TypeOK'
    BY <1>18, <2>1, AbandonedTypes
    DEF ServeAbandoned, TypeOK
  <2>3. (abandoned <= faults)'
    BY <1>18, <2>1, AbandonedTypes
    DEF ServeAbandoned, TypeOK
  <2>4. FlightInv'
    BY <1>18, <2>1, AbandonedTypes
    DEF ServeAbandoned, TypeOK, FlightInv
  <2>5. IssuedInv'
    BY <1>18, <2>1, AbandonedTypes
    DEF ServeAbandoned, TypeOK, IssuedInv, FlightInv
  <2>6. QED
    BY <2>2, <2>3, <2>4, <2>5 DEF BusInv
<1>19. ASSUME NoticeAbandoned
      PROVE  BusInv'
  <2>1. TypeOK'
    BY <1>19, AbandonedTypes
    DEF NoticeAbandoned, TypeOK
  <2>2. (abandoned <= faults)'
    BY <1>19, AbandonedTypes
    DEF NoticeAbandoned, TypeOK
  <2>3. FlightInv'
    BY <1>19, AbandonedTypes
    DEF NoticeAbandoned, TypeOK, FlightInv
  <2>4. IssuedInv'
    BY <1>19, AbandonedTypes
    DEF NoticeAbandoned, TypeOK, IssuedInv, FlightInv
  <2>5. QED
    BY <2>1, <2>2, <2>3, <2>4 DEF BusInv
<1>20. CASE UNCHANGED vars
  BY <1>20 DEF vars, TypeOK, FlightInv, IssuedInv
<1>21. QED
  BY <1>1, <1>2, <1>3, <1>4, <1>5, <1>6, <1>7, <1>8, <1>9, <1>10,
     <1>11, <1>12, <1>13, <1>14, <1>15, <1>16, <1>17, <1>18, <1>19, <1>20 DEF Next

-----------------------------------------------------------------------------
\* An action that leaves alone what bus b holds and has handed over.
Still(b) ==
  /\ queue'[b] = queue[b] /\ pushed'[b] = pushed[b]
  /\ GotFrom(b)' = GotFrom(b)

LEMMA GotUnchanged ==
  ASSUME NEW b \in Buses, BusInv, UNCHANGED << bus, got >>
  PROVE  GotFrom(b)' = GotFrom(b)
BY DEF GotFrom

LEMMA AppendOne ==
  ASSUME NEW S, NEW s \in Seq(S), NEW t \in Seq(S), t # << >>, Len(t) = 1
  PROVE  Append(s, Head(t)) = s \o t
<1>1. t = << Head(t) >>
  OBVIOUS
<1>2. Head(t) \in S
  BY QueueSteps
<1>3. Append(s, Head(t)) = s \o << Head(t) >>
  BY <1>2
<1>4. QED
  BY <1>1, <1>3

\* Most actions touch no task queue.
LEMMA QuietActions ==
  ASSUME NEW a \in Agents, NEW b \in Buses, BusInv,
         \/ CreateBus(a) \/ Reply(a) \/ LoseReply(a) \/ Pop(a) \/ CancelTake(a)
         \/ \E kind \in {"task", "message"} : Send(a, kind)
         \/ Subscribe(a) \/ Hear(a) \/ LoseChannel(a) \/ Resubscribe(a) \/ Leave(a)
  PROVE  Still(b) /\ UNCHANGED flight
<1>1. UNCHANGED << queue, pushed, flight, got >>
  BY DEF CreateBus, Reply, LoseReply, Pop, CancelTake, Send, Subscribe, Hear,
         LoseChannel, Resubscribe, Leave, taskVars
<1>2. CASE CreateBus(a)
  <2>1. /\ bus[a] = NoBus /\ got[a] = << >>
        /\ \A c \in Agents \ {a} : bus'[c] = bus[c]
    <3>1. bus[a] = NoBus
      BY <1>2 DEF CreateBus
    <3>2. \A c \in Agents \ {a} : bus'[c] = bus[c]
      BY <1>2 DEF CreateBus, BusInv, TypeOK
    <3>3. QED
      BY <3>1, <3>2 DEF BusInv, IssuedInv
  <2>2. \A c \in Agents : GotFrom(b)'[c] = GotFrom(b)[c]
    BY <1>1, <2>1 DEF GotFrom
  <2>3. QED
    BY <1>1, <2>2 DEF Still, GotFrom
<1>3. CASE ~CreateBus(a)
  <2>1. UNCHANGED bus
    BY <1>3 DEF Reply, LoseReply, Pop, CancelTake, Send, Subscribe, Hear,
         LoseChannel, Resubscribe, Leave
  <2>2. QED
    BY <1>1, <2>1, GotUnchanged DEF Still
<1>4. QED
  BY <1>2, <1>3

\* An item that bus b takes in is a task at the end of its queue, or a message.
LEMMA AcceptEffect ==
  ASSUME NEW b \in Buses, NEW kind, NEW item \in Items, BusInv,
         Accept(b, kind, item), UNCHANGED bus
  PROVE  /\ \A c \in Buses \ {b} : Still(c)
         /\ UNCHANGED flight /\ GotFrom(b)' = GotFrom(b)
         /\ \/ Still(b)
            \/ /\ queue'[b] = Append(queue[b], item)
               /\ Range(pushed'[b]) = Range(pushed[b]) \cup {item}
<1>1. UNCHANGED << flight, got >>
  BY DEF Accept, taskVars
<1>2. \A c \in Buses : GotFrom(c)' = GotFrom(c)
  BY <1>1, GotUnchanged
<1>3. CASE kind = "task"
  <2>1. /\ queue' = [queue EXCEPT ![b] = Append(@, item)]
        /\ pushed' = [pushed EXCEPT ![b] = Append(@, item)]
    BY <1>3 DEF Accept
  <2>2. Range(Append(pushed[b], item)) = Range(pushed[b]) \cup {item}
    BY RangeOfAppend DEF BusInv, TypeOK
  <2>3. QED
    BY <1>1, <1>2, <2>1, <2>2 DEF Still, BusInv, TypeOK
<1>4. CASE kind # "task"
  <2>1. UNCHANGED << queue, pushed >>
    BY <1>4 DEF Accept, taskVars
  <2>2. QED
    BY <1>1, <1>2, <2>1 DEF Still
<1>5. QED
  BY <1>3, <1>4

\* Redis.
LEMMA RemoteInit == Init => Remote!Init
BY BusFacts DEF Init, Remote!Init, GotFrom, Range

LEMMA RemoteStep == BusInv /\ [Next]_vars => [Remote!Next]_(Remote!queueVars)
<1> SUFFICES ASSUME BusInv, [Next]_vars
             PROVE  Remote!Next \/ UNCHANGED Remote!queueVars
  OBVIOUS
<1>0. ASSUME Still(Redis), UNCHANGED flight
      PROVE  UNCHANGED Remote!queueVars
  BY <1>0 DEF Still, Remote!queueVars
<1>1. ASSUME NEW a \in Agents,
             \/ CreateBus(a) \/ Reply(a) \/ LoseReply(a) \/ Pop(a) \/ CancelTake(a)
             \/ \E kind \in {"task", "message"} : Send(a, kind)
             \/ Subscribe(a) \/ Hear(a) \/ LoseChannel(a) \/ Resubscribe(a)
             \/ Leave(a)
      PROVE  UNCHANGED Remote!queueVars
  BY <1>0, <1>1, BusFacts, QuietActions
<1>2. ASSUME NEW a \in Agents, NEW kind \in {"task", "message"}, Put(a, kind)
      PROVE  UNCHANGED Remote!queueVars
  <2>1. /\ bus[a] \in Buses /\ bus[a] # Redis /\ UNCHANGED bus
        /\ Accept(bus[a], kind, issued + 1) /\ issued + 1 \in Items
    BY <1>2, BusFacts, IssuedGrows DEF Put, BusInv
  <2>2. QED
    BY <1>0, <2>1, BusFacts, AcceptEffect
<1>3. ASSUME NEW a \in Agents, Execute(a)
      PROVE  Remote!Next \/ UNCHANGED Remote!queueVars
  <2>1. /\ command[a].item \in Items /\ UNCHANGED bus
        /\ Accept(Redis, command[a].kind, command[a].item)
    BY <1>3, BusAssumption DEF Execute, BusInv, IssuedInv, TypeOK, Items
  <2>2. CASE Still(Redis)
    BY <1>0, <2>1, <2>2, BusFacts, AcceptEffect
  <2>3. CASE ~Still(Redis)
    <3>1. /\ queue'[Redis] = Append(queue[Redis], command[a].item)
          /\ Range(pushed'[Redis]) = Range(pushed[Redis]) \cup {command[a].item}
          /\ UNCHANGED flight /\ GotFrom(Redis)' = GotFrom(Redis)
      BY <2>1, <2>3, BusFacts, AcceptEffect
    <3>2. CASE command[a].item \in Range(pushed[Redis])
      <4>1. Remote!Repeat
        BY <3>1, <3>2 DEF Remote!Repeat
      <4>2. QED
        BY <4>1 DEF Remote!Next
    <3>3. CASE command[a].item \notin Range(pushed[Redis])
      <4>1. Remote!Push
        BY <2>1, <3>1, <3>3 DEF Remote!Push
      <4>2. QED
        BY <4>1 DEF Remote!Next
    <3>4. QED
      BY <3>2, <3>3
  <2>4. QED
    BY <2>2, <2>3
<1>4. ASSUME NEW a \in Agents, Take(a)
      PROVE  UNCHANGED Remote!queueVars
  <2>1. /\ bus[a] # Redis /\ UNCHANGED << bus, pushed, flight >>
        /\ queue'[Redis] = queue[Redis]
        /\ \A c \in Agents \ {a} : got'[c] = got[c]
    BY <1>4, BusFacts DEF Take, otherVars, BusInv, TypeOK
  <2>2. \A c \in Agents : GotFrom(Redis)'[c] = GotFrom(Redis)[c]
    BY <2>1 DEF GotFrom
  <2>3. QED
    BY <1>0, <2>1, <2>2 DEF Still, GotFrom
<1>5. ASSUME NEW a \in Agents, Serve(a)
      PROVE  Remote!Next
  <2>1. /\ queue[Redis] # << >> /\ flight[a] = << >>
        /\ flight' = [flight EXCEPT ![a] = << Head(queue[Redis]) >>]
        /\ queue'[Redis] = Tail(queue[Redis])
        /\ UNCHANGED << bus, got, pushed >>
    BY <1>5, BusFacts DEF Serve, otherVars, BusInv, TypeOK
  <2>2. Remote!Send
    BY <2>1, BusFacts, GotUnchanged DEF Remote!Send
  <2>3. QED
    BY <2>2 DEF Remote!Next
<1>6. ASSUME NEW a \in Agents, Arrive(a)
      PROVE  Remote!Next
  <2>1. /\ flight[a] # << >> /\ flight' = [flight EXCEPT ![a] = << >>]
        /\ UNCHANGED << bus, queue, pushed >> /\ bus[a] = Redis
    BY <1>6 DEF Arrive, otherVars, BusInv, FlightInv
  <2>2. CASE Head(flight[a]) \in Unreadable
    <3>1. Remote!Lose
      BY <1>6, <2>1, <2>2, BusFacts, GotUnchanged DEF Arrive, Remote!Lose
    <3>2. QED
      BY <3>1 DEF Remote!Next
  <2>3. CASE Head(flight[a]) \notin Unreadable
    <3>1. got' = [got EXCEPT ![a] = Append(@, Head(flight[a]))]
      BY <1>6, <2>3 DEF Arrive
    <3>2. Append(got[a], Head(flight[a])) = got[a] \o flight[a]
      <4>1. /\ got[a] \in Seq(Items) /\ flight[a] \in Seq(Items)
            /\ Len(flight[a]) = 1
        BY <2>1 DEF BusInv, TypeOK, FlightInv
      <4>2. PICK s \in Seq(Items), t \in Seq(Items) : s = got[a] /\ t = flight[a]
        BY <4>1
      <4>3. t # << >> /\ Len(t) = 1
        BY <2>1, <4>1, <4>2
      <4>4. Append(s, Head(t)) = s \o t
        BY <4>3, AppendOne
      <4>5. QED
        BY <4>2, <4>4
    <3>3. GotFrom(Redis)' = [GotFrom(Redis) EXCEPT ![a] = @ \o flight[a]]
      BY <2>1, <3>1, <3>2 DEF GotFrom, BusInv, TypeOK
    <3>4. Remote!Arrive
      BY <2>1, <3>3 DEF Remote!Arrive
    <3>5. QED
      BY <3>4 DEF Remote!Next
  <2>4. QED
    BY <2>2, <2>3
<1>7. ASSUME NEW a \in Agents, LosePop(a)
      PROVE  Remote!Next
  <2>1. /\ flight' = [flight EXCEPT ![a] = << >>]
        /\ UNCHANGED << bus, queue, got, pushed >>
    BY <1>7 DEF LosePop, otherVars
  <2>2. Remote!Lose
    BY <2>1, BusFacts, GotUnchanged DEF Remote!Lose
  <2>3. QED
    BY <2>2 DEF Remote!Next
<1>8. ASSUME ServeAbandoned
      PROVE  Remote!Next
  <2>1. /\ queue[Redis] # << >> /\ queue'[Redis] = Tail(queue[Redis])
        /\ UNCHANGED << bus, flight, got, pushed >>
    BY <1>8, BusFacts DEF ServeAbandoned, otherVars, BusInv, TypeOK
  <2>2. Remote!Lose
    BY <2>1, BusFacts, GotUnchanged DEF Remote!Lose
  <2>3. QED
    BY <2>2 DEF Remote!Next
<1>9. ASSUME NoticeAbandoned \/ UNCHANGED vars
      PROVE  UNCHANGED Remote!queueVars
  <2>1. UNCHANGED << bus, queue, flight, got, pushed >>
    BY <1>9 DEF NoticeAbandoned, otherVars, vars
  <2>2. QED
    BY <1>0, <2>1, BusFacts, GotUnchanged DEF Still
<1>10. QED
  BY <1>1, <1>2, <1>3, <1>4, <1>5, <1>6, <1>7, <1>8, <1>9 DEF Next

LEMMA StoreInit == ASSUME NEW s \in Stores PROVE Init => Store(s)!Init
BY BusFacts DEF Init, Store!Init, GotFrom, Range

LEMMA StoreStep ==
  ASSUME NEW s \in Stores
  PROVE  BusInv /\ [Next]_vars => Store(s)!Next \/ UNCHANGED Store(s)!queueVars
<1> SUFFICES ASSUME BusInv, [Next]_vars
             PROVE  Store(s)!Next \/ UNCHANGED Store(s)!queueVars
  OBVIOUS
<1> s \in Buses /\ s # Redis /\ s # NoBus
  BY BusFacts
<1>0. ASSUME Still(s)
      PROVE  UNCHANGED Store(s)!queueVars
  BY <1>0 DEF Still, Store!queueVars
<1>1. ASSUME NEW a \in Agents,
             \/ CreateBus(a) \/ Reply(a) \/ LoseReply(a) \/ Pop(a) \/ CancelTake(a)
             \/ \E kind \in {"task", "message"} : Send(a, kind)
             \/ Subscribe(a) \/ Hear(a) \/ LoseChannel(a) \/ Resubscribe(a)
             \/ Leave(a)
      PROVE  UNCHANGED Store(s)!queueVars
  BY <1>0, <1>1, QuietActions
<1>2. ASSUME NEW a \in Agents, NEW kind \in {"task", "message"}, Put(a, kind)
      PROVE  Store(s)!Next \/ UNCHANGED Store(s)!queueVars
  <2>1. /\ bus[a] \in Buses /\ UNCHANGED bus
        /\ Accept(bus[a], kind, issued + 1) /\ issued + 1 \in Items
    BY <1>2, BusFacts, IssuedGrows DEF Put, BusInv
  <2>2. CASE Still(s)
    BY <1>0, <2>2
  <2>3. CASE ~Still(s)
    <3>1. /\ queue'[s] = Append(queue[s], issued + 1)
          /\ Range(pushed'[s]) = Range(pushed[s]) \cup {issued + 1}
          /\ GotFrom(s)' = GotFrom(s)
      BY <2>1, <2>3, AcceptEffect
    <3>2. issued + 1 \notin Range(pushed[s])
      BY DEF BusInv, IssuedInv, TypeOK
    <3>3. Store(s)!Push
      BY <2>1, <3>1, <3>2 DEF Store!Push
    <3>4. QED
      BY <3>3 DEF Store!Next
  <2>4. QED
    BY <2>2, <2>3
<1>3. ASSUME NEW a \in Agents, Execute(a)
      PROVE  UNCHANGED Store(s)!queueVars
  <2>1. /\ command[a].item \in Items /\ UNCHANGED bus
        /\ Accept(Redis, command[a].kind, command[a].item)
    BY <1>3, BusAssumption DEF Execute, BusInv, IssuedInv, TypeOK, Items
  <2>2. QED
    BY <1>0, <2>1, BusFacts, AcceptEffect
<1>4. ASSUME NEW a \in Agents, Take(a)
      PROVE  Store(s)!Next \/ UNCHANGED Store(s)!queueVars
  <2>1. /\ bus[a] \in Stores /\ queue[bus[a]] # << >>
        /\ got' = [got EXCEPT ![a] = Append(@, Head(queue[bus[a]]))]
        /\ queue' = [queue EXCEPT ![bus[a]] = Tail(@)]
        /\ UNCHANGED << bus, pushed >>
    BY <1>4 DEF Take, otherVars
  <2>2. CASE bus[a] = s
    <3>1. GotFrom(s)' = [GotFrom(s) EXCEPT ![a] = Append(@, Head(queue[s]))]
      BY <2>1, <2>2 DEF GotFrom, BusInv, TypeOK
    <3>2. queue[s] # << >> /\ queue'[s] = Tail(queue[s])
      BY <2>1, <2>2 DEF BusInv, TypeOK
    <3>3. Store(s)!Pop
      BY <2>1, <3>1, <3>2 DEF Store!Pop
    <3>4. QED
      BY <3>3 DEF Store!Next
  <2>3. CASE bus[a] # s
    <3>1. queue'[s] = queue[s]
      BY <2>1, <2>3 DEF BusInv, TypeOK
    <3>2. \A c \in Agents : GotFrom(s)'[c] = GotFrom(s)[c]
      BY <2>1, <2>3 DEF GotFrom, BusInv, TypeOK
    <3>3. QED
      BY <1>0, <2>1, <3>1, <3>2 DEF Still, GotFrom
  <2>4. QED
    BY <2>2, <2>3
<1>5. ASSUME NEW a \in Agents, Serve(a) \/ LosePop(a)
      PROVE  UNCHANGED Store(s)!queueVars
  <2>1. UNCHANGED << bus, got, pushed >> /\ queue'[s] = queue[s]
    BY <1>5 DEF Serve, LosePop, otherVars, BusInv, TypeOK
  <2>2. QED
    BY <1>0, <2>1, GotUnchanged DEF Still
<1>6. ASSUME NEW a \in Agents, Arrive(a)
      PROVE  UNCHANGED Store(s)!queueVars
  <2>1. /\ bus[a] # s /\ UNCHANGED << bus, queue, pushed >>
        /\ \A c \in Agents \ {a} : got'[c] = got[c]
    BY <1>6 DEF Arrive, otherVars, BusInv, TypeOK, FlightInv
  <2>2. \A c \in Agents : GotFrom(s)'[c] = GotFrom(s)[c]
    BY <2>1 DEF GotFrom
  <2>3. QED
    BY <1>0, <2>1, <2>2 DEF Still, GotFrom
<1>7. ASSUME ServeAbandoned \/ NoticeAbandoned \/ UNCHANGED vars
      PROVE  UNCHANGED Store(s)!queueVars
  <2>1. UNCHANGED << bus, got, pushed >> /\ queue'[s] = queue[s]
    BY <1>7 DEF ServeAbandoned, NoticeAbandoned, otherVars, vars, BusInv, TypeOK
  <2>2. QED
    BY <1>0, <2>1, GotUnchanged DEF Still
<1>8. QED
  BY <1>1, <1>2, <1>3, <1>4, <1>5, <1>6, <1>7 DEF Next

-----------------------------------------------------------------------------
LEMMA BusInvariant == Spec => []BusInv
BY BusInit, BusStep, PTL DEF Spec

\* Types, for any number of agents, processes, items and faults (bus/).
THEOREM TypeCorrect == Spec => []TypeOK
<1>1. BusInv => TypeOK
  BY DEF BusInv
<1>2. QED
  BY <1>1, BusInvariant, PTL

\* RedisBus: push_task and pop_task are an unreliable queue; no fault makes it
\* hand one entry to two agents or pass a task over another.
THEOREM RedisImplemented == Spec => RedisIsQueue
<1>1. Spec => Remote!Spec
  BY RemoteInit, RemoteStep, BusInvariant, PTL DEF Spec, Remote!Spec
<1>2. QED
  BY <1>1 DEF RedisIsQueue

\* InMemoryBus: push_task and pop_task are a reliable FIFO queue for the agents
\* of a process, whatever those on other buses do.
THEOREM StoresImplemented == Spec => StoresAreQueues
<1>1. Init => \A s \in Stores : Store(s)!Init
  BY StoreInit
<1>2. BusInv /\ [Next]_vars =>
        [\A s \in Stores : Store(s)!Next \/ UNCHANGED Store(s)!queueVars]_vars
  BY StoreStep
<1>3. QED
  BY <1>1, <1>2, BusInvariant, PTL DEF Spec, StoresAreQueues

-----------------------------------------------------------------------------
(* What a sequence lacks of another.                                       *)

LEMMA LacksNothing ==
  ASSUME NEW T, NEW s \in Seq(T), NEW lost
  PROVE  Lacks(s, s, lost)
<1> DEFINE at == [i \in DOMAIN s |-> i]
<1>1. DOMAIN s \subseteq Nat
  OBVIOUS
<1>2. /\ at \in [DOMAIN s -> DOMAIN s]
      /\ \A i \in DOMAIN s : at[i] = i
  OBVIOUS
<1> HIDE DEF at
<1> QED
  BY <1>1, <1>2 DEF Lacks

\* What comes after is missing,
LEMMA LacksMore ==
  ASSUME NEW T, NEW s \in Seq(T), NEW t \in Seq(T), NEW e \in T, NEW lost,
         Lacks(s, t, lost), e \in lost
  PROVE  Lacks(s, Append(t, e), lost)
<1>1. PICK at \in [DOMAIN s -> DOMAIN t] :
        /\ \A i, j \in DOMAIN s : i < j => at[i] < at[j]
        /\ \A i \in DOMAIN s : s[i] = t[at[i]]
        /\ \A k \in DOMAIN t : t[k] \in lost \/ \E i \in DOMAIN s : at[i] = k
  BY DEF Lacks
<1>2. /\ DOMAIN Append(t, e) = DOMAIN t \cup {Len(t) + 1}
      /\ \A i \in DOMAIN t : Append(t, e)[i] = t[i]
      /\ Append(t, e)[Len(t) + 1] = e
  OBVIOUS
<1>3. /\ at \in [DOMAIN s -> DOMAIN Append(t, e)]
      /\ \A i \in DOMAIN s : s[i] = Append(t, e)[at[i]]
      /\ \A k \in DOMAIN Append(t, e) :
           Append(t, e)[k] \in lost \/ \E i \in DOMAIN s : at[i] = k
  BY <1>1, <1>2
<1> QED
  BY <1>1, <1>3 DEF Lacks

\* or is not.
LEMMA LacksNoMore ==
  ASSUME NEW T, NEW s \in Seq(T), NEW t \in Seq(T), NEW e \in T, NEW lost,
         Lacks(s, t, lost)
  PROVE  Lacks(Append(s, e), Append(t, e), lost)
<1>1. PICK at \in [DOMAIN s -> DOMAIN t] :
        /\ \A i, j \in DOMAIN s : i < j => at[i] < at[j]
        /\ \A i \in DOMAIN s : s[i] = t[at[i]]
        /\ \A k \in DOMAIN t : t[k] \in lost \/ \E i \in DOMAIN s : at[i] = k
  BY DEF Lacks
<1>2. PICK m \in Nat, n \in Nat : m = Len(s) /\ n = Len(t)
  OBVIOUS
<1>3. /\ DOMAIN s = 1..m /\ DOMAIN Append(s, e) = 1..(m + 1)
      /\ \A i \in 1..m : Append(s, e)[i] = s[i]
      /\ Append(s, e)[m + 1] = e
  BY <1>2
<1>4. /\ DOMAIN t = 1..n /\ DOMAIN Append(t, e) = 1..(n + 1)
      /\ \A i \in 1..n : Append(t, e)[i] = t[i]
      /\ Append(t, e)[n + 1] = e
  BY <1>2
<1> DEFINE more == [i \in 1..(m + 1) |-> IF i = m + 1 THEN n + 1 ELSE at[i]]
<1>5. \A i \in 1..m : at[i] \in 1..n
  BY <1>1, <1>3, <1>4
<1>6. more \in [1..(m + 1) -> 1..(n + 1)]
  <2>1. ASSUME NEW i \in 1..(m + 1)
        PROVE  (IF i = m + 1 THEN n + 1 ELSE at[i]) \in 1..(n + 1)
    BY <1>5
  <2> QED
    BY <2>1
<1>7. /\ more[m + 1] = n + 1
      /\ \A i \in 1..m : more[i] = at[i]
  OBVIOUS
<1> HIDE DEF more
<1>8. ASSUME NEW i \in 1..(m + 1), NEW j \in 1..(m + 1), i < j
      PROVE  more[i] < more[j]
  <2>1. i \in 1..m /\ more[i] = at[i] /\ at[i] \in 1..n
    BY <1>5, <1>7, <1>8
  <2>2. CASE j = m + 1
    BY <1>7, <2>1, <2>2
  <2>3. CASE j # m + 1
    <3>1. j \in 1..m /\ more[j] = at[j]
      BY <1>7, <2>3
    <3>2. at[i] < at[j]
      BY <1>1, <1>3, <1>8, <2>1, <3>1
    <3> QED
      BY <2>1, <3>1, <3>2
  <2> QED
    BY <2>2, <2>3
<1>9. ASSUME NEW i \in 1..(m + 1)
      PROVE  Append(s, e)[i] = Append(t, e)[more[i]]
  <2>1. CASE i = m + 1
    BY <1>3, <1>4, <1>7, <2>1
  <2>2. CASE i # m + 1
    <3>1. i \in 1..m /\ more[i] = at[i] /\ at[i] \in 1..n
      BY <1>5, <1>7, <2>2
    <3>2. Append(s, e)[i] = s[i] /\ Append(t, e)[at[i]] = t[at[i]]
      BY <1>3, <1>4, <3>1
    <3> QED
      BY <1>1, <1>3, <3>1, <3>2
  <2> QED
    BY <2>1, <2>2
<1>10. more \in [DOMAIN Append(s, e) -> DOMAIN Append(t, e)]
  BY <1>3, <1>4, <1>6
<1>11. ASSUME NEW k \in 1..(n + 1)
       PROVE  \/ Append(t, e)[k] \in lost
              \/ \E i \in DOMAIN Append(s, e) : more[i] = k
  <2>1. CASE k = n + 1
    BY <1>3, <1>7, <2>1
  <2>2. CASE k # n + 1
    <3>1. k \in 1..n
      BY <2>2
    <3>2. CASE t[k] \in lost
      BY <1>4, <3>1, <3>2
    <3>3. CASE \E i \in DOMAIN s : at[i] = k
      <4>1. PICK i \in 1..m : at[i] = k
        BY <1>3, <3>3
      <4>2. i \in DOMAIN Append(s, e) /\ more[i] = k
        BY <1>3, <1>7, <4>1
      <4> QED
        BY <4>2
    <3> QED
      BY <1>1, <1>4, <3>1, <3>2, <3>3
  <2> QED
    BY <2>1, <2>2
<1> QED
  BY <1>3, <1>4, <1>8, <1>9, <1>10, <1>11 DEF Lacks

\* A front lacks whatever there is.
LEMMA LacksRest ==
  ASSUME NEW T, NEW s \in Seq(T), NEW u \in Seq(T), NEW t \in Seq(T), NEW lost,
         Lacks(Join(s, u), t, lost)
  PROVE  Lacks(s, t, T)
<1>1. PICK at \in [DOMAIN Join(s, u) -> DOMAIN t] :
        /\ \A i, j \in DOMAIN Join(s, u) : i < j => at[i] < at[j]
        /\ \A i \in DOMAIN Join(s, u) : Join(s, u)[i] = t[at[i]]
  BY DEF Lacks
<1>2. /\ DOMAIN s \subseteq DOMAIN Join(s, u)
      /\ \A i \in DOMAIN s : Join(s, u)[i] = s[i]
  BY DEF Join
<1> DEFINE front == [i \in DOMAIN s |-> at[i]]
<1>3. /\ front \in [DOMAIN s -> DOMAIN t]
      /\ \A i \in DOMAIN s : front[i] = at[i]
  BY <1>2
<1> HIDE DEF front
<1>4. ASSUME NEW i \in DOMAIN s, NEW j \in DOMAIN s, i < j
      PROVE  front[i] < front[j]
  <2>1. at[i] < at[j]
    BY <1>1, <1>2, <1>4
  <2> QED
    BY <1>3, <2>1
<1>5. ASSUME NEW i \in DOMAIN s
      PROVE  s[i] = t[front[i]]
  BY <1>1, <1>2, <1>3
<1>6. \A k \in DOMAIN t : t[k] \in T
  OBVIOUS
<1> QED
  BY <1>3, <1>4, <1>5, <1>6 DEF Lacks

\* One element is taken out of the middle.
LEMMA LacksOneMore ==
  ASSUME NEW T, NEW s \in Seq(T), NEW u \in Seq(T), NEW t \in Seq(T), NEW lost,
         u # << >>, Head(u) \in lost, Lacks(Join(s, u), t, lost)
  PROVE  Lacks(Join(s, Tail(u)), t, lost)
<1>1. PICK at \in [DOMAIN Join(s, u) -> DOMAIN t] :
        /\ \A i, j \in DOMAIN Join(s, u) : i < j => at[i] < at[j]
        /\ \A i \in DOMAIN Join(s, u) : Join(s, u)[i] = t[at[i]]
        /\ \A k \in DOMAIN t :
             t[k] \in lost \/ \E i \in DOMAIN Join(s, u) : at[i] = k
  BY DEF Lacks
<1>2. PICK m \in Nat, n \in Nat : m = Len(s) /\ n = Len(u)
  OBVIOUS
<1>3. /\ n >= 1 /\ Tail(u) \in Seq(T) /\ Len(Tail(u)) = n - 1
      /\ Head(u) = u[1] /\ \A i \in 1..(n - 1) : Tail(u)[i] = u[i + 1]
  BY <1>2
<1>4. /\ DOMAIN Join(s, u) = 1..(m + n)
      /\ \A i \in 1..m : Join(s, u)[i] = s[i]
      /\ \A i \in 1..n : Join(s, u)[m + i] = u[i]
  BY <1>2 DEF Join
<1>5. /\ DOMAIN Join(s, Tail(u)) = 1..((m + n) - 1)
      /\ \A i \in 1..m : Join(s, Tail(u))[i] = s[i]
      /\ \A i \in 1..(n - 1) : Join(s, Tail(u))[m + i] = u[i + 1]
  BY <1>2, <1>3 DEF Join
<1> DEFINE Skip(i) == IF i <= m THEN i ELSE i + 1
<1>6. ASSUME NEW i \in 1..((m + n) - 1)
      PROVE  /\ Skip(i) \in 1..(m + n)
             /\ Join(s, Tail(u))[i] = Join(s, u)[Skip(i)]
  <2>1. CASE i <= m
    BY <1>3, <1>4, <1>5, <2>1
  <2>2. CASE i > m
    <3>1. PICK j \in 1..(n - 1) : i = m + j
      <4>1. i - m \in 1..(n - 1) /\ i = m + (i - m)
        BY <2>2
      <4> QED
        BY <4>1
    <3>2. Join(s, Tail(u))[m + j] = u[j + 1] /\ j + 1 \in 1..n
      BY <1>5, <3>1
    <3>3. Join(s, u)[m + (j + 1)] = u[j + 1] /\ m + (j + 1) = i + 1
      BY <1>4, <3>1, <3>2
    <3> QED
      BY <2>2, <3>1, <3>2, <3>3
  <2> QED
    BY <2>1, <2>2
<1> DEFINE less == [i \in 1..((m + n) - 1) |-> at[Skip(i)]]
<1>7. /\ less \in [DOMAIN Join(s, Tail(u)) -> DOMAIN t]
      /\ \A i \in 1..((m + n) - 1) : less[i] = at[Skip(i)]
  BY <1>1, <1>4, <1>5, <1>6
<1> HIDE DEF less
<1>8. ASSUME NEW i \in 1..((m + n) - 1), NEW j \in 1..((m + n) - 1), i < j
      PROVE  less[i] < less[j]
  <2>1. Skip(i) < Skip(j) /\ Skip(i) \in 1..(m + n) /\ Skip(j) \in 1..(m + n)
    BY <1>6, <1>8
  <2>2. at[Skip(i)] < at[Skip(j)]
    BY <1>1, <1>4, <2>1
  <2> QED
    BY <1>7, <2>2
<1>9. ASSUME NEW i \in 1..((m + n) - 1)
      PROVE  Join(s, Tail(u))[i] = t[less[i]]
  <2>1. Skip(i) \in DOMAIN Join(s, u) /\ less[i] = at[Skip(i)]
    BY <1>4, <1>6, <1>7
  <2>2. Join(s, u)[Skip(i)] = t[at[Skip(i)]]
    BY <1>1, <2>1
  <2> QED
    BY <1>6, <2>1, <2>2
<1>10. ASSUME NEW k \in DOMAIN t, t[k] \notin lost
       PROVE  \E i \in 1..((m + n) - 1) : less[i] = k
  <2>1. PICK i \in 1..(m + n) : at[i] = k
    BY <1>1, <1>4, <1>10
  <2>2. i # m + 1
    <3>1. Join(s, u)[m + 1] = Head(u) /\ m + 1 \in DOMAIN Join(s, u)
      BY <1>3, <1>4
    <3> QED
      BY <1>1, <1>10, <2>1, <3>1
  <2>3. CASE i <= m
    <3>1. i \in 1..((m + n) - 1) /\ Skip(i) = i
      BY <1>3, <2>3
    <3> QED
      BY <1>7, <2>1, <3>1
  <2>4. CASE i > m + 1
    <3>1. i - 1 \in 1..((m + n) - 1) /\ Skip(i - 1) = i
      BY <2>4
    <3> QED
      BY <1>7, <2>1, <3>1
  <2> QED
    BY <2>2, <2>3, <2>4
<1>11. PICK v : v = Join(s, Tail(u))
  OBVIOUS
<1>12. /\ DOMAIN v = 1..((m + n) - 1) /\ less \in [DOMAIN v -> DOMAIN t]
       /\ \A i \in DOMAIN v : v[i] = t[less[i]]
  BY <1>5, <1>7, <1>9, <1>11
<1>13. Lacks(v, t, lost)
  <2>1. \A i, j \in DOMAIN v : i < j => less[i] < less[j]
    BY <1>8, <1>12
  <2>2. \A k \in DOMAIN t : t[k] \in lost \/ \E i \in DOMAIN v : less[i] = k
    BY <1>10, <1>12
  <2> QED
    BY <1>12, <2>1, <2>2, Zenon DEF Lacks
<1> QED
  BY <1>11, <1>13

-----------------------------------------------------------------------------
(* Subscriptions.                                                          *)

Listening(a) == op[a] \in {"sub", "away"}

Yielded(a) == Join(heard[a], inbox[a])

DueFor(a) == SubSeq(posted[bus[a]], since[a] + 1, Len(posted[bus[a]]))

\* What it need not yield.
Spared(a) == IF gap[a] THEN Items ELSE Dropped(bus[a])

\* What SubscribersHear says of an agent, and that nothing is left of a
\* subscription that has ended.
Hearing(a) ==
  /\ ~Listening(a) => inbox[a] = << >> /\ heard[a] = << >> /\ ~gap[a]
  /\ op[a] = "away" => gap[a]
  /\ Listening(a) => /\ bus[a] \in Buses
                     /\ since[a] <= Len(posted[bus[a]])
                     /\ Lacks(Yielded(a), DueFor(a), Spared(a))
                     /\ Range(heard[a]) \cap Dropped(bus[a]) = {}

HearingInv == \A a \in Agents : Hearing(a)

\* One more message after the first n.
LEMMA RestOfMore ==
  ASSUME NEW T, NEW s \in Seq(T), NEW n \in Nat, n <= Len(s), NEW e \in T
  PROVE  /\ SubSeq(Append(s, e), n + 1, Len(Append(s, e)))
              = Append(SubSeq(s, n + 1, Len(s)), e)
         /\ SubSeq(s, n + 1, Len(s)) \in Seq(T)
<1>1. PICK m \in Nat : m = Len(s)
  OBVIOUS
<1>2. PICK r \in Seq(T) : r = SubSeq(s, n + 1, Len(s))
  <2>1. SubSeq(s, n + 1, Len(s)) \in Seq(T)
    OBVIOUS
  <2> QED
    BY <2>1, Zenon
<1>3. Len(r) = m - n /\ \A i \in 1..(m - n) : r[i] = s[n + i]
  BY <1>1, <1>2
<1>4. PICK t \in Seq(T) : t = Append(s, e)
  <2>1. Append(s, e) \in Seq(T)
    OBVIOUS
  <2> QED
    BY <2>1, Zenon
<1>5. /\ Len(t) = m + 1 /\ t[m + 1] = e
      /\ \A i \in 1..m : t[i] = s[i]
  BY <1>1, <1>4
<1>6. /\ SubSeq(t, n + 1, Len(t)) \in Seq(T)
      /\ Len(SubSeq(t, n + 1, Len(t))) = (m - n) + 1
      /\ \A i \in 1..((m - n) + 1) : SubSeq(t, n + 1, Len(t))[i] = t[n + i]
  BY <1>1, <1>5
<1>7. /\ Append(r, e) \in Seq(T) /\ Len(Append(r, e)) = (m - n) + 1
      /\ Append(r, e)[(m - n) + 1] = e
      /\ \A i \in 1..(m - n) : Append(r, e)[i] = r[i]
  BY <1>1, <1>3
<1>8. ASSUME NEW i \in 1..((m - n) + 1)
      PROVE  SubSeq(t, n + 1, Len(t))[i] = Append(r, e)[i]
  <2>1. CASE i = (m - n) + 1
    <3>1. n + i = m + 1
      BY <1>1, <2>1
    <3> QED
      BY <1>5, <1>6, <1>7, <2>1, <3>1
  <2>2. CASE i # (m - n) + 1
    <3>1. i \in 1..(m - n) /\ n + i \in 1..m
      BY <1>1, <2>2
    <3> QED
      BY <1>3, <1>5, <1>6, <1>7, <3>1
  <2> QED
    BY <2>1, <2>2
<1>9. SubSeq(t, n + 1, Len(t)) = Append(r, e)
  BY <1>6, <1>7, <1>8, SameSequence
<1> QED
  BY <1>2, <1>4, <1>9

\* An element more at the end, and one that changes over.
LEMMA JoinSteps ==
  ASSUME NEW T, NEW x \in Seq(T), NEW y \in Seq(T)
  PROVE  /\ Join(x, y) \in Seq(T)
         /\ \A e \in T : Join(x, Append(y, e)) = Append(Join(x, y), e)
         /\ y # << >> => Join(Append(x, Head(y)), Tail(y)) = Join(x, y)
<1>1. Join(x, y) \in Seq(T)
  BY DEF Join
<1>2. ASSUME NEW e \in T
      PROVE  Join(x, Append(y, e)) = Append(Join(x, y), e)
  BY DEF Join
<1>3. ASSUME y # << >>
      PROVE  Join(Append(x, Head(y)), Tail(y)) = Join(x, y)
  <2>1. PICK h \in T, t \in Seq(T) : h = Head(y) /\ t = Tail(y)
    <3>1. Head(y) \in T /\ Tail(y) \in Seq(T)
      BY <1>3
    <3> QED
      BY <3>1, Zenon
  <2>2. PICK one \in Seq(T) : one = << h >>
    <3>1. << h >> \in Seq(T)
      OBVIOUS
    <3> QED
      BY <3>1, Zenon
  <2>3. Join(one, t) = y
    BY <1>3, <2>1, <2>2 DEF Join
  <2>4. Join(x, one) = Append(x, h)
    BY <2>2 DEF Join
  <2>5. Join(Join(x, one), t) = Join(x, Join(one, t))
    BY Associative
  <2> QED
    BY <2>1, <2>3, <2>4, <2>5
<1> QED
  BY <1>1, <1>2, <1>3

LEMMA HearingStays ==
  ASSUME NEW a \in Agents, Hearing(a),
         op'[a] = op[a], bus'[a] = bus[a], inbox'[a] = inbox[a],
         heard'[a] = heard[a], since'[a] = since[a], gap'[a] = gap[a],
         posted'[bus[a]] = posted[bus[a]]
  PROVE  Hearing(a)'
BY DEF Hearing, Listening, Yielded, DueFor, Spared

LEMMA SilenceStays ==
  ASSUME NEW a \in Agents, Hearing(a), ~Listening(a), ~Listening(a)',
         inbox'[a] = inbox[a], heard'[a] = heard[a], gap'[a] = gap[a]
  PROVE  Hearing(a)'
BY DEF Hearing, Listening

\* Nothing that is said, and nobody who begins or stops to listen.
LEMMA NothingSaid ==
  ASSUME HearingInv, UNCHANGED channelVars,
         \A a \in Agents : \/ op'[a] = op[a] /\ bus'[a] = bus[a]
                           \/ ~Listening(a) /\ ~Listening(a)'
  PROVE  HearingInv'
<1> SUFFICES ASSUME NEW a \in Agents
             PROVE  Hearing(a)'
  BY DEF HearingInv
<1>1. CASE op'[a] = op[a] /\ bus'[a] = bus[a]
  BY <1>1, HearingStays DEF HearingInv, channelVars
<1>2. CASE ~Listening(a) /\ ~Listening(a)'
  BY <1>2, SilenceStays DEF HearingInv, channelVars
<1> QED
  BY <1>1, <1>2

\* A message reaches those who listen on its bus and are not away.
LEMMA MessageHeard ==
  ASSUME TypeOK, NEW a \in Agents, Hearing(a), Listening(a),
         NEW item \in Items, UNCHANGED << bus, heard, since, gap >>,
         op'[a] = op[a],
         inbox'[a] = IF op[a] = "sub" THEN Append(inbox[a], item) ELSE inbox[a],
         posted'[bus[a]] = Append(posted[bus[a]], item)
  PROVE  Hearing(a)'
<1>1. /\ heard[a] \in Seq(Items) /\ inbox[a] \in Seq(Items)
      /\ since[a] \in Nat /\ bus[a] \in Buses
      /\ posted[bus[a]] \in Seq(Items) /\ since[a] <= Len(posted[bus[a]])
      /\ Lacks(Yielded(a), DueFor(a), Spared(a)) /\ Spared(a)' = Spared(a)
  BY DEF TypeOK, Hearing, Spared
<1>2. DueFor(a)' = Append(DueFor(a), item) /\ DueFor(a) \in Seq(Items)
  <2>1. DueFor(a)' = SubSeq(Append(posted[bus[a]], item), since[a] + 1,
                            Len(Append(posted[bus[a]], item)))
    BY DEF DueFor
  <2>2. PICK p \in Seq(Items), n \in Nat : p = posted[bus[a]] /\ n = since[a]
    BY <1>1
  <2>3. n <= Len(p)
    BY <1>1, <2>2
  <2>4. /\ SubSeq(Append(p, item), n + 1, Len(Append(p, item)))
             = Append(SubSeq(p, n + 1, Len(p)), item)
        /\ SubSeq(p, n + 1, Len(p)) \in Seq(Items)
    BY <2>3, RestOfMore
  <2> QED
    BY <2>1, <2>2, <2>4 DEF DueFor
<1>3. Yielded(a) \in Seq(Items)
  BY <1>1, JoinSteps DEF Yielded
<1>4. /\ Listening(a)' /\ bus'[a] \in Buses
      /\ op'[a] = "away" => gap'[a]
      /\ since'[a] <= Len(posted'[bus'[a]])
      /\ Range(heard'[a]) \cap Dropped(bus'[a]) = {}
  <2>1. Len(Append(posted[bus[a]], item)) = Len(posted[bus[a]]) + 1
    BY <1>1
  <2>2. bus'[a] = bus[a] /\ since'[a] = since[a] /\ gap'[a] = gap[a]
    OBVIOUS
  <2>3. Len(posted[bus[a]]) \in Nat
    BY <1>1
  <2>4. since'[a] <= Len(posted'[bus'[a]])
    BY <1>1, <2>1, <2>2, <2>3
  <2> QED
    BY <1>1, <2>2, <2>4 DEF Hearing, Listening
<1>5. CASE op[a] = "sub"
  <2>1. Yielded(a)' = Append(Yielded(a), item)
    <3>1. PICK h \in Seq(Items), i \in Seq(Items) : h = heard[a] /\ i = inbox[a]
      BY <1>1
    <3>2. Join(h, Append(i, item)) = Append(Join(h, i), item)
      BY JoinSteps
    <3>3. heard'[a] = h /\ inbox'[a] = Append(i, item)
      BY <1>5, <3>1
    <3> QED
      BY <3>1, <3>2, <3>3 DEF Yielded
  <2>2. Lacks(Append(Yielded(a), item), Append(DueFor(a), item), Spared(a))
    BY <1>1, <1>2, <1>3, LacksNoMore
  <2> QED
    BY <1>1, <1>2, <1>4, <2>1, <2>2 DEF Hearing
<1>6. CASE op[a] # "sub"
  <2>1. Yielded(a)' = Yielded(a)
    BY <1>6 DEF Yielded
  <2>2. Spared(a) = Items
    BY <1>6 DEF Hearing, Listening, Spared
  <2>3. Lacks(Yielded(a), Append(DueFor(a), item), Spared(a))
    BY <1>1, <1>2, <1>3, <2>2, LacksMore
  <2> QED
    BY <1>1, <1>2, <1>4, <2>1, <2>3 DEF Hearing
<1> QED
  BY <1>5, <1>6

LEMMA AcceptHeard ==
  ASSUME TypeOK, HearingInv, NEW b \in Buses, NEW kind, NEW item \in Items,
         Accept(b, kind, item), UNCHANGED bus,
         \A a \in Agents : op'[a] = op[a] \/ (~Listening(a) /\ ~Listening(a)')
  PROVE  HearingInv'
<1>1. CASE kind = "task"
  BY <1>1, NothingSaid DEF Accept
<1>2. CASE kind # "task"
  <2>1. /\ inbox' = [a \in Agents |-> IF a \in Subscribers(b)
                        THEN Append(inbox[a], item) ELSE inbox[a]]
        /\ posted' = [posted EXCEPT ![b] = Append(@, item)]
        /\ UNCHANGED << heard, since, gap >>
    BY <1>2 DEF Accept
  <2> SUFFICES ASSUME NEW a \in Agents
               PROVE  Hearing(a)'
    BY DEF HearingInv
  <2>2. Hearing(a)
    BY DEF HearingInv
  <2>3. CASE ~Listening(a)
    <3>1. inbox'[a] = inbox[a]
      BY <2>1, <2>3 DEF Subscribers, Listening
    <3>2. ~Listening(a)'
      BY <2>3 DEF Listening
    <3> QED
      BY <2>1, <2>2, <2>3, <3>1, <3>2, SilenceStays
  <2>4. CASE Listening(a) /\ bus[a] # b
    <3>1. inbox'[a] = inbox[a] /\ op'[a] = op[a]
      BY <2>1, <2>4 DEF Subscribers
    <3>2. posted'[bus[a]] = posted[bus[a]]
      BY <2>1, <2>4 DEF TypeOK, Hearing
    <3> QED
      BY <2>1, <2>2, <3>1, <3>2, HearingStays
  <2>5. CASE Listening(a) /\ bus[a] = b
    <3>1. inbox'[a] = IF op[a] = "sub" THEN Append(inbox[a], item) ELSE inbox[a]
      BY <2>1, <2>5 DEF Subscribers
    <3>2. posted'[bus[a]] = Append(posted[bus[a]], item) /\ op'[a] = op[a]
      BY <2>1, <2>5 DEF TypeOK
    <3> QED
      BY <2>1, <2>2, <2>5, <3>1, <3>2, MessageHeard
  <2> QED
    BY <2>3, <2>4, <2>5
<1> QED
  BY <1>1, <1>2

LEMMA SubscribeHears ==
  ASSUME TypeOK, NEW a \in Agents, Hearing(a), Subscribe(a)
  PROVE  Hearing(a)'
<1>1. /\ bus[a] \in Buses /\ bus'[a] = bus[a] /\ op'[a] = "sub" /\ ~Listening(a)
      /\ since'[a] = Len(posted[bus[a]]) /\ posted' = posted
      /\ UNCHANGED << inbox, heard, gap >>
  BY DEF Subscribe, TypeOK, Listening
<1>2. inbox[a] = << >> /\ heard[a] = << >> /\ ~gap[a]
  BY <1>1 DEF Hearing
<1>3. PICK all \in Seq(Items) : all = posted[bus[a]]
  BY <1>1 DEF TypeOK
<1>4. SubSeq(all, Len(all) + 1, Len(all)) = << >>
  BY <1>3
<1>5. DueFor(a)' = << >>
  BY <1>1, <1>3, <1>4 DEF DueFor
<1>6. PICK none \in Seq(Items) : none = << >>
  <2>1. << >> \in Seq(Items)
    OBVIOUS
  <2> QED
    BY <2>1, Zenon
<1>7. Yielded(a)' = << >>
  BY <1>1, <1>2, <1>6, EmptyNeutral DEF Yielded
<1>8. since'[a] <= Len(posted'[bus'[a]])
  BY <1>1, <1>3
<1>9. Lacks(Yielded(a)', DueFor(a)', Spared(a)')
  BY <1>5, <1>6, <1>7, LacksNothing
<1>10. Range(heard'[a]) = {}
  BY <1>1, <1>2 DEF Range
<1> QED
  BY <1>1, <1>2, <1>8, <1>9, <1>10 DEF Hearing, Listening

LEMMA HearHears ==
  ASSUME TypeOK, NEW a \in Agents, Hearing(a), Hear(a)
  PROVE  Hearing(a)'
<1>1. /\ heard[a] \in Seq(Items) /\ inbox[a] \in Seq(Items) /\ inbox[a] # << >>
      /\ inbox'[a] = Tail(inbox[a])
      /\ UNCHANGED << op, bus, posted, since, gap >> /\ op[a] = "sub"
  BY DEF TypeOK, Hear
<1>2. /\ DueFor(a)' = DueFor(a) /\ Spared(a)' = Spared(a)
      /\ Lacks(Yielded(a), DueFor(a), Spared(a))
      /\ Range(heard[a]) \cap Dropped(bus[a]) = {}
  BY <1>1 DEF Hearing, Listening, DueFor, Spared
<1>3. PICK h \in Seq(Items), i \in Seq(Items), m \in Items :
        h = heard[a] /\ i = inbox[a] /\ m = Head(i)
  <2>1. Head(inbox[a]) \in Items
    BY <1>1
  <2> QED
    BY <1>1, <2>1
<1>4. i # << >> /\ inbox'[a] = Tail(i)
  BY <1>1, <1>3
<1>5. CASE m \notin Dropped(bus[a])
  <2>1. heard'[a] = Append(h, m)
    BY <1>3, <1>5 DEF Hear, TypeOK
  <2>2. Join(Append(h, Head(i)), Tail(i)) = Join(h, i)
    BY <1>4, JoinSteps
  <2>3. Yielded(a)' = Yielded(a)
    BY <1>1, <1>3, <2>1, <2>2 DEF Yielded
  <2>4. Range(heard'[a]) \cap Dropped(bus[a]) = {}
    BY <1>2, <1>3, <1>5, <2>1, RangeOfAppend
  <2> QED
    BY <1>1, <1>2, <2>3, <2>4 DEF Hearing, Listening
<1>6. CASE m \in Dropped(bus[a])
  <2>1. heard'[a] = h
    BY <1>3, <1>6 DEF Hear
  <2>2. m \in Spared(a)
    BY <1>6 DEF Spared
  <2>3. PICK due \in Seq(Items) : due = DueFor(a)
    <3>1. posted[bus[a]] \in Seq(Items) /\ since[a] \in Nat
      BY <1>1 DEF TypeOK, Hearing, Listening
    <3>2. DueFor(a) \in Seq(Items)
      BY <3>1 DEF DueFor
    <3> QED
      BY <3>2, Zenon
  <2>4. Lacks(Join(h, Tail(i)), due, Spared(a))
    BY <1>2, <1>3, <1>4, <2>2, <2>3, LacksOneMore DEF Yielded
  <2> QED
    BY <1>1, <1>2, <1>3, <1>4, <2>1, <2>3, <2>4 DEF Hearing, Listening, Yielded
<1> QED
  BY <1>5, <1>6

\* What was on the way is lost: what was heard is a part of what is due.
LEMMA LoseChannelHears ==
  ASSUME TypeOK, NEW a \in Agents, Hearing(a), LoseChannel(a)
  PROVE  Hearing(a)'
<1>1. /\ heard[a] \in Seq(Items) /\ inbox[a] \in Seq(Items)
      /\ inbox'[a] = << >> /\ gap'[a] = TRUE /\ op'[a] = "away" /\ op[a] = "sub"
      /\ UNCHANGED << bus, heard, posted, since >>
  BY DEF TypeOK, LoseChannel
<1>2. /\ bus[a] \in Buses /\ posted[bus[a]] \in Seq(Items) /\ since[a] \in Nat
      /\ since[a] <= Len(posted[bus[a]])
      /\ Lacks(Yielded(a), DueFor(a), Spared(a))
      /\ Range(heard[a]) \cap Dropped(bus[a]) = {}
  BY <1>1 DEF TypeOK, Hearing, Listening
<1>3. DueFor(a) \in Seq(Items) /\ Yielded(a) \in Seq(Items)
  <2>1. DueFor(a) \in Seq(Items)
    BY <1>2 DEF DueFor
  <2>2. Yielded(a) \in Seq(Items)
    BY <1>1, JoinSteps DEF Yielded
  <2> QED
    BY <2>1, <2>2
<1>4. Spared(a)' = Items
  BY <1>1 DEF Spared
<1>5. Lacks(heard[a], DueFor(a), Items)
  BY <1>1, <1>2, <1>3, LacksRest DEF Yielded
<1>6. Yielded(a)' = heard[a] /\ DueFor(a)' = DueFor(a)
  <2>1. Join(heard[a], << >>) = heard[a]
    BY <1>1, EmptyNeutral
  <2> QED
    BY <1>1, <2>1 DEF Yielded, DueFor
<1>7. Lacks(Yielded(a)', DueFor(a)', Spared(a)')
  BY <1>4, <1>5, <1>6
<1> QED
  BY <1>1, <1>2, <1>7 DEF Hearing, Listening

LEMMA LeaveHears ==
  ASSUME TypeOK, NEW a \in Agents, Hearing(a), Leave(a)
  PROVE  Hearing(a)'
BY DEF TypeOK, Hearing, Listening, Leave

\* A step of one agent's subscription concerns no other agent.
LEMMA OthersHear ==
  ASSUME TypeOK, HearingInv, NEW a \in Agents,
         Subscribe(a) \/ Hear(a) \/ LoseChannel(a) \/ Leave(a)
  PROVE  \A c \in Agents \ {a} : Hearing(c)'
<1> SUFFICES ASSUME NEW c \in Agents \ {a}
             PROVE  Hearing(c)'
  OBVIOUS
<1>1. /\ op'[c] = op[c] /\ inbox'[c] = inbox[c] /\ heard'[c] = heard[c]
      /\ since'[c] = since[c] /\ gap'[c] = gap[c]
      /\ UNCHANGED << bus, posted >>
  BY DEF TypeOK, Subscribe, Hear, LoseChannel, Leave
<1> QED
  BY <1>1, HearingStays DEF HearingInv

LEMMA HearingStep == BusInv /\ HearingInv /\ [Next]_vars => HearingInv'
<1> SUFFICES ASSUME BusInv, HearingInv, [Next]_vars
             PROVE  HearingInv'
  OBVIOUS
<1>1. TypeOK
  BY DEF BusInv
<1>2. ASSUME NEW a \in Agents,
             Subscribe(a) \/ Hear(a) \/ LoseChannel(a) \/ Leave(a)
      PROVE  HearingInv'
  <2>1. Hearing(a)'
    BY <1>1, <1>2, SubscribeHears, HearHears, LoseChannelHears, LeaveHears
    DEF HearingInv
  <2> QED
    BY <1>1, <1>2, <2>1, OthersHear DEF HearingInv
<1>3. ASSUME NEW a \in Agents, NEW kind, Put(a, kind)
      PROVE  HearingInv'
  <2>1. /\ bus[a] \in Buses /\ UNCHANGED << bus, op >>
        /\ Accept(bus[a], kind, issued + 1) /\ issued + 1 \in Items
    BY <1>1, <1>3, BusFacts, IssuedGrows DEF Put
  <2>2. PICK b \in Buses, item \in Items : b = bus[a] /\ item = issued + 1
    BY <2>1
  <2>3. Accept(b, kind, item)
    BY <2>1, <2>2
  <2>4. \A c \in Agents : op'[c] = op[c] \/ (~Listening(c) /\ ~Listening(c)')
    BY <2>1
  <2> QED
    BY <1>1, <2>1, <2>3, <2>4, AcceptHeard
<1>4. ASSUME NEW a \in Agents, Execute(a)
      PROVE  HearingInv'
  <2>1. command[a].item \in Items /\ UNCHANGED bus
    BY <1>1, <1>4 DEF Execute, BusInv, IssuedInv, TypeOK, Items
  <2>2. Accept(Redis, command[a].kind, command[a].item)
    BY <1>4 DEF Execute
  <2>3. \A c \in Agents : op'[c] = op[c] \/ (~Listening(c) /\ ~Listening(c)')
    BY <1>1, <1>4 DEF Execute, TypeOK, Listening
  <2> QED
    BY <1>1, <2>1, <2>2, <2>3, BusFacts, AcceptHeard
<1>5. ASSUME NEW a \in Agents, Resubscribe(a)
      PROVE  HearingInv'
  <2>1. /\ UNCHANGED << bus, channelVars >> /\ op[a] = "away" /\ op'[a] = "sub"
        /\ \A c \in Agents \ {a} : op'[c] = op[c]
    BY <1>1, <1>5 DEF Resubscribe, TypeOK
  <2>2. Hearing(a)'
    BY <2>1 DEF HearingInv, Hearing, Listening, Yielded, DueFor, Spared, channelVars
  <2>3. ASSUME NEW c \in Agents \ {a}
        PROVE  Hearing(c)'
    BY <2>1, HearingStays DEF HearingInv, channelVars
  <2> QED
    BY <2>2, <2>3 DEF HearingInv
<1>6. ASSUME NEW a \in Agents,
             \/ CreateBus(a) \/ Reply(a) \/ LoseReply(a) \/ Pop(a) \/ Take(a)
             \/ CancelTake(a) \/ Serve(a) \/ Arrive(a) \/ LosePop(a)
             \/ \E kind \in {"task", "message"} : Send(a, kind)
      PROVE  HearingInv'
  <2>1. UNCHANGED channelVars
    BY <1>6 DEF CreateBus, Reply, LoseReply, Pop, Take, CancelTake, Serve, Arrive,
                LosePop, Send, otherVars
  <2>2. ~Listening(a) /\ ~Listening(a)'
    <3>1. op[a] \notin {"sub", "away"}
      BY <1>6 DEF CreateBus, Reply, LoseReply, Pop, Take, CancelTake, Serve,
                  Arrive, LosePop, Send, BusInv, IssuedInv, FlightInv
    <3>2. op'[a] \notin {"sub", "away"}
      BY <1>1, <1>6, <3>1
      DEF CreateBus, Reply, LoseReply, Pop, Take, CancelTake, Serve, Arrive,
          LosePop, Send, TypeOK
    <3> QED
      BY <3>1, <3>2 DEF Listening
  <2>3. \A c \in Agents \ {a} : op'[c] = op[c] /\ bus'[c] = bus[c]
    BY <1>1, <1>6
    DEF CreateBus, Reply, LoseReply, Pop, Take, CancelTake, Serve, Arrive,
        LosePop, Send, TypeOK, otherVars
  <2> QED
    BY <2>1, <2>2, <2>3, NothingSaid
<1>7. ASSUME UNCHANGED << op, bus, channelVars >>
      PROVE  HearingInv'
  BY <1>7, NothingSaid
<1>8. ServeAbandoned \/ NoticeAbandoned \/ UNCHANGED vars
        => UNCHANGED << op, bus, channelVars >>
  BY DEF ServeAbandoned, NoticeAbandoned, vars, otherVars, channelVars
<1> QED
  BY <1>2, <1>3, <1>4, <1>5, <1>6, <1>7, <1>8 DEF Next

LEMMA HearingStarts == Init => HearingInv
BY DEF Init, HearingInv, Hearing, Listening

(* A subscription yields what is published on its bus from its first step  *)
(* on, in order and once, less the messages that do not validate on Redis  *)
(* and what a broken connection costs, whoever publishes, sends a command  *)
(* again, leaves or subscribes at the time.                                *)
THEOREM SubscriptionsCorrect == Spec => []SubscribersHear
<1>1. HearingInv => SubscribersHear
  BY DEF HearingInv, Hearing, Listening, Yielded, DueFor, Spared, Join,
         SubscribersHear
<1>2. Spec => []HearingInv
  BY HearingStarts, HearingStep, BusInvariant, PTL DEF Spec
<1> QED
  BY <1>1, <1>2, PTL

-----------------------------------------------------------------------------
(* What is lost and doubled on Redis.                                      *)

EntriesOf(list, users) == UNION {{a} \X DOMAIN list[a] : a \in users}

\* An entry is an agent and the place of a task in its list.
LEMMA EntryIs ==
  ASSUME NEW list, NEW users, NEW p
  PROVE  p \in EntriesOf(list, users)
           <=> \E a \in users : \E i \in DOMAIN list[a] : p = << a, i >>
BY DEF EntriesOf

LEMMA SameEntries ==
  ASSUME NEW list, NEW more, NEW users, \A a \in users : more[a] = list[a]
  PROVE  EntriesOf(more, users) = EntriesOf(list, users)
BY DEF EntriesOf

Own(list, a) == {a} \X DOMAIN list[a]

\* The entries of one agent's list.
LEMMA EntrySplits ==
  ASSUME NEW list, NEW users, NEW a \in users
  PROVE  /\ EntriesOf(list, users)
              = EntriesOf(list, users \ {a}) \cup Own(list, a)
         /\ EntriesOf(list, users \ {a}) \cap Own(list, a) = {}
<1>1. ASSUME NEW p
      PROVE  p \in EntriesOf(list, users)
               <=> p \in EntriesOf(list, users \ {a}) \cup Own(list, a)
  <2>1. p \in Own(list, a) <=> \E i \in DOMAIN list[a] : p = << a, i >>
    BY DEF Own
  <2>2. p \in EntriesOf(list, users)
          <=> \E c \in users : \E i \in DOMAIN list[c] : p = << c, i >>
    BY EntryIs
  <2>3. p \in EntriesOf(list, users \ {a})
          <=> \E c \in users \ {a} : \E i \in DOMAIN list[c] : p = << c, i >>
    BY EntryIs
  <2> QED
    BY <2>1, <2>2, <2>3
<1>2. ASSUME NEW p \in EntriesOf(list, users \ {a})
      PROVE  p \notin Own(list, a)
  <2>1. PICK c \in users \ {a} : \E i \in DOMAIN list[c] : p = << c, i >>
    BY EntryIs
  <2> QED
    BY <2>1 DEF Own
<1> QED
  BY <1>1, <1>2

AlikeBut(list, more, users, a) == \A c \in users \ {a} : more[c] = list[c]

Splits(list, more, users, a, rest) ==
  /\ EntriesOf(list, users) = rest \cup Own(list, a)
  /\ EntriesOf(more, users) = rest \cup Own(more, a)
  /\ rest \cap Own(list, a) = {}
  /\ rest \cap Own(more, a) = {}

\* A change of one list.
LEMMA EntriesChange ==
  ASSUME NEW list, NEW more, NEW users, NEW a \in users,
         AlikeBut(list, more, users, a)
  PROVE  \E rest : Splits(list, more, users, a, rest)
<1>1. EntriesOf(more, users \ {a}) = EntriesOf(list, users \ {a})
  BY SameEntries DEF AlikeBut
<1>2. PICK rest : rest = EntriesOf(list, users \ {a})
  OBVIOUS
<1>3. Splits(list, more, users, a, rest)
  <2>1. /\ EntriesOf(list, users) = rest \cup Own(list, a)
        /\ rest \cap Own(list, a) = {}
    BY <1>2, EntrySplits
  <2>2. /\ EntriesOf(more, users) = rest \cup Own(more, a)
        /\ rest \cap Own(more, a) = {}
    BY <1>1, <1>2, EntrySplits
  <2> QED
    BY <2>1, <2>2 DEF Splits
<1> QED
  BY <1>3

LEMMA OneMoreElement ==
  ASSUME NEW S, NEW x, x \notin S, IsFiniteSet(S), NEW R, R = S \cup {x}
  PROVE  IsFiniteSet(R) /\ Cardinality(R) = Cardinality(S) + 1
<1>1. IsFiniteSet(S \cup {x}) /\ Cardinality(S \cup {x}) = Cardinality(S) + 1
  BY FS_AddElement
<1> QED
  BY <1>1

LEMMA OneElementLess ==
  ASSUME NEW S, NEW x, x \in S, IsFiniteSet(S), NEW R, R = S \ {x}
  PROVE  IsFiniteSet(R) /\ Cardinality(R) = Cardinality(S) - 1
BY FS_RemoveElement

\* A task more, and one less, in an agent's list.
LEMMA EntryAdded ==
  ASSUME NEW list \in [Agents -> Seq(Items)], NEW users \in SUBSET Agents,
         NEW a \in users, NEW e \in Items,
         IsFiniteSet(EntriesOf(list, users)),
         NEW more, more = [list EXCEPT ![a] = Append(@, e)]
  PROVE  /\ IsFiniteSet(EntriesOf(more, users))
         /\ Cardinality(EntriesOf(more, users))
              = Cardinality(EntriesOf(list, users)) + 1
<1>1. PICK s \in Seq(Items) : s = list[a]
  OBVIOUS
<1>2. more[a] = Append(s, e) /\ \A c \in users \ {a} : more[c] = list[c]
  BY <1>1
<1>3. PICK n \in Nat : n = Len(s) + 1
  OBVIOUS
<1>4. DOMAIN Append(s, e) = DOMAIN s \cup {n} /\ n \notin DOMAIN s
  BY <1>3
<1>5. PICK p : p = << a, n >>
  OBVIOUS
<1>6. Own(more, a) = Own(list, a) \cup {p} /\ p \in Own(more, a) /\ p \notin Own(list, a)
  BY <1>1, <1>2, <1>4, <1>5 DEF Own
<1>7. PICK rest : Splits(list, more, users, a, rest)
  <2>1. AlikeBut(list, more, users, a)
    BY <1>2 DEF AlikeBut
  <2> QED
    BY <2>1, EntriesChange
<1>8. /\ EntriesOf(more, users) = EntriesOf(list, users) \cup {p}
      /\ p \notin EntriesOf(list, users)
  BY <1>6, <1>7 DEF Splits
<1> QED
  BY <1>8, OneMoreElement

LEMMA EntryRemoved ==
  ASSUME NEW list \in [Agents -> Seq(Items)], NEW users \in SUBSET Agents,
         NEW a \in users, Len(list[a]) = 1,
         IsFiniteSet(EntriesOf(list, users)),
         NEW less, less = [list EXCEPT ![a] = << >>]
  PROVE  /\ IsFiniteSet(EntriesOf(less, users))
         /\ Cardinality(EntriesOf(less, users))
              = Cardinality(EntriesOf(list, users)) - 1
<1>1. less[a] = << >> /\ \A c \in users \ {a} : less[c] = list[c]
  OBVIOUS
<1>2. DOMAIN list[a] = {1} /\ DOMAIN << >> = {}
  OBVIOUS
<1>3. PICK p : p = << a, 1 >>
  OBVIOUS
<1>4. Own(list, a) = {p} /\ Own(less, a) = {}
  BY <1>1, <1>2, <1>3 DEF Own
<1>5. PICK rest : Splits(list, less, users, a, rest)
  <2>1. AlikeBut(list, less, users, a)
    BY <1>1 DEF AlikeBut
  <2> QED
    BY <2>1, EntriesChange
<1>6. /\ EntriesOf(less, users) = EntriesOf(list, users) \ {p}
      /\ p \in EntriesOf(list, users)
  BY <1>4, <1>5 DEF Splits
<1> QED
  BY <1>6, OneElementLess

\* An agent without a task has no entries.
LEMMA NoEntries ==
  ASSUME NEW list, NEW users, NEW a, list[a] = << >>
  PROVE  EntriesOf(list, users \cup {a}) = EntriesOf(list, users)
<1>1. DOMAIN << >> = {}
  OBVIOUS
<1>2. ASSUME NEW p
      PROVE  p \in EntriesOf(list, users \cup {a}) <=> p \in EntriesOf(list, users)
  <2>1. p \in EntriesOf(list, users \cup {a})
          <=> \E c \in users \cup {a} : \E i \in DOMAIN list[c] : p = << c, i >>
    BY EntryIs
  <2>2. p \in EntriesOf(list, users)
          <=> \E c \in users : \E i \in DOMAIN list[c] : p = << c, i >>
    BY EntryIs
  <2> QED
    BY <1>1, <2>1, <2>2
<1> QED
  BY <1>2

-----------------------------------------------------------------------------
\* Those that are going to send a task which Redis has taken in already.
Doubling == {a \in Agents : /\ op[a] = "sending" /\ command[a].kind = "task"
                            /\ command[a].item \in Range(pushed[Redis])}

Busy(a) == op[a] \in {"sending", "executed"}

\* No two commands carry the same item.
OwnItems ==
  \A a, b \in Agents : a # b /\ Busy(a) /\ Busy(b)
                         => command[a].item # command[b].item

Damage == Losses + Repeats + abandoned + Cardinality(Doubling)

\* A command that is sent again is paid for by the fault before it.
DamageInv ==
  /\ IsFiniteSet(Entries(flight)) /\ IsFiniteSet(Entries(got))
  /\ OwnItems
  /\ Damage <= faults

LEMMA DamageTypes ==
  ASSUME TypeOK, DamageInv
  PROVE  /\ Len(pushed[Redis]) \in Nat /\ Len(queue[Redis]) \in Nat
         /\ unread \in Nat /\ abandoned \in Nat /\ faults \in Nat
         /\ Cardinality(Entries(flight)) \in Nat
         /\ Cardinality(Entries(got)) \in Nat
         /\ IsFiniteSet(Range(pushed[Redis]))
         /\ Cardinality(Range(pushed[Redis])) \in Nat
         /\ IsFiniteSet(Doubling) /\ Cardinality(Doubling) \in Nat
<1>1. pushed[Redis] \in Seq(Items) /\ queue[Redis] \in Seq(Items)
  BY BusFacts DEF TypeOK
<1>2. IsFiniteSet(Items)
  BY FS_Interval, BusAssumption DEF Items
<1>3. Range(pushed[Redis]) \subseteq Items
  BY <1>1 DEF Range
<1>4. IsFiniteSet(Range(pushed[Redis]))
  BY <1>2, <1>3, FS_Subset
<1>5. IsFiniteSet(Doubling)
  <2>1. Doubling \subseteq Agents
    BY DEF Doubling
  <2> QED
    BY <2>1, FS_Subset, BusAssumption
<1>6. /\ Cardinality(Entries(flight)) \in Nat
      /\ Cardinality(Entries(got)) \in Nat
      /\ Cardinality(Range(pushed[Redis])) \in Nat
      /\ Cardinality(Doubling) \in Nat
  BY <1>4, <1>5, FS_CardinalityType DEF DamageInv
<1> QED
  BY <1>1, <1>4, <1>5, <1>6, BusAssumption DEF TypeOK

\* What a step does to the commands, if it sends none.
LEMMA CommandsStay ==
  ASSUME OwnItems, UNCHANGED pushed[Redis],
         \A c \in Agents : Busy(c)' => op'[c] = op[c] /\ command'[c] = command[c]
  PROVE  OwnItems' /\ Doubling' \subseteq Doubling
<1>1. OwnItems'
  BY DEF OwnItems, Busy
<1>2. Doubling' \subseteq Doubling
  BY DEF Doubling, Busy
<1> QED
  BY <1>1, <1>2

\* What Redis holds is as it was: there may be a fault, or a command that is
\* sent again and is paid for by one.
LEMMA RedisStill ==
  ASSUME TypeOK, DamageInv, UNCHANGED << queue[Redis], pushed[Redis], unread >>,
         abandoned' = abandoned, UNCHANGED << Entries(flight), Entries(got) >>,
         OwnItems', NEW a,
         \/ Doubling' \subseteq Doubling /\ faults' \in Nat /\ faults' >= faults
         \/ Doubling' \subseteq Doubling \cup {a} /\ faults' = faults + 1
  PROVE  DamageInv'
<1>1. /\ IsFiniteSet(Doubling) /\ Cardinality(Doubling) \in Nat
      /\ Len(pushed[Redis]) \in Nat /\ Len(queue[Redis]) \in Nat
      /\ unread \in Nat /\ abandoned \in Nat /\ faults \in Nat
      /\ Cardinality(Entries(flight)) \in Nat
      /\ Cardinality(Entries(got)) \in Nat
      /\ Cardinality(Range(pushed[Redis])) \in Nat
  BY DamageTypes
<1>2. Losses' = Losses /\ Repeats' = Repeats /\ Losses \in Int /\ Repeats \in Int
  <2>1. Losses' = Losses
    BY DEF Losses
  <2>2. Repeats' = Repeats
    BY DEF Repeats
  <2>3. Losses \in Int
    <3>1. PICK p \in Nat, q \in Nat, u \in Nat, f \in Nat, g \in Nat :
            /\ p = Len(pushed[Redis]) /\ q = Len(queue[Redis]) /\ u = unread
            /\ f = Cardinality(Entries(flight)) /\ g = Cardinality(Entries(got))
      BY <1>1
    <3>2. Losses = p - q - u - f - g
      BY <3>1 DEF Losses
    <3> QED
      BY <3>2
  <2>4. Repeats \in Int
    BY <1>1 DEF Repeats
  <2> QED
    BY <2>1, <2>2, <2>3, <2>4
<1>3. PICK d \in Nat : d = Cardinality(Doubling') /\ d <= Cardinality(Doubling) + (faults' - faults)
  <2>1. CASE Doubling' \subseteq Doubling /\ faults' \in Nat /\ faults' >= faults
    <3>1. Cardinality(Doubling') \in Nat /\ Cardinality(Doubling') <= Cardinality(Doubling)
      BY <1>1, <2>1, FS_Subset, FS_CardinalityType
    <3> QED
      BY <1>1, <2>1, <3>1
  <2>2. CASE Doubling' \subseteq Doubling \cup {a} /\ faults' = faults + 1
    <3>1. PICK more : more = Doubling \cup {a}
      OBVIOUS
    <3>2. /\ IsFiniteSet(more)
          /\ Cardinality(more) = IF a \in Doubling THEN Cardinality(Doubling)
                                 ELSE Cardinality(Doubling) + 1
      BY <1>1, <3>1, FS_AddElement
    <3>3. Doubling' \subseteq more
      BY <2>2, <3>1
    <3>4. /\ Cardinality(Doubling') \in Nat
          /\ Cardinality(Doubling') <= Cardinality(more)
      BY <3>2, <3>3, FS_Subset, FS_CardinalityType
    <3> QED
      BY <1>1, <2>2, <3>2, <3>4
  <2> QED
    BY <2>1, <2>2
<1>4. faults' \in Nat
  BY <1>1
<1>5. Damage' <= faults'
  <2>1. Damage <= faults
    BY DEF DamageInv
  <2> QED
    BY <1>1, <1>2, <1>3, <1>4, <2>1 DEF Damage
<1> QED
  BY <1>5 DEF DamageInv

LEMMA EntriesStay ==
  ASSUME UNCHANGED << bus, flight, got >>
  PROVE  UNCHANGED << Entries(flight), Entries(got) >>
BY DEF Entries, Users

\* The steps that neither send nor repeat a command and touch no queue.
LEMMA OffQueueDamage ==
  ASSUME BusInv, DamageInv, NEW a \in Agents,
         \/ CreateBus(a) \/ Reply(a) \/ Pop(a) \/ CancelTake(a) \/ Subscribe(a)
         \/ Hear(a) \/ LoseChannel(a) \/ Resubscribe(a) \/ Leave(a)
  PROVE  DamageInv'
<1>1. UNCHANGED << queue, pushed, flight, got, unread, abandoned >>
  BY DEF CreateBus, Reply, Pop, CancelTake, Subscribe, Hear, LoseChannel,
         Resubscribe, Leave, taskVars
<1>2. faults \in Nat /\ faults' \in Nat /\ faults' >= faults
  BY BusAssumption
  DEF CreateBus, Reply, Pop, CancelTake, Subscribe, Hear, LoseChannel,
      Resubscribe, Leave, Fault, BusInv, TypeOK
<1>3. \A c \in Agents : Busy(c)' => op'[c] = op[c] /\ command'[c] = command[c]
  BY DEF CreateBus, Reply, Pop, CancelTake, Subscribe, Hear, LoseChannel,
         Resubscribe, Leave, BusInv, TypeOK, Busy
<1>4. OwnItems' /\ Doubling' \subseteq Doubling
  BY <1>1, <1>3, CommandsStay DEF DamageInv
<1>5. UNCHANGED << Entries(flight), Entries(got) >>
  <2>1. CASE CreateBus(a)
    <3>1. got[a] = << >> /\ flight[a] = << >>
      BY <2>1 DEF CreateBus, BusInv, IssuedInv, FlightInv
    <3>2. \/ \A c \in Agents : bus'[c] = Redis <=> bus[c] = Redis
          \/ \A c \in Agents : bus'[c] = Redis <=> bus[c] = Redis \/ c = a
      <4>1. bus[a] = NoBus /\ bus \in [Agents -> Buses \cup {NoBus}]
        BY <2>1 DEF CreateBus, BusInv, TypeOK
      <4>2. bus' = [bus EXCEPT ![a] = Redis] \/ bus' = [bus EXCEPT ![a] = StoreOf[a]]
        BY <2>1 DEF CreateBus
      <4>3. StoreOf[a] # Redis
        BY BusFacts
      <4> QED
        BY <4>1, <4>2, <4>3, BusFacts
    <3>3. /\ Entries(flight) = EntriesOf(flight, Users(Redis))
          /\ Entries(got) = EntriesOf(got, Users(Redis))
          /\ Entries(flight)' = EntriesOf(flight, Users(Redis)')
          /\ Entries(got)' = EntriesOf(got, Users(Redis)')
      BY <1>1 DEF Entries, EntriesOf
    <3>4. PICK users, later : users = Users(Redis) /\ later = Users(Redis)'
      OBVIOUS
    <3>5. later = users \/ later = users \cup {a}
      BY <3>2, <3>4 DEF Users
    <3>6. /\ EntriesOf(flight, users \cup {a}) = EntriesOf(flight, users)
          /\ EntriesOf(got, users \cup {a}) = EntriesOf(got, users)
      BY <3>1, NoEntries
    <3> QED
      BY <3>3, <3>4, <3>5, <3>6
  <2>2. CASE ~CreateBus(a)
    <3>1. UNCHANGED bus
      BY <2>2 DEF Reply, Pop, CancelTake, Subscribe, Hear, LoseChannel,
                  Resubscribe, Leave
    <3> QED
      BY <1>1, <3>1, EntriesStay
  <2> QED
    BY <2>1, <2>2
<1> QED
  BY <1>1, <1>2, <1>4, <1>5, RedisStill DEF BusInv

\* A new command carries a new item.
LEMMA SendDamage ==
  ASSUME BusInv, DamageInv, NEW a \in Agents, NEW kind, Send(a, kind)
  PROVE  DamageInv'
<1>1. /\ UNCHANGED << bus, queue, pushed, flight, got, unread, abandoned, faults >>
      /\ op[a] = "free" /\ op'[a] = "sending" /\ command'[a].item = issued + 1
      /\ \A c \in Agents \ {a} : op'[c] = op[c] /\ command'[c] = command[c]
  BY DEF Send, taskVars, BusInv, TypeOK
<1>2. issued \in Nat /\ issued + 1 \notin 1..issued
  BY BusAssumption DEF BusInv, TypeOK
<1>3. /\ Range(pushed[Redis]) \subseteq 1..issued
      /\ \A c \in Agents : Busy(c) => command[c].item \in 1..issued
  BY BusFacts DEF BusInv, IssuedInv, Busy
<1>4. OwnItems'
  BY <1>1, <1>2, <1>3 DEF DamageInv, OwnItems, Busy
<1>5. Doubling' \subseteq Doubling
  BY <1>1, <1>2, <1>3 DEF Doubling
<1>6. UNCHANGED << Entries(flight), Entries(got) >>
  BY <1>1, EntriesStay
<1>7. faults' \in Nat /\ faults' >= faults
  BY <1>1 DEF BusInv, TypeOK
<1> QED
  BY <1>1, <1>4, <1>5, <1>6, <1>7, RedisStill DEF BusInv

LEMMA LoseReplyDamage ==
  ASSUME BusInv, DamageInv, NEW a \in Agents, LoseReply(a)
  PROVE  DamageInv'
<1>1. /\ UNCHANGED << bus, queue, pushed, flight, got, unread, abandoned >>
      /\ faults' = faults + 1
      /\ Busy(a) /\ (Busy(a)' => command'[a] = command[a])
      /\ \A c \in Agents \ {a} : op'[c] = op[c] /\ command'[c] = command[c]
  BY DEF LoseReply, Fault, taskVars, BusInv, TypeOK, Busy
<1>2. OwnItems'
  BY <1>1 DEF DamageInv, OwnItems, Busy
<1>3. Doubling' \subseteq Doubling \cup {a}
  BY <1>1 DEF Doubling
<1>4. UNCHANGED << Entries(flight), Entries(got) >>
  BY <1>1, EntriesStay
<1> QED
  BY <1>1, <1>2, <1>3, <1>4, RedisStill DEF BusInv

\* What happens in the memory of a process.
LEMMA PutDamage ==
  ASSUME BusInv, DamageInv, NEW a \in Agents, NEW kind, Put(a, kind)
  PROVE  DamageInv'
<1>1. /\ UNCHANGED << bus, op, command, flight, got, unread, abandoned, faults >>
      /\ bus[a] # Redis
  BY BusFacts DEF Put, Accept, taskVars
<1>2. queue'[Redis] = queue[Redis] /\ pushed'[Redis] = pushed[Redis]
  <2>1. Accept(bus[a], kind, issued + 1) /\ bus[a] # Redis
    BY <1>1 DEF Put
  <2> QED
    BY <2>1, BusFacts DEF Accept, taskVars, BusInv, TypeOK
<1>3. OwnItems' /\ Doubling' \subseteq Doubling
  BY <1>1, <1>2, CommandsStay DEF DamageInv
<1>4. UNCHANGED << Entries(flight), Entries(got) >>
  BY <1>1, EntriesStay
<1>5. faults' \in Nat /\ faults' >= faults
  BY <1>1 DEF BusInv, TypeOK
<1> QED
  BY <1>1, <1>2, <1>3, <1>4, <1>5, RedisStill DEF BusInv

LEMMA TakeDamage ==
  ASSUME BusInv, DamageInv, NEW a \in Agents, Take(a)
  PROVE  DamageInv'
<1>1. /\ UNCHANGED << bus, command, pushed, flight, unread, abandoned, faults >>
      /\ bus[a] # Redis
      /\ queue'[Redis] = queue[Redis]
      /\ op[a] = "pop" /\ op'[a] = "free"
      /\ \A c \in Agents \ {a} : op'[c] = op[c] /\ got'[c] = got[c]
  BY BusFacts DEF Take, otherVars, BusInv, TypeOK
<1>2. OwnItems' /\ Doubling' \subseteq Doubling
  <2>1. \A c \in Agents : Busy(c)' => op'[c] = op[c] /\ command'[c] = command[c]
    BY <1>1 DEF Busy
  <2> QED
    BY <1>1, <2>1, CommandsStay DEF DamageInv
<1>3. UNCHANGED << Entries(flight), Entries(got) >>
  <2>1. Users(Redis)' = Users(Redis) /\ a \notin Users(Redis)
    BY <1>1 DEF Users
  <2>2. \A c \in Users(Redis) : got'[c] = got[c]
    BY <1>1, <2>1 DEF Users
  <2>3. Entries(got)' = EntriesOf(got', Users(Redis))
    BY <2>1 DEF Entries, EntriesOf
  <2>4. Entries(got) = EntriesOf(got, Users(Redis))
    BY DEF Entries, EntriesOf
  <2>5. Entries(got)' = Entries(got)
    BY <2>2, <2>3, <2>4, SameEntries
  <2>6. Entries(flight)' = Entries(flight)
    BY <1>1, <2>1 DEF Entries
  <2> QED
    BY <2>5, <2>6
<1>4. faults' \in Nat /\ faults' >= faults
  BY <1>1 DEF BusInv, TypeOK
<1> QED
  BY <1>1, <1>2, <1>3, <1>4, RedisStill DEF BusInv

DamageOf(p, q, u, f, g, r, b, d) == p - q - u - f - g + (p - r) + b + d

LEMMA DamageParts ==
  Damage = DamageOf(Len(pushed[Redis]), Len(queue[Redis]), unread,
                    Cardinality(Entries(flight)), Cardinality(Entries(got)),
                    Cardinality(Range(pushed[Redis])), abandoned,
                    Cardinality(Doubling))
BY DEF Damage, Losses, Repeats, DamageOf

\* The damage, named part by part.
Parts(p, q, u, f, g, r, b, d) ==
  /\ p = Len(pushed[Redis]) /\ q = Len(queue[Redis]) /\ u = unread
  /\ f = Cardinality(Entries(flight)) /\ g = Cardinality(Entries(got))
  /\ r = Cardinality(Range(pushed[Redis])) /\ b = abandoned
  /\ d = Cardinality(Doubling)

LEMMA PartsBalance ==
  ASSUME TypeOK, DamageInv
  PROVE  \E p, q, u, f, g, r, b, d \in Nat :
            /\ Parts(p, q, u, f, g, r, b, d)
            /\ DamageOf(p, q, u, f, g, r, b, d) <= faults
BY DamageTypes, DamageParts DEF Parts, DamageInv

LEMMA PartsDamage ==
  ASSUME NEW p, NEW q, NEW u, NEW f, NEW g, NEW r, NEW b, NEW d,
         Parts(p, q, u, f, g, r, b, d)'
  PROVE  Damage' = DamageOf(p, q, u, f, g, r, b, d)
BY DEF Parts, Damage, Losses, Repeats, DamageOf

\* A task that Redis has taken in before is doubled now, and the command that
\* was going to double it is done.
LEMMA ExecuteDamage ==
  ASSUME BusInv, DamageInv, NEW a \in Agents, Execute(a)
  PROVE  DamageInv'
<1>1. /\ UNCHANGED << bus, command, flight, got, unread, abandoned, faults >>
      /\ op[a] = "sending" /\ op'[a] = "executed"
      /\ \A c \in Agents \ {a} : op'[c] = op[c]
      /\ Accept(Redis, command[a].kind, command[a].item)
      /\ command[a].item \in Items
  <2>1. /\ UNCHANGED << bus, command, faults >>
        /\ op[a] = "sending" /\ op'[a] = "executed"
        /\ \A c \in Agents \ {a} : op'[c] = op[c]
        /\ Accept(Redis, command[a].kind, command[a].item)
    BY DEF Execute, BusInv, TypeOK
  <2>2. UNCHANGED << flight, got, unread, abandoned >>
    BY <2>1 DEF Accept, taskVars
  <2>3. command[a].item \in 1..issued
    BY <2>1 DEF BusInv, IssuedInv
  <2>4. command[a].item \in Items
    BY <2>3, BusAssumption DEF BusInv, TypeOK, Items
  <2> QED
    BY <2>1, <2>2, <2>4
<1>2. UNCHANGED << Entries(flight), Entries(got) >>
  BY <1>1, EntriesStay
<1>3. OwnItems'
  BY <1>1 DEF DamageInv, OwnItems, Busy
<1>4. faults \in Nat
  BY DEF BusInv, TypeOK
<1>5. CASE command[a].kind # "task"
  <2>1. UNCHANGED << queue, pushed >>
    BY <1>1, <1>5 DEF Accept, taskVars
  <2>2. Doubling' \subseteq Doubling
    BY <1>1, <2>1 DEF Doubling
  <2> QED
    BY <1>1, <1>2, <1>3, <1>4, <2>1, <2>2, RedisStill DEF BusInv
<1>6. CASE command[a].kind = "task"
  <2>1. PICK item \in Items : item = command[a].item
    BY <1>1
  <2>2. PICK t \in Seq(Items), s \in Seq(Items) : t = queue[Redis] /\ s = pushed[Redis]
    BY BusFacts DEF BusInv, TypeOK
  <2>3. queue'[Redis] = Append(t, item) /\ pushed'[Redis] = Append(s, item)
    BY <1>1, <1>6, <2>1, <2>2, BusFacts DEF Accept, BusInv, TypeOK
  <2>4. /\ Len(Append(t, item)) = Len(t) + 1 /\ Len(Append(s, item)) = Len(s) + 1
        /\ Range(Append(s, item)) = Range(s) \cup {item}
    BY RangeOfAppend
  <2>5. PICK p \in Nat, q \in Nat, u \in Nat, f \in Nat, g \in Nat, r \in Nat,
             b \in Nat, d \in Nat : /\ Parts(p, q, u, f, g, r, b, d)
                                    /\ DamageOf(p, q, u, f, g, r, b, d) <= faults
    BY PartsBalance DEF BusInv
  <2>6. IsFiniteSet(Range(s)) /\ IsFiniteSet(Doubling)
    BY <2>2, DamageTypes DEF BusInv
  <2>7. Doubling' = Doubling \ {a}
    <3>1. \A c \in Agents \ {a} : op[c] = "sending" => command[c].item # item
      BY <1>1, <2>1 DEF DamageInv, OwnItems, Busy
    <3>2. Range(pushed'[Redis]) = Range(pushed[Redis]) \cup {item}
      BY <2>2, <2>3, <2>4
    <3> QED
      BY <1>1, <3>1, <3>2 DEF Doubling
  <2>8. a \in Doubling <=> item \in Range(s)
    BY <1>1, <1>6, <2>1, <2>2 DEF Doubling
  <2>9. CASE item \in Range(s)
    <3>1. Cardinality(Doubling') = d - 1
      BY <2>5, <2>6, <2>7, <2>8, <2>9, FS_RemoveElement DEF Parts
    <3>2. Range(s) \cup {item} = Range(s)
      BY <2>9
    <3>3. Parts(p + 1, q + 1, u, f, g, r, b, d - 1)'
      BY <1>1, <1>2, <2>2, <2>3, <2>4, <2>5, <3>1, <3>2 DEF Parts
    <3>4. Damage' = DamageOf(p + 1, q + 1, u, f, g, r, b, d - 1)
      BY <3>3, PartsDamage
    <3>5. DamageOf(p + 1, q + 1, u, f, g, r, b, d - 1)
            = DamageOf(p, q, u, f, g, r, b, d)
      BY DEF DamageOf
    <3>6. Damage' <= faults'
      BY <1>1, <2>5, <3>4, <3>5
    <3> QED
      BY <1>2, <1>3, <3>6 DEF DamageInv
  <2>10. CASE item \notin Range(s)
    <3>1. Cardinality(Doubling') = d
      <4>1. Doubling' = Doubling
        BY <2>7, <2>8, <2>10
      <4> QED
        BY <2>5, <4>1 DEF Parts
    <3>2. Cardinality(Range(s) \cup {item}) = r + 1
      BY <2>2, <2>5, <2>6, <2>10, FS_AddElement DEF Parts
    <3>3. Parts(p + 1, q + 1, u, f, g, r + 1, b, d)'
      BY <1>1, <1>2, <2>2, <2>3, <2>4, <2>5, <3>1, <3>2 DEF Parts
    <3>4. Damage' = DamageOf(p + 1, q + 1, u, f, g, r + 1, b, d)
      BY <3>3, PartsDamage
    <3>5. DamageOf(p + 1, q + 1, u, f, g, r + 1, b, d)
            = DamageOf(p, q, u, f, g, r, b, d)
      BY DEF DamageOf
    <3>6. Damage' <= faults'
      BY <1>1, <2>5, <3>4, <3>5
    <3> QED
      BY <1>2, <1>3, <3>6 DEF DamageInv
  <2> QED
    BY <2>9, <2>10
<1> QED
  BY <1>5, <1>6

\* pop_task sends no command that changes a queue.
LEMMA PopsCommandNothing ==
  ASSUME BusInv, DamageInv, UNCHANGED << bus, command, pushed >>,
         \A c \in Agents : op'[c] = op[c] \/ (~Busy(c) /\ ~Busy(c)')
  PROVE  OwnItems' /\ Doubling' = Doubling
<1>1. OwnItems'
  BY DEF DamageInv, OwnItems, Busy
<1>2. Doubling' = Doubling
  BY DEF Doubling, Busy
<1> QED
  BY <1>1, <1>2

\* The entries of the users of Redis, before and after a step.
LEMMA RedisEntries ==
  ASSUME BusInv, UNCHANGED bus
  PROVE  /\ Users(Redis) \in SUBSET Agents
         /\ flight \in [Agents -> Seq(Items)] /\ got \in [Agents -> Seq(Items)]
         /\ Entries(flight) = EntriesOf(flight, Users(Redis))
         /\ Entries(got) = EntriesOf(got, Users(Redis))
         /\ Entries(flight)' = EntriesOf(flight', Users(Redis))
         /\ Entries(got)' = EntriesOf(got', Users(Redis))
BY DEF BusInv, TypeOK, Entries, EntriesOf, Users

\* A task more on the way, and one that has arrived or is lost.
LEMMA FlightGrows ==
  ASSUME BusInv, DamageInv, UNCHANGED bus, NEW a \in Agents, bus[a] = Redis,
         flight[a] = << >>, NEW e \in Items,
         flight' = [flight EXCEPT ![a] = << e >>]
  PROVE  /\ IsFiniteSet(Entries(flight)')
         /\ Cardinality(Entries(flight)') = Cardinality(Entries(flight)) + 1
<1>1. << e >> = Append(<< >>, e)
  OBVIOUS
<1>2. flight' = [flight EXCEPT ![a] = Append(@, e)]
  BY <1>1
<1>3. a \in Users(Redis)
  BY DEF Users
<1>4. PICK users \in SUBSET Agents : users = Users(Redis)
  BY RedisEntries
<1>5. /\ flight \in [Agents -> Seq(Items)]
      /\ Entries(flight) = EntriesOf(flight, users)
      /\ Entries(flight)' = EntriesOf(flight', users)
      /\ IsFiniteSet(EntriesOf(flight, users))
  BY <1>4, RedisEntries DEF DamageInv
<1>6. /\ IsFiniteSet(EntriesOf(flight', users))
      /\ Cardinality(EntriesOf(flight', users))
           = Cardinality(EntriesOf(flight, users)) + 1
  <2>1. PICK more : more = flight'
    OBVIOUS
  <2>2. more = [flight EXCEPT ![a] = Append(@, e)] /\ a \in users
    BY <1>2, <1>3, <1>4, <2>1
  <2>3. /\ IsFiniteSet(EntriesOf(more, users))
        /\ Cardinality(EntriesOf(more, users))
             = Cardinality(EntriesOf(flight, users)) + 1
    BY <1>5, <2>2, EntryAdded
  <2> QED
    BY <2>1, <2>3
<1> QED
  BY <1>5, <1>6

LEMMA FlightShrinks ==
  ASSUME BusInv, DamageInv, UNCHANGED bus, NEW a \in Agents, flight[a] # << >>,
         flight' = [flight EXCEPT ![a] = << >>]
  PROVE  /\ IsFiniteSet(Entries(flight)')
         /\ Cardinality(Entries(flight)') = Cardinality(Entries(flight)) - 1
<1>1. bus[a] = Redis /\ Len(flight[a]) = 1
  BY DEF BusInv, FlightInv
<1>2. a \in Users(Redis)
  BY <1>1 DEF Users
<1>3. PICK users \in SUBSET Agents : users = Users(Redis)
  BY RedisEntries
<1>4. /\ flight \in [Agents -> Seq(Items)]
      /\ Entries(flight) = EntriesOf(flight, users)
      /\ Entries(flight)' = EntriesOf(flight', users)
      /\ IsFiniteSet(EntriesOf(flight, users))
  BY <1>3, RedisEntries DEF DamageInv
<1>5. /\ IsFiniteSet(EntriesOf(flight', users))
      /\ Cardinality(EntriesOf(flight', users))
           = Cardinality(EntriesOf(flight, users)) - 1
  BY <1>1, <1>2, <1>3, <1>4, EntryRemoved
<1> QED
  BY <1>4, <1>5

LEMMA GotGrows ==
  ASSUME BusInv, DamageInv, UNCHANGED bus, NEW a \in Agents, bus[a] = Redis,
         NEW e \in Items, got' = [got EXCEPT ![a] = Append(@, e)]
  PROVE  /\ IsFiniteSet(Entries(got)')
         /\ Cardinality(Entries(got)') = Cardinality(Entries(got)) + 1
<1>1. a \in Users(Redis)
  BY DEF Users
<1>2. PICK users \in SUBSET Agents : users = Users(Redis)
  BY RedisEntries
<1>3. /\ got \in [Agents -> Seq(Items)]
      /\ Entries(got) = EntriesOf(got, users)
      /\ Entries(got)' = EntriesOf(got', users)
      /\ IsFiniteSet(EntriesOf(got, users))
  BY <1>2, RedisEntries DEF DamageInv
<1>4. /\ IsFiniteSet(EntriesOf(got', users))
      /\ Cardinality(EntriesOf(got', users)) = Cardinality(EntriesOf(got, users)) + 1
  <2>1. PICK more : more = got'
    OBVIOUS
  <2>2. more = [got EXCEPT ![a] = Append(@, e)] /\ a \in users
    BY <1>1, <1>2, <2>1
  <2>3. /\ IsFiniteSet(EntriesOf(more, users))
        /\ Cardinality(EntriesOf(more, users)) = Cardinality(EntriesOf(got, users)) + 1
    BY <1>3, <2>2, EntryAdded
  <2> QED
    BY <2>1, <2>3
<1> QED
  BY <1>3, <1>4

LEMMA TakenOff ==
  ASSUME BusInv, queue[Redis] # << >>,
         queue' = [queue EXCEPT ![Redis] = Tail(@)]
  PROVE  /\ Len(queue'[Redis]) = Len(queue[Redis]) - 1
         /\ Head(queue[Redis]) \in Items
<1>1. PICK t \in Seq(Items) : t = queue[Redis]
  BY BusFacts DEF BusInv, TypeOK
<1>2. Len(Tail(t)) = Len(t) - 1 /\ Head(t) \in Items
  BY <1>1
<1> QED
  BY <1>1, <1>2, BusFacts DEF BusInv, TypeOK

\* Redis hands a task over: it leaves the queue for the way.
LEMMA ServeDamage ==
  ASSUME BusInv, DamageInv, NEW a \in Agents, Serve(a)
  PROVE  DamageInv'
<1>1. /\ UNCHANGED << bus, command, pushed, op, got, unread, abandoned, faults >>
      /\ bus[a] = Redis /\ flight[a] = << >> /\ queue[Redis] # << >>
      /\ queue' = [queue EXCEPT ![Redis] = Tail(@)]
      /\ flight' = [flight EXCEPT ![a] = << Head(queue[Redis]) >>]
  BY DEF Serve, otherVars
<1>2. PICK p \in Nat, q \in Nat, u \in Nat, f \in Nat, g \in Nat, r \in Nat,
           b \in Nat, d \in Nat : /\ Parts(p, q, u, f, g, r, b, d)
                                  /\ DamageOf(p, q, u, f, g, r, b, d) <= faults
  BY PartsBalance DEF BusInv
<1>3. OwnItems' /\ Doubling' = Doubling
  BY <1>1, PopsCommandNothing
<1>4. Len(queue'[Redis]) = q - 1 /\ Head(queue[Redis]) \in Items
  BY <1>1, <1>2, TakenOff DEF Parts
<1>5. IsFiniteSet(Entries(flight)') /\ Cardinality(Entries(flight)') = f + 1
  BY <1>1, <1>2, <1>4, FlightGrows DEF Parts
<1>6. Entries(got)' = Entries(got)
  BY <1>1 DEF Entries, Users
<1>7. Parts(p, q - 1, u, f + 1, g, r, b, d)'
  BY <1>1, <1>2, <1>3, <1>4, <1>5, <1>6 DEF Parts
<1>8. Damage' = DamageOf(p, q - 1, u, f + 1, g, r, b, d)
  BY <1>7, PartsDamage
<1>9. DamageOf(p, q - 1, u, f + 1, g, r, b, d) = DamageOf(p, q, u, f, g, r, b, d)
  BY DEF DamageOf
<1>10. Damage' <= faults'
  BY <1>1, <1>2, <1>8, <1>9
<1> QED
  BY <1>3, <1>5, <1>6, <1>10 DEF DamageInv

\* It arrives, as a task or as a text that is none.
LEMMA ArriveDamage ==
  ASSUME BusInv, DamageInv, NEW a \in Agents, Arrive(a)
  PROVE  DamageInv'
<1>1. /\ UNCHANGED << bus, command, pushed, queue, abandoned, faults >>
      /\ flight[a] # << >> /\ flight' = [flight EXCEPT ![a] = << >>]
      /\ op' = [op EXCEPT ![a] = "free"]
  BY DEF Arrive, otherVars
<1>2. PICK p \in Nat, q \in Nat, u \in Nat, f \in Nat, g \in Nat, r \in Nat,
           b \in Nat, d \in Nat : /\ Parts(p, q, u, f, g, r, b, d)
                                  /\ DamageOf(p, q, u, f, g, r, b, d) <= faults
  BY PartsBalance DEF BusInv
<1>3. op[a] = "pop" /\ bus[a] = Redis
  BY <1>1 DEF BusInv, FlightInv
<1>4. OwnItems' /\ Doubling' = Doubling
  <2>1. \A c \in Agents : op'[c] = op[c] \/ (~Busy(c) /\ ~Busy(c)')
    BY <1>1, <1>3 DEF Busy, BusInv, TypeOK
  <2> QED
    BY <1>1, <2>1, PopsCommandNothing
<1>5. IsFiniteSet(Entries(flight)') /\ Cardinality(Entries(flight)') = f - 1
  BY <1>1, <1>2, FlightShrinks DEF Parts
<1>6. CASE Head(flight[a]) \in Unreadable
  <2>1. unread' = unread + 1 /\ got' = got
    BY <1>6 DEF Arrive
  <2>2. Entries(got)' = Entries(got)
    BY <1>1, <2>1 DEF Entries, Users
  <2>3. Parts(p, q, u + 1, f - 1, g, r, b, d)'
    BY <1>1, <1>2, <1>4, <1>5, <2>1, <2>2 DEF Parts
  <2>4. Damage' = DamageOf(p, q, u + 1, f - 1, g, r, b, d)
    BY <2>3, PartsDamage
  <2>5. DamageOf(p, q, u + 1, f - 1, g, r, b, d) = DamageOf(p, q, u, f, g, r, b, d)
    BY DEF DamageOf
  <2>6. Damage' <= faults'
    BY <1>1, <1>2, <2>4, <2>5
  <2> QED
    BY <1>4, <1>5, <2>2, <2>6 DEF DamageInv
<1>7. CASE Head(flight[a]) \notin Unreadable
  <2>1. unread' = unread /\ got' = [got EXCEPT ![a] = Append(@, Head(flight[a]))]
    BY <1>7 DEF Arrive
  <2>2. PICK e \in Items : e = Head(flight[a])
    BY <1>1, QueueSteps DEF BusInv, TypeOK
  <2>3. IsFiniteSet(Entries(got)') /\ Cardinality(Entries(got)') = g + 1
    BY <1>1, <1>2, <1>3, <2>1, <2>2, GotGrows DEF Parts
  <2>4. Parts(p, q, u, f - 1, g + 1, r, b, d)'
    BY <1>1, <1>2, <1>4, <1>5, <2>1, <2>3 DEF Parts
  <2>5. Damage' = DamageOf(p, q, u, f - 1, g + 1, r, b, d)
    BY <2>4, PartsDamage
  <2>6. DamageOf(p, q, u, f - 1, g + 1, r, b, d) = DamageOf(p, q, u, f, g, r, b, d)
    BY DEF DamageOf
  <2>7. Damage' <= faults'
    BY <1>1, <1>2, <2>5, <2>6
  <2> QED
    BY <1>4, <1>5, <2>3, <2>7 DEF DamageInv
<1> QED
  BY <1>6, <1>7

\* A reply on the way is lost, or a BLPOP is left behind: a fault each.
LEMMA LosePopDamage ==
  ASSUME BusInv, DamageInv, NEW a \in Agents, LosePop(a)
  PROVE  DamageInv'
<1>1. /\ UNCHANGED << bus, command, pushed, queue, unread, got >>
      /\ op[a] = "pop" /\ op'[a] \in {"free", "pop"} /\ faults' = faults + 1
      /\ \A c \in Agents \ {a} : op'[c] = op[c]
      /\ flight' = [flight EXCEPT ![a] = << >>]
      /\ abandoned' = IF flight[a] = << >> THEN abandoned + 1 ELSE abandoned
  BY DEF LosePop, Fault, otherVars, BusInv, TypeOK
<1>2. PICK p \in Nat, q \in Nat, u \in Nat, f \in Nat, g \in Nat, r \in Nat,
           b \in Nat, d \in Nat : /\ Parts(p, q, u, f, g, r, b, d)
                                  /\ DamageOf(p, q, u, f, g, r, b, d) <= faults
  BY PartsBalance DEF BusInv
<1>3. OwnItems' /\ Doubling' = Doubling
  <2>1. \A c \in Agents : op'[c] = op[c] \/ (~Busy(c) /\ ~Busy(c)')
    BY <1>1 DEF Busy
  <2> QED
    BY <1>1, <2>1, PopsCommandNothing
<1>4. Entries(got)' = Entries(got) /\ faults \in Nat
  BY <1>1 DEF Entries, Users, BusInv, TypeOK
<1>5. CASE flight[a] = << >>
  <2>1. flight' = flight /\ abandoned' = abandoned + 1
    BY <1>1, <1>5 DEF BusInv, TypeOK
  <2>2. Entries(flight)' = Entries(flight)
    BY <1>1, <2>1 DEF Entries, Users
  <2>3. Parts(p, q, u, f, g, r, b + 1, d)'
    BY <1>1, <1>2, <1>3, <1>4, <2>1, <2>2 DEF Parts
  <2>4. Damage' = DamageOf(p, q, u, f, g, r, b + 1, d)
    BY <2>3, PartsDamage
  <2>5. Damage' <= faults'
    <3>1. DamageOf(p, q, u, f, g, r, b + 1, d) = DamageOf(p, q, u, f, g, r, b, d) + 1
          /\ DamageOf(p, q, u, f, g, r, b, d) \in Int
      BY DEF DamageOf
    <3> QED
      BY <1>1, <1>2, <1>4, <2>4, <3>1
  <2> QED
    BY <1>3, <1>4, <2>2, <2>5 DEF DamageInv
<1>6. CASE flight[a] # << >>
  <2>1. abandoned' = abandoned
    BY <1>1, <1>6
  <2>2. IsFiniteSet(Entries(flight)') /\ Cardinality(Entries(flight)') = f - 1
    BY <1>1, <1>2, <1>6, FlightShrinks DEF Parts
  <2>3. Parts(p, q, u, f - 1, g, r, b, d)'
    BY <1>1, <1>2, <1>3, <1>4, <2>1, <2>2 DEF Parts
  <2>4. Damage' = DamageOf(p, q, u, f - 1, g, r, b, d)
    BY <2>3, PartsDamage
  <2>5. Damage' <= faults'
    <3>1. DamageOf(p, q, u, f - 1, g, r, b, d) = DamageOf(p, q, u, f, g, r, b, d) + 1
          /\ DamageOf(p, q, u, f, g, r, b, d) \in Int
      BY DEF DamageOf
    <3> QED
      BY <1>1, <1>2, <1>4, <2>4, <3>1
  <2> QED
    BY <1>3, <1>4, <2>2, <2>5 DEF DamageInv
<1> QED
  BY <1>5, <1>6

\* A BLPOP that was left behind takes a task, or is noticed: the fault has been
\* counted.
LEMMA AbandonedDamage ==
  ASSUME BusInv, DamageInv, ServeAbandoned \/ NoticeAbandoned
  PROVE  DamageInv'
<1>1. /\ UNCHANGED << bus, command, pushed, op, flight, got, unread, faults >>
      /\ abandoned' = abandoned - 1
  BY DEF ServeAbandoned, NoticeAbandoned, otherVars
<1>2. PICK p \in Nat, q \in Nat, u \in Nat, f \in Nat, g \in Nat, r \in Nat,
           b \in Nat, d \in Nat : /\ Parts(p, q, u, f, g, r, b, d)
                                  /\ DamageOf(p, q, u, f, g, r, b, d) <= faults
  BY PartsBalance DEF BusInv
<1>3. OwnItems' /\ Doubling' = Doubling
  BY <1>1, PopsCommandNothing
<1>4. UNCHANGED << Entries(flight), Entries(got) >> /\ faults \in Nat
  BY <1>1, EntriesStay DEF BusInv, TypeOK
<1>5. CASE ServeAbandoned
  <2>1. queue[Redis] # << >> /\ queue' = [queue EXCEPT ![Redis] = Tail(@)]
    BY <1>5 DEF ServeAbandoned
  <2>2. Len(queue'[Redis]) = q - 1
    BY <1>2, <2>1, TakenOff DEF Parts
  <2>3. Parts(p, q - 1, u, f, g, r, b - 1, d)'
    BY <1>1, <1>2, <1>3, <1>4, <2>2 DEF Parts
  <2>4. Damage' = DamageOf(p, q - 1, u, f, g, r, b - 1, d)
    BY <2>3, PartsDamage
  <2>5. DamageOf(p, q - 1, u, f, g, r, b - 1, d) = DamageOf(p, q, u, f, g, r, b, d)
    BY DEF DamageOf
  <2>6. Damage' <= faults'
    BY <1>1, <1>2, <2>4, <2>5
  <2> QED
    BY <1>3, <1>4, <2>6 DEF DamageInv
<1>6. CASE NoticeAbandoned
  <2>1. UNCHANGED queue
    BY <1>6 DEF NoticeAbandoned
  <2>2. Parts(p, q, u, f, g, r, b - 1, d)'
    BY <1>1, <1>2, <1>3, <1>4, <2>1 DEF Parts
  <2>3. Damage' = DamageOf(p, q, u, f, g, r, b - 1, d)
    BY <2>2, PartsDamage
  <2>4. /\ DamageOf(p, q, u, f, g, r, b - 1, d)
             = DamageOf(p, q, u, f, g, r, b, d) - 1
        /\ DamageOf(p, q, u, f, g, r, b, d) \in Int
    BY DEF DamageOf
  <2>5. Damage' <= faults'
    BY <1>1, <1>2, <1>4, <2>3, <2>4
  <2> QED
    BY <1>3, <1>4, <2>5 DEF DamageInv
<1> QED
  BY <1>5, <1>6

LEMMA DamageStep == BusInv /\ DamageInv /\ [Next]_vars => DamageInv'
<1> SUFFICES ASSUME BusInv, DamageInv, [Next]_vars
             PROVE  DamageInv'
  OBVIOUS
<1>1. CASE UNCHANGED vars
  BY <1>1 DEF vars, channelVars, taskVars, DamageInv, Damage, Losses, Repeats,
              Entries, Users, Doubling, OwnItems, Busy
<1>2. ASSUME NEW a \in Agents,
             \/ CreateBus(a) \/ Reply(a) \/ Pop(a) \/ CancelTake(a) \/ Subscribe(a)
             \/ Hear(a) \/ LoseChannel(a) \/ Resubscribe(a) \/ Leave(a)
      PROVE  DamageInv'
  BY <1>2, OffQueueDamage
<1>3. ASSUME NEW a \in Agents,
             \/ \E kind \in {"task", "message"} : Put(a, kind) \/ Send(a, kind)
             \/ Execute(a) \/ LoseReply(a) \/ Take(a) \/ Serve(a) \/ Arrive(a)
             \/ LosePop(a)
      PROVE  DamageInv'
  BY <1>3, PutDamage, SendDamage, ExecuteDamage, LoseReplyDamage, TakeDamage,
     ServeDamage, ArriveDamage, LosePopDamage
<1> QED
  BY <1>1, <1>2, <1>3, AbandonedDamage DEF Next

LEMMA DamageStarts == Init => DamageInv
<1> SUFFICES ASSUME Init
             PROVE  DamageInv
  OBVIOUS
<1>1. Users(Redis) = {}
  BY BusFacts DEF Init, Users
<1>2. Entries(flight) = {} /\ Entries(got) = {}
  BY <1>1 DEF Entries
<1>3. Range(pushed[Redis]) = {} /\ Len(pushed[Redis]) = 0 /\ Len(queue[Redis]) = 0
  BY BusFacts DEF Init, Range
<1>4. Doubling = {} /\ OwnItems
  BY DEF Init, Doubling, OwnItems, Busy
<1>5. IsFiniteSet({}) /\ Cardinality({}) = 0
  BY FS_EmptySet
<1>6. unread = 0 /\ abandoned = 0 /\ faults = 0
  BY DEF Init
<1>7. Damage = 0
  <2>1. Losses = 0 - 0 - 0 - 0 - 0
    BY <1>2, <1>3, <1>5, <1>6 DEF Losses
  <2>2. Repeats = 0 - 0
    BY <1>3, <1>5 DEF Repeats
  <2> QED
    BY <1>4, <1>5, <1>6, <2>1, <2>2 DEF Damage
<1> QED
  BY <1>2, <1>4, <1>5, <1>6, <1>7 DEF DamageInv

(* On Redis a task is lost or doubled by a fault only, one by each at most, *)
(* whatever is sent again, cancelled or left behind.                        *)
THEOREM DamageCounted == Spec => []DamageBounded
<1>1. BusInv /\ DamageInv => DamageBounded
  <2> SUFFICES ASSUME BusInv, DamageInv
               PROVE  DamageBounded
    OBVIOUS
  <2>1. PICK p \in Nat, q \in Nat, u \in Nat, f \in Nat, g \in Nat, r \in Nat,
             b \in Nat, d \in Nat : /\ Parts(p, q, u, f, g, r, b, d)
                                    /\ DamageOf(p, q, u, f, g, r, b, d) <= faults
    BY PartsBalance DEF BusInv
  <2>2. Losses = p - q - u - f - g
    BY <2>1 DEF Parts, Losses
  <2>3. Repeats = p - r
    BY <2>1 DEF Parts, Repeats
  <2>4. abandoned = b /\ faults \in Nat
    BY <2>1 DEF Parts, BusInv, TypeOK
  <2> QED
    BY <2>1, <2>2, <2>3, <2>4 DEF DamageBounded, DamageOf
<1>2. Spec => []DamageInv
  BY DamageStarts, DamageStep, BusInvariant, PTL DEF Spec
<1> QED
  BY <1>1, <1>2, BusInvariant, PTL

=============================================================================
