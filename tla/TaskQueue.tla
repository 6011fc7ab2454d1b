------------------------------ MODULE TaskQueue -----------------------------
(***************************************************************************)
(* What a task queue of the bus promises (src/pelmeni/bus/protocol.py,     *)
(* push_task and pop_task): tasks are handed out in the order in which     *)
(* they came, each to one consumer.  A reliable queue keeps to this.  An   *)
(* unreliable one may lose a task or take it in again, but the order of    *)
(* the tasks it holds is kept, and a task in it goes to one consumer.      *)
(***************************************************************************)
EXTENDS Sequences

CONSTANTS Tasks, Consumers,
          Reliable      \* neither loses nor repeats a task

VARIABLES queue,        \* tasks that wait
          pushed,       \* tasks that were ever taken in
          onway,        \* consumer -> the task on its way to it, if any
          got           \* consumer -> the tasks it was given

queueVars == << queue, pushed, onway, got >>

Init == /\ queue = << >> /\ pushed = {}
        /\ onway = [c \in Consumers |-> << >>]
        /\ got = [c \in Consumers |-> << >>]

Push == /\ \E t \in Tasks \ pushed : /\ queue' = Append(queue, t)
                                     /\ pushed' = pushed \cup {t}
        /\ UNCHANGED << onway, got >>

Pop == /\ queue # << >>
       /\ \E c \in Consumers : got' = [got EXCEPT ![c] = Append(@, Head(queue))]
       /\ queue' = Tail(queue)
       /\ UNCHANGED << pushed, onway >>

Repeat == /\ \E t \in pushed : queue' = Append(queue, t)
          /\ UNCHANGED << pushed, onway, got >>

Send == /\ queue # << >>
        /\ \E c \in Consumers :
              onway[c] = << >> /\ onway' = [onway EXCEPT ![c] = << Head(queue) >>]
        /\ queue' = Tail(queue)
        /\ UNCHANGED << pushed, got >>

Arrive == /\ \E c \in Consumers : /\ onway[c] # << >>
                                  /\ got' = [got EXCEPT ![c] = @ \o onway[c]]
                                  /\ onway' = [onway EXCEPT ![c] = << >>]
          /\ UNCHANGED << queue, pushed >>

Lose == \/ /\ queue # << >> /\ queue' = Tail(queue)
           /\ UNCHANGED << pushed, onway, got >>
        \/ /\ \E c \in Consumers : onway' = [onway EXCEPT ![c] = << >>]
           /\ UNCHANGED << queue, pushed, got >>

Next == Push \/ Pop \/ (~Reliable /\ (Repeat \/ Send \/ Arrive \/ Lose))

Spec == Init /\ [][Next]_queueVars

=============================================================================
