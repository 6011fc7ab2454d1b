------------------------- MODULE SessionStoreProofs -------------------------
(***************************************************************************)
(* Proofs about SessionStore for any number of events, crashes and         *)
(* conversations: what the log keeps and what a crash can cost.            *)
(***************************************************************************)
EXTENDS SessionStore, FiniteSetTheorems, TLAPS

\* What a prepared replacement of the log consists of.
TempIsRewrite == pc = "replacing" => temp = Rewritten(Header(asked)) /\ asked \in ConvIds

EventNumbers == \A i \in EventLines : file[i].event \in 1..started

\* The event of a torn line: its call of log never returned.
TornNotLogged == dangling => file[Len(file)].event \notin logged

StoreInv == TypeOK /\ TempIsRewrite /\ EventNumbers /\ EventsInOrder
            /\ TornNotLogged

USE StoreAssumption

-----------------------------------------------------------------------------
(* Lines.                                                                  *)

LEMMA LineTypes ==
  /\ \A k \in ConvIds \cup {NoConv} : /\ Header(k) \in Line
                                      /\ Header(k).kind = "header"
                                      /\ Header(k).conv = k
                                      /\ Header(k).event = 0
  /\ \A n \in Nat : /\ Event(n) \in Line
                    /\ Event(n).kind = "event"
                    /\ Event(n).event = n
  /\ Junk \in Line /\ Junk.kind = "junk" /\ Junk.event = 0
  /\ Cut \in Line /\ Cut.kind = "cut" /\ Cut.event = 0
BY DEF Line, Header, Event, Junk, Cut

\* Appending keeps all lines but a torn one, and never empties the log.
LEMMA AppendedShape ==
  ASSUME file \in Seq(Line), dangling \in BOOLEAN, dangling => file # << >>,
         NEW line \in Line
  PROVE  /\ Appended(line) \in Seq(Line)
         /\ dangling => /\ Len(Appended(line)) = Len(file)
                        /\ Appended(line)[Len(file)] \in {Junk, Cut}
                        /\ \A i \in 1..(Len(file) - 1) : Appended(line)[i] = file[i]
         /\ ~dangling => /\ Len(Appended(line)) = Len(file) + 1
                         /\ Appended(line)[Len(file) + 1] = line
                         /\ \A i \in 1..Len(file) : Appended(line)[i] = file[i]
<1>1. CASE dangling
  <2>1. Junk \in Line /\ Cut \in Line
    BY LineTypes
  <2>2. Len(file) \in Nat /\ Len(file) \in DOMAIN file
    BY <1>1
  <2>3. /\ Appended(line) = [file EXCEPT ![Len(file)] = Spoilt(line)]
        /\ Spoilt(line) \in {Junk, Cut}
    BY <1>1 DEF Appended, Spoilt
  <2> QED
    BY <1>1, <2>1, <2>2, <2>3
<1>2. CASE ~dangling
  <2>1. Appended(line) = Append(file, line)
    BY <1>2 DEF Appended
  <2> QED
    BY <1>2, <2>1
<1> QED
  BY <1>1, <1>2

\* Rewriting the header keeps every other line in its place.
LEMMA RewrittenShape ==
  ASSUME file \in Seq(Line), file # << >>, NEW k \in ConvIds
  PROVE  /\ Rewritten(Header(k)) \in Seq(Line)
         /\ Len(Rewritten(Header(k))) = Len(file)
         /\ Rewritten(Header(k))[1] = Header(k)
         /\ \A i \in 2..Len(file) : Rewritten(Header(k))[i] = file[i]
<1>1. Header(k) \in Line
  BY LineTypes
<1>2. Tail(file) \in Seq(Line) /\ Len(Tail(file)) = Len(file) - 1
      /\ \A i \in 1..(Len(file) - 1) : Tail(file)[i] = file[i + 1]
  OBVIOUS
<1>3. Len(file) \in Nat /\ Len(file) >= 1
  OBVIOUS
<1> HIDE DEF Header
<1>4. /\ Rewritten(Header(k)) \in Seq(Line)
      /\ Len(Rewritten(Header(k))) = Len(file)
      /\ Rewritten(Header(k))[1] = Header(k)
  BY <1>1, <1>2, <1>3 DEF Rewritten
<1>5. ASSUME NEW i \in 2..Len(file)
      PROVE  Rewritten(Header(k))[i] = file[i]
  <2>1. Rewritten(Header(k))[i] = Tail(file)[i - 1]
    BY <1>1, <1>2, <1>3 DEF Rewritten
  <2>2. i - 1 \in 1..(Len(file) - 1) /\ (i - 1) + 1 = i
    BY <1>3
  <2> QED
    BY <2>1, <2>2, <1>2
<1> QED
  BY <1>4, <1>5

-----------------------------------------------------------------------------
(* One step.                                                               *)

LEMMA InitHolds == Init => StoreInv
<1> SUFFICES ASSUME Init
             PROVE  StoreInv
  OBVIOUS
<1>1. EventLines = {}
  BY DEF Init, EventLines
<1>2. TypeOK
  <2>1. << >> \in Seq(Line)
    OBVIOUS
  <2> QED
    BY <2>1, Zenon DEF Init, TypeOK
<1> QED
  BY <1>1, <1>2 DEF Init, StoreInv, TempIsRewrite, EventNumbers, EventsInOrder,
                    TornNotLogged

\* What every append shares: the lines before it, a line that is no event or
\* the newest one, and a torn line only where the call did not return.
AppendsLine(line) ==
  /\ file' = Appended(line)
  /\ dangling' \in BOOLEAN
  /\ line \in Line
  /\ line.kind = "event" => started' = started + 1 /\ line.event = started'
  /\ line.kind # "event" => started' = started

LEMMA AppendStep ==
  ASSUME StoreInv, NEW line \in Line, AppendsLine(line)
  PROVE  /\ file' \in Seq(Line) /\ file' # << >>
         /\ EventNumbers' /\ EventsInOrder'
         /\ file'[Len(file')] \in {line, Junk, Cut}
<1> USE DEF StoreInv, TypeOK, AppendsLine
<1>1. started \in Nat /\ started' \in Nat /\ started <= started'
  OBVIOUS
<1>2. file' = Appended(line)
  OBVIOUS
<1>3. CASE dangling
  <2>1. /\ file' \in Seq(Line) /\ Len(file') = Len(file) /\ Len(file) >= 1
        /\ file'[Len(file)] \in {Junk, Cut}
        /\ \A i \in 1..(Len(file) - 1) : file'[i] = file[i]
    BY <1>2, <1>3, AppendedShape
  <2>2. \A i \in EventLines' : i \in EventLines /\ file'[i] = file[i]
    BY <2>1, LineTypes DEF EventLines
  <2>3. EventNumbers'
    BY <1>1, <2>2 DEF EventNumbers
  <2>4. EventsInOrder'
    BY <2>2 DEF EventsInOrder
  <2> QED
    BY <2>1, <2>3, <2>4
<1>4. CASE ~dangling
  <2>1. /\ file' \in Seq(Line) /\ Len(file') = Len(file) + 1
        /\ file'[Len(file) + 1] = line
        /\ \A i \in 1..Len(file) : file'[i] = file[i]
    BY <1>2, <1>4, AppendedShape
  <2>2. Len(file) \in Nat
    OBVIOUS
  <2>3. \A i \in EventLines' :
           \/ i \in EventLines /\ file'[i] = file[i] /\ i <= Len(file)
           \/ i = Len(file) + 1 /\ line.kind = "event" /\ file'[i] = line
    BY <2>1, <2>2 DEF EventLines
  <2>4. EventNumbers'
    BY <1>1, <2>3 DEF EventNumbers
  <2>5. EventsInOrder'
    <3>1. SUFFICES ASSUME NEW i \in EventLines', NEW j \in EventLines', i < j
                   PROVE  file'[i].event < file'[j].event
      BY DEF EventsInOrder
    <3>2. i \in Nat /\ j \in Nat
      BY <2>1 DEF EventLines
    <3>3. i \in EventLines /\ file'[i] = file[i] /\ i <= Len(file)
      BY <2>2, <2>3, <3>1, <3>2
    <3>4. CASE j \in EventLines /\ file'[j] = file[j]
      BY <3>1, <3>3, <3>4 DEF EventsInOrder
    <3>5. CASE line.kind = "event" /\ file'[j] = line
      <4>1. file[i].event \in 1..started
        BY <3>3 DEF EventNumbers
      <4> QED
        BY <1>1, <3>3, <3>5, <4>1
    <3> QED
      BY <2>3, <3>4, <3>5
  <2> QED
    BY <2>1, <2>2, <2>4, <2>5
<1> QED
  BY <1>3, <1>4

LEMMA StoreStep == StoreInv /\ [Next]_vars => StoreInv'
<1> SUFFICES ASSUME StoreInv, [Next]_vars
             PROVE  StoreInv'
  OBVIOUS
<1> USE DEF StoreInv
<1>t. TypeOK
  OBVIOUS
<1>0. ASSUME UNCHANGED file, UNCHANGED started
      PROVE  EventNumbers' /\ EventsInOrder'
  BY <1>0 DEF EventNumbers, EventsInOrder, EventLines
<1>1. CASE Open
  BY <1>0, <1>1 DEF Open, TypeOK, TempIsRewrite, TornNotLogged, HasHeader
<1>2. CASE EnsureHeader
  <2>0. Header(NoConv) \in Line /\ Header(NoConv).kind = "header"
        /\ Header(NoConv).event = 0
    BY LineTypes
  <2>1. CASE UNCHANGED << file, dangling >>
    BY <1>2, <2>1, <1>0 DEF EnsureHeader, Tear, Write, TypeOK, TempIsRewrite,
                            TornNotLogged, HasHeader
  <2>2. ASSUME NEW line \in {Header(NoConv), Junk, Cut}, file' = Appended(line),
               dangling' \in BOOLEAN
        PROVE  StoreInv'
    <3>1. line \in Line /\ line.kind # "event" /\ line.event = 0
      BY <2>0, <2>2, LineTypes
    <3>2. AppendsLine(line)
      BY <1>2, <2>2, <3>1 DEF EnsureHeader, AppendsLine
    <3>3. /\ file' \in Seq(Line) /\ file' # << >>
          /\ EventNumbers' /\ EventsInOrder'
          /\ file'[Len(file')] \in {line, Junk, Cut}
      BY <3>1, <3>2, AppendStep
    <3>4. TornNotLogged'
      BY <1>2, <1>t, <3>1, <3>3, LineTypes DEF EnsureHeader, TornNotLogged, TypeOK
    <3>5. pc' \in {"open", "closed"} /\ crashes' \in Nat
      BY <1>2, <1>t DEF EnsureHeader, Tear, TypeOK
    <3>6. TypeOK' /\ TempIsRewrite'
      BY <1>2, <1>t, <2>2, <3>3, <3>5 DEF EnsureHeader, TypeOK, TempIsRewrite
    <3> QED
      BY <3>3, <3>4, <3>6
  <2> QED
    BY <1>2, <2>1, <2>2 DEF EnsureHeader, Tear, Write
<1>3. CASE Log
  <2>0. started' = started + 1 /\ started' \in Nat /\ started \in Nat
        /\ logged \subseteq 1..started
    BY <1>3, <1>t DEF Log, TypeOK
  <2>1. /\ Event(started') \in Line /\ Event(started').kind = "event"
        /\ Event(started').event = started' /\ Junk \in Line
        /\ Junk.kind = "junk" /\ Junk.event = 0
        /\ Cut \in Line /\ Cut.kind = "cut" /\ Cut.event = 0
    BY <2>0, LineTypes
  <2>2. CASE UNCHANGED << file, dangling >> /\ logged' = logged /\ pc' = "closed"
             /\ crashes' = crashes + 1
    <3>1. EventNumbers' /\ EventsInOrder'
      BY <2>0, <2>2 DEF EventNumbers, EventsInOrder, EventLines
    <3>2. TypeOK' /\ TempIsRewrite' /\ TornNotLogged'
      BY <1>3, <1>t, <2>0, <2>2 DEF Log, TypeOK, TempIsRewrite, TornNotLogged
    <3> QED
      BY <3>1, <3>2
  <2>3. CASE /\ file' = Appended(Event(started')) /\ dangling' \in BOOLEAN
             /\ dangling' => logged' = logged
             /\ logged' \subseteq logged \cup {started'}
             /\ pc' \in {"open", "closed"} /\ crashes' \in Nat
    <3>1. AppendsLine(Event(started'))
      BY <2>0, <2>1, <2>3 DEF AppendsLine
    <3>2. /\ file' \in Seq(Line) /\ file' # << >>
          /\ EventNumbers' /\ EventsInOrder'
          /\ file'[Len(file')] \in {Event(started'), Junk, Cut}
      BY <2>1, <3>1, AppendStep
    <3>3. file'[Len(file')].event \in {started', 0}
      BY <2>1, <3>2
    <3>4. TornNotLogged'
      BY <2>0, <2>3, <3>3 DEF TornNotLogged
    <3>5. TypeOK' /\ TempIsRewrite'
      BY <1>3, <1>t, <2>0, <2>3, <3>2 DEF Log, TypeOK, TempIsRewrite
    <3> QED
      BY <3>2, <3>4, <3>5
  <2>4. ASSUME NEW part \in {Junk, Cut},
               file' = Appended(part), dangling' = TRUE, logged' = logged,
               pc' = "closed", crashes' \in Nat
        PROVE  StoreInv'
    <3>1. TypeOK /\ part \in Line
      BY <1>t, <2>1
    <3>2. /\ file' \in Seq(Line) /\ file' # << >>
          /\ EventLines' \subseteq EventLines
          /\ \A i \in EventLines' : file'[i] = file[i]
          /\ file'[Len(file')] \in {Junk, Cut}
      <4>1. CASE dangling
        <5>1. /\ file' \in Seq(Line) /\ Len(file') = Len(file) /\ Len(file) >= 1
              /\ Len(file) \in Nat /\ file'[Len(file)] \in {Junk, Cut}
              /\ \A i \in 1..(Len(file) - 1) : file'[i] = file[i]
          BY <2>4, <3>1, <4>1, AppendedShape DEF TypeOK
        <5> QED
          BY <2>1, <5>1 DEF EventLines
      <4>2. CASE ~dangling
        <5>1. /\ file' \in Seq(Line) /\ Len(file') = Len(file) + 1
              /\ Len(file) \in Nat /\ file'[Len(file) + 1] = part
              /\ \A i \in 1..Len(file) : file'[i] = file[i]
          BY <2>4, <3>1, <4>2, AppendedShape DEF TypeOK
        <5> QED
          BY <2>1, <5>1 DEF EventLines
      <4> QED
        BY <4>1, <4>2
    <3>3. EventNumbers' /\ EventsInOrder'
      BY <2>0, <3>2 DEF EventNumbers, EventsInOrder
    <3>4. TornNotLogged'
      BY <2>0, <2>1, <2>4, <3>2 DEF TornNotLogged
    <3>5. TypeOK' /\ TempIsRewrite'
      BY <1>3, <1>t, <2>0, <2>4, <3>2 DEF Log, TypeOK, TempIsRewrite
    <3> QED
      BY <3>3, <3>4, <3>5
  <2>5. CASE Write(Event(started')) /\ logged' = logged \cup {started'}
             /\ UNCHANGED << pc, crashes >>
    BY <1>3, <1>t, <2>3, <2>5 DEF Log, Write, TypeOK
  <2>6. CASE Tear(Event(started')) /\ UNCHANGED logged
    <3>1. crashes' = crashes + 1 /\ crashes' \in Nat /\ pc' = "closed"
          /\ logged' = logged
      BY <1>t, <2>6 DEF Tear, TypeOK
    <3> QED
      BY <2>2, <2>3, <2>4, <2>6, <3>1 DEF Tear
  <2> QED
    BY <1>3, <2>5, <2>6 DEF Log
<1>4. CASE AppendHeader
  <2> PICK k \in ConvIds :
           \/ Write(Header(k)) /\ conv' = k /\ UNCHANGED << pc, crashes >>
           \/ Tear(Header(k)) /\ UNCHANGED conv
    BY <1>4 DEF AppendHeader
  <2>0. Header(k) \in Line /\ Header(k).kind = "header" /\ Header(k).event = 0
    BY LineTypes
  <2>1. CASE UNCHANGED << file, dangling >>
    <3>1. pc' \in {"open", "closed"} /\ crashes' \in Nat /\ conv' \in ConvIds \cup {NoConv}
      BY <1>4, <1>t DEF AppendHeader, Tear, TypeOK
    <3> QED
      BY <1>4, <2>1, <3>1, <1>0, <1>t DEF AppendHeader, TypeOK, TempIsRewrite, TornNotLogged
  <2>2. ASSUME NEW line \in {Header(k), Junk, Cut}, file' = Appended(line),
               dangling' \in BOOLEAN
        PROVE  StoreInv'
    <3>1. line \in Line /\ line.kind # "event" /\ line.event = 0
      BY <2>0, <2>2, LineTypes
    <3>2. AppendsLine(line)
      BY <1>4, <2>2, <3>1 DEF AppendHeader, AppendsLine
    <3>3. /\ file' \in Seq(Line) /\ file' # << >>
          /\ EventNumbers' /\ EventsInOrder'
          /\ file'[Len(file')] \in {line, Junk, Cut}
      BY <3>1, <3>2, AppendStep
    <3>4. TornNotLogged'
      BY <1>4, <1>t, <3>1, <3>3, LineTypes DEF AppendHeader, TornNotLogged, TypeOK
    <3>5. pc' \in {"open", "closed"} /\ crashes' \in Nat /\ conv' \in ConvIds \cup {NoConv}
      BY <1>4, <1>t DEF AppendHeader, Tear, TypeOK
    <3>6. TypeOK' /\ TempIsRewrite'
      BY <1>4, <1>t, <2>2, <3>3, <3>5 DEF AppendHeader, TypeOK, TempIsRewrite
    <3> QED
      BY <3>3, <3>4, <3>6
  <2> QED
    BY <2>1, <2>2 DEF Tear, Write
<1>5. CASE WriteTemp
  <2> PICK k \in ConvIds : temp' = Rewritten(Header(k)) /\ asked' = k
    BY <1>5 DEF WriteTemp
  <2>1. file \in Seq(Line) /\ file # << >>
    BY <1>5, <1>t DEF WriteTemp, HasHeader, TypeOK
  <2>2. temp' \in Seq(Line) /\ Len(temp') = Len(file)
    BY <2>1, RewrittenShape
  <2>3. temp' # << >>
    BY <2>1, <2>2
  <2>4. temp' = Rewritten(Header(asked))'
    BY <1>5 DEF WriteTemp, Rewritten, Header
  <2>5. TypeOK' /\ TempIsRewrite'
    BY <1>5, <1>t, <2>2, <2>3, <2>4 DEF WriteTemp, TypeOK, TempIsRewrite, HasHeader
  <2>6. TornNotLogged'
    BY <1>5 DEF WriteTemp, TornNotLogged
  <2> QED
    BY <1>0, <1>5, <2>5, <2>6 DEF WriteTemp
<1>6. CASE Replace
  <2>1. /\ file \in Seq(Line) /\ file # << >> /\ asked \in ConvIds
        /\ file' = Rewritten(Header(asked)) /\ HasHeader
    BY <1>6, <1>t DEF Replace, TypeOK, TempIsRewrite, HasHeader
  <2>2. /\ file' \in Seq(Line) /\ Len(file') = Len(file)
        /\ file'[1] = Header(asked)
        /\ \A i \in 2..Len(file) : file'[i] = file[i]
    BY <2>1, RewrittenShape
  <2>3. Header(asked).kind = "header"
    BY <2>1, LineTypes
  <2>4. Len(file) \in Nat /\ Len(file) >= 1 /\ file' # << >>
    BY <2>1, <2>2
  <2>5. \A i \in EventLines' : i \in EventLines /\ file'[i] = file[i]
    BY <2>2, <2>3, <2>4 DEF EventLines
  <2>6. EventNumbers' /\ EventsInOrder'
    BY <1>6, <2>5 DEF Replace, EventNumbers, EventsInOrder
  <2>7. TornNotLogged'
    <3>1. dangling' => dangling /\ Len(file') > 1
      BY <1>6 DEF Replace
    <3>2. dangling' => file'[Len(file')] = file[Len(file)]
      BY <2>2, <2>4, <3>1
    <3> QED
      BY <1>6, <3>1, <3>2 DEF Replace, TornNotLogged
  <2>8. TypeOK' /\ TempIsRewrite'
    BY <1>6, <1>t, <2>1, <2>2, <2>4 DEF Replace, TypeOK, TempIsRewrite
  <2> QED
    BY <2>6, <2>7, <2>8
<1>7. CASE Crash
  BY <1>0, <1>7 DEF Crash, TypeOK, TempIsRewrite, TornNotLogged, HasHeader
<1>8. CASE UNCHANGED vars
  BY <1>0, <1>8 DEF vars, TypeOK, TempIsRewrite, TornNotLogged, HasHeader,
                    Rewritten, Header
<1> QED
  BY <1>1, <1>2, <1>3, <1>4, <1>5, <1>6, <1>7, <1>8 DEF Next

\* The inductive invariant, from which the theorems below follow.
THEOREM StoreInvariant == Spec => []StoreInv
BY InitHolds, StoreStep, PTL DEF Spec

\* Every reachable state of the log is well typed.
THEOREM TypeCorrect == Spec => []TypeOK
<1>1. StoreInv => TypeOK
  BY DEF StoreInv
<1> QED
  BY <1>1, StoreInvariant, PTL

\* However often the header is rewritten and the process dies, the events of
\* the log stand in the order of the calls of log, none of them twice.
THEOREM OrderCorrect == Spec => []EventsInOrder
<1>1. StoreInv => EventsInOrder
  BY DEF StoreInv
<1> QED
  BY <1>1, StoreInvariant, PTL

-----------------------------------------------------------------------------
(* The header.                                                             *)

\* An append leaves line 1 alone unless it is the torn line itself.
LEMMA AppendKeepsFirst ==
  ASSUME TypeOK, NEW line \in Line, file' = Appended(line), file # << >>
  PROVE  /\ file' # << >>
         /\ file'[1] = file[1] \/ (Len(file) = 1 /\ dangling /\ file'[1] \in {Junk, Cut})
         /\ HasHeader' => HasHeader
         /\ HeaderSafe => file'[1] = file[1] /\ Len(file') > 1
<1>1. /\ file \in Seq(Line) /\ dangling \in BOOLEAN /\ (dangling => file # << >>)
      /\ Len(file) \in Nat /\ Len(file) >= 1
      /\ file' = Appended(line) /\ line \in Line
  BY DEF TypeOK
<1>5. /\ Appended(line) \in Seq(Line)
      /\ dangling => /\ Len(Appended(line)) = Len(file)
                     /\ Appended(line)[Len(file)] \in {Junk, Cut}
                     /\ \A i \in 1..(Len(file) - 1) : Appended(line)[i] = file[i]
      /\ ~dangling => /\ Len(Appended(line)) = Len(file) + 1
                      /\ Appended(line)[Len(file) + 1] = line
                      /\ \A i \in 1..Len(file) : Appended(line)[i] = file[i]
  BY <1>1, AppendedShape
<1>2. Junk.kind = "junk" /\ Cut.kind = "cut"
  BY LineTypes
<1>3. CASE dangling
  <2>1. /\ file' \in Seq(Line) /\ Len(file') = Len(file) /\ file'[Len(file)] \in {Junk, Cut}
        /\ \A i \in 1..(Len(file) - 1) : file'[i] = file[i]
    BY <1>1, <1>3, <1>5
  <2> QED
    BY <1>1, <1>2, <1>3, <2>1 DEF HasHeader, HeaderSafe
<1>4. CASE ~dangling
  <2>1. /\ file' \in Seq(Line) /\ Len(file') = Len(file) + 1
        /\ \A i \in 1..Len(file) : file'[i] = file[i]
    BY <1>1, <1>4, <1>5
  <2> QED
    BY <1>1, <2>1 DEF HasHeader, HeaderSafe
<1> QED
  BY <1>1, <1>3, <1>4

\* Replacing the log puts the new header on line 1 and ends it.
LEMMA ReplaceHeader ==
  ASSUME StoreInv, Replace
  PROVE  /\ file' # << >> /\ file'[1] = Header(asked) /\ asked \in ConvIds
         /\ HasHeader' /\ HeaderSafe'
<1>1. /\ file \in Seq(Line) /\ file # << >> /\ asked \in ConvIds
      /\ file' = Rewritten(Header(asked)) /\ temp = file'
  BY DEF StoreInv, Replace, TypeOK, TempIsRewrite, HasHeader
<1>2. /\ file' \in Seq(Line) /\ Len(file') = Len(file) /\ file'[1] = Header(asked)
  BY <1>1, RewrittenShape
<1>3. Header(asked).kind = "header" /\ file' # << >>
  BY <1>1, <1>2, LineTypes
<1>4. Len(file') > 1 \/ ~dangling'
  BY <1>1 DEF Replace
<1> QED
  BY <1>1, <1>2, <1>3, <1>4 DEF HasHeader, HeaderSafe

\* What a step does to the log, whichever action it is.
LEMMA FileSteps ==
  ASSUME StoreInv, [Next]_vars
  PROVE  \/ UNCHANGED << file, dangling >>
         \/ \E line \in Line : file' = Appended(line)
         \/ Replace
<1>1. CASE EnsureHeader
  <2>1. Header(NoConv) \in Line /\ Junk \in Line /\ Cut \in Line
    BY LineTypes
  <2> QED
    BY <1>1, <2>1 DEF EnsureHeader, Write, Tear
<1>2. CASE Log
  <2>1. started' \in Nat
    BY <1>2 DEF Log, StoreInv, TypeOK
  <2>2. Event(started') \in Line /\ Junk \in Line /\ Cut \in Line
    BY <2>1, LineTypes
  <2> QED
    BY <1>2, <2>2 DEF Log, Write, Tear
<1>3. CASE AppendHeader
  <2>1. \A k \in ConvIds : Header(k) \in Line /\ Junk \in Line /\ Cut \in Line
    BY LineTypes
  <2> QED
    BY <1>3, <2>1 DEF AppendHeader, Write, Tear
<1> QED
  BY <1>1, <1>2, <1>3 DEF Next, Open, WriteTemp, Crash, vars

\* A header once ended stays on line 1, through every append, torn or not,
\* every rewriting and every crash in the middle of one.
THEOREM HeaderCorrect == Spec => HeaderStays
<1>1. StoreInv /\ [Next]_vars => [HeaderSafe => HeaderSafe']_vars
  <2> SUFFICES ASSUME StoreInv, [Next]_vars, HeaderSafe
               PROVE  HeaderSafe'
    OBVIOUS
  <2>1. CASE UNCHANGED << file, dangling >>
    BY <2>1 DEF HeaderSafe, HasHeader
  <2>2. ASSUME NEW line \in Line, file' = Appended(line)
        PROVE  HeaderSafe'
    <3>1. TypeOK /\ file # << >>
      BY DEF StoreInv, HeaderSafe, HasHeader
    <3>2. file' # << >> /\ file'[1] = file[1] /\ Len(file') > 1
      BY <2>2, <3>1, AppendKeepsFirst
    <3> QED
      BY <3>2 DEF HeaderSafe, HasHeader
  <2> QED
    BY <2>1, <2>2, FileSteps, ReplaceHeader
<1> QED
  BY <1>1, StoreInvariant, PTL DEF Spec, HeaderStays

\* For a log that was opened with ensure_header: until line 1 exists no
\* conversation is known, and line 1 holds the last one recorded.
HeaderInv ==
  /\ pc \in {"open", "replacing"} => file # << >>
  /\ file = << >> => conv = NoConv
  /\ ConversationKept

LEMMA HeaderInvStep ==
  ASSUME EnsuresHeader, StoreInv, HeaderInv, [Next]_vars
  PROVE  HeaderInv'
<1> USE DEF HeaderInv
<1>t. TypeOK
  BY DEF StoreInv
<1>1. CASE UNCHANGED << file, conv >> /\ (pc' \in {"open", "replacing"} => file # << >>)
  BY <1>1 DEF ConversationKept, HasHeader
<1>2. ASSUME NEW line \in Line, file' = Appended(line), file # << >>, UNCHANGED conv
      PROVE  HeaderInv'
  <2>1. /\ file' # << >>
        /\ file'[1] = file[1] \/ file'[1] \in {Junk, Cut}
    BY <1>t, <1>2, AppendKeepsFirst
  <2>2. Junk.kind = "junk" /\ Cut.kind = "cut"
    BY LineTypes
  <2> QED
    BY <1>2, <2>1, <2>2 DEF ConversationKept, HasHeader
<1>3. CASE EnsureHeader
  <2>1. Header(NoConv) \in Line /\ Header(NoConv).conv = NoConv /\ Junk \in Line
        /\ Junk.kind = "junk" /\ Cut \in Line /\ Cut.kind = "cut"
    BY LineTypes
  <2>2. CASE UNCHANGED << file, dangling >> /\ (HasHeader \/ pc' = "closed")
    BY <1>1, <1>3, <2>2 DEF EnsureHeader, HasHeader
  <2>3. ASSUME NEW line \in {Header(NoConv), Junk, Cut}, file' = Appended(line),
               file = << >>
        PROVE  HeaderInv'
    <3>1. file' = << line >>
      BY <1>t, <2>3 DEF Appended, TypeOK
    <3> QED
      BY <1>3, <2>1, <2>3, <3>1 DEF EnsureHeader, ConversationKept, HasHeader
  <2> QED
    BY <1>2, <1>3, <2>1, <2>2, <2>3 DEF EnsureHeader, Write, Tear
<1>4. CASE AppendHeader
  <2>1. PICK k \in ConvIds :
           \/ Write(Header(k)) /\ conv' = k /\ UNCHANGED << pc, crashes >>
           \/ Tear(Header(k)) /\ UNCHANGED conv
    BY <1>4 DEF AppendHeader
  <2>2. file # << >> /\ ~HasHeader /\ Header(k) \in Line
        /\ Junk \in Line /\ Cut \in Line
    BY <1>4, LineTypes DEF AppendHeader
  <2>3. CASE UNCHANGED << file, dangling >> /\ UNCHANGED conv
    BY <1>1, <2>2, <2>3
  <2>4. ASSUME NEW line \in Line, file' = Appended(line)
        PROVE  HeaderInv'
    <3>1. file' # << >> /\ ~HasHeader'
      BY <1>t, <2>2, <2>4, AppendKeepsFirst
    <3> QED
      BY <3>1 DEF ConversationKept
  <2> QED
    BY <2>1, <2>2, <2>3, <2>4 DEF Write, Tear
<1>5. CASE Replace
  <2>1. file' # << >> /\ file'[1] = Header(asked) /\ asked \in ConvIds
    BY <1>5, ReplaceHeader
  <2>2. file'[1].conv = asked /\ conv' = asked
    BY <1>5, <2>1, LineTypes DEF Replace
  <2> QED
    BY <2>1, <2>2 DEF ConversationKept
<1>6. CASE Log
  <2>1. file # << >> /\ UNCHANGED conv /\ started' \in Nat
    BY <1>6, <1>t DEF Log, TypeOK
  <2>2. Event(started') \in Line /\ Junk \in Line /\ Cut \in Line
    BY <2>1, LineTypes
  <2>3. \/ UNCHANGED file
        \/ file' = Appended(Event(started'))
        \/ file' = Appended(Junk)
        \/ file' = Appended(Cut)
    BY <1>6 DEF Log, Write, Tear
  <2> QED
    BY <1>1, <1>2, <2>1, <2>2, <2>3
<1>7. CASE Open \/ WriteTemp \/ Crash \/ UNCHANGED vars
  BY <1>1, <1>7 DEF Open, WriteTemp, Crash, vars, HasHeader
<1> QED
  BY <1>3, <1>4, <1>5, <1>6, <1>7 DEF Next

\* A driver that calls ensure_header first resumes the conversation that was
\* recorded last, whatever crashes came between.
THEOREM ConversationCorrect == EnsuresHeader => (Spec => []ConversationKept)
<1> SUFFICES ASSUME EnsuresHeader
             PROVE  Spec => []ConversationKept
  OBVIOUS
<1>1. Init => HeaderInv
  BY DEF Init, HeaderInv, ConversationKept, HasHeader
<1>2. StoreInv /\ HeaderInv /\ [Next]_vars => HeaderInv'
  BY HeaderInvStep
<1>3. HeaderInv => ConversationKept
  BY DEF HeaderInv
<1> QED
  BY <1>1, <1>2, <1>3, StoreInvariant, PTL DEF Spec

-----------------------------------------------------------------------------
(* What a crash can cost.                                                  *)

Lost == logged \ Kept

\* A torn line is a crash whose cost is still to come: the next append pays.
LossInv == Cardinality(Lost) + (IF dangling THEN 1 ELSE 0) <= crashes

\* Lost is finite, and growing it by one event at most costs one at most.
LEMMA LostSize ==
  ASSUME TypeOK, NEW x, NEW more
  PROVE  /\ IsFiniteSet(Lost) /\ Cardinality(Lost) \in Nat
         /\ more \subseteq Lost => Cardinality(more) \in Nat
                                  /\ Cardinality(more) <= Cardinality(Lost)
         /\ more \subseteq Lost \cup {x} =>
               Cardinality(more) \in Nat /\ Cardinality(more) <= Cardinality(Lost) + 1
<1>1. started \in Int /\ 1 \in Int
  BY DEF TypeOK
<1>2. IsFiniteSet(1..started)
  BY <1>1, FS_Interval, Zenon
<1>3. Lost \subseteq 1..started
  BY DEF TypeOK, Lost
<1>4. IsFiniteSet(Lost)
  BY <1>2, <1>3, FS_Subset, Zenon
<1>5. Cardinality(Lost) \in Nat
  BY <1>4, FS_CardinalityType, Zenon
<1>6. ASSUME more \subseteq Lost
      PROVE  Cardinality(more) \in Nat /\ Cardinality(more) <= Cardinality(Lost)
  <2>1. IsFiniteSet(more)
    BY <1>4, <1>6, FS_Subset, Zenon
  <2> QED
    BY <1>4, <1>6, <2>1, FS_Subset, FS_CardinalityType, Zenon
<1>7. ASSUME more \subseteq Lost \cup {x}
      PROVE  Cardinality(more) \in Nat /\ Cardinality(more) <= Cardinality(Lost) + 1
  <2>1. IsFiniteSet(Lost \cup {x})
        /\ Cardinality(Lost \cup {x}) \in {Cardinality(Lost), Cardinality(Lost) + 1}
    <3>1. CASE x \in Lost
      <4>1. Lost \cup {x} = Lost
        BY <3>1
      <4> QED
        BY <4>1, <1>4
    <3>2. CASE x \notin Lost
      BY <3>2, <1>4, FS_AddElement, Zenon
    <3> QED
      BY <3>1, <3>2
  <2>2. IsFiniteSet(more) /\ Cardinality(more) <= Cardinality(Lost \cup {x})
    BY <2>1, <1>7, FS_Subset, Zenon
  <2>3. Cardinality(more) \in Nat
    BY <2>2, FS_CardinalityType, Zenon
  <2> QED
    BY <1>5, <2>1, <2>2, <2>3
<1> QED
  BY <1>4, <1>5, <1>6, <1>7

\* An append keeps every logged event, and adds its own unless it is torn by
\* what stands before it.
LEMMA AppendKeeps ==
  ASSUME StoreInv, NEW line \in Line, file' = Appended(line)
  PROVE  /\ \A n \in logged : n \in Kept => n \in Kept'
         /\ (~dangling /\ line.kind = "event") => line.event \in Kept'
<1>1. /\ file \in Seq(Line) /\ dangling \in BOOLEAN /\ (dangling => file # << >>)
      /\ Len(file) \in Nat /\ line \in Line /\ file' = Appended(line)
  BY DEF StoreInv, TypeOK
<1>2. CASE dangling
  <2>1. /\ file' \in Seq(Line) /\ Len(file') = Len(file)
        /\ \A i \in 1..(Len(file) - 1) : file'[i] = file[i]
    BY <1>1, <1>2, AppendedShape
  <2>2. ASSUME NEW n \in logged, n \in Kept
        PROVE  n \in Kept'
    <3>1. PICK i \in EventLines : n = file[i].event
      BY <2>2 DEF Kept
    <3>2. i # Len(file)
      BY <1>2, <2>2, <3>1 DEF StoreInv, TornNotLogged
    <3>3. i \in 1..(Len(file) - 1) /\ i \in DOMAIN file'
      BY <1>1, <2>1, <3>1, <3>2 DEF EventLines
    <3>4. i \in EventLines' /\ file'[i].event = n
      BY <2>1, <3>1, <3>3 DEF EventLines
    <3> QED
      BY <3>4 DEF Kept
  <2> QED
    BY <1>2, <2>2
<1>3. CASE ~dangling
  <2>1. /\ file' \in Seq(Line) /\ Len(file') = Len(file) + 1
        /\ file'[Len(file) + 1] = line
        /\ \A i \in 1..Len(file) : file'[i] = file[i]
    BY <1>1, <1>3, AppendedShape
  <2>2. EventLines \subseteq EventLines' /\ \A i \in EventLines : file'[i] = file[i]
    BY <1>1, <2>1 DEF EventLines
  <2>3. Kept \subseteq Kept'
    BY <2>2 DEF Kept
  <2>4. line.kind = "event" => Len(file) + 1 \in EventLines'
    BY <1>1, <2>1 DEF EventLines
  <2>5. line.kind = "event" => line.event \in Kept'
    BY <2>1, <2>4 DEF Kept
  <2> QED
    BY <2>3, <2>5
<1> QED
  BY <1>2, <1>3, <1>1

\* Rewriting the header keeps every event.
LEMMA ReplaceKeeps ==
  ASSUME StoreInv, Replace
  PROVE  Kept \subseteq Kept'
<1>1. /\ file \in Seq(Line) /\ file # << >> /\ HasHeader /\ asked \in ConvIds
      /\ file' = Rewritten(Header(asked)) /\ Len(file) \in Nat
  BY DEF StoreInv, Replace, TypeOK, TempIsRewrite, HasHeader
<1>2. /\ file' \in Seq(Line) /\ Len(file') = Len(file)
      /\ \A i \in 2..Len(file) : file'[i] = file[i]
  BY <1>1, RewrittenShape
<1>3. \A i \in EventLines : i \in 2..Len(file)
  BY <1>1 DEF EventLines, HasHeader
<1>4. EventLines \subseteq EventLines' /\ \A i \in EventLines : file'[i] = file[i]
  BY <1>1, <1>2, <1>3 DEF EventLines
<1> QED
  BY <1>4 DEF Kept

LEMMA LossStep ==
  ASSUME StoreInv, LossInv, [Next]_vars
  PROVE  LossInv'
<1>t. TypeOK /\ crashes \in Nat /\ dangling \in BOOLEAN /\ Cardinality(Lost) \in Nat
  <2>1. TypeOK /\ crashes \in Nat /\ dangling \in BOOLEAN
    BY DEF StoreInv, TypeOK
  <2> QED
    BY <2>1, LostSize
<1>n. crashes' \in Nat /\ dangling' \in BOOLEAN
  BY StoreStep DEF StoreInv, TypeOK
\* Nothing logged is lost, and a line is torn only in a crash.
<1>1. ASSUME Lost' \subseteq Lost,
             \/ crashes' = crashes + 1
             \/ crashes' = crashes /\ (dangling' => dangling)
      PROVE  LossInv'
  <2>1. Cardinality(Lost') \in Nat /\ Cardinality(Lost') <= Cardinality(Lost)
    BY <1>t, <1>1, LostSize
  <2> QED
    BY <1>t, <1>n, <1>1, <2>1 DEF LossInv
\* An event goes with the torn line it was appended to.
<1>2. ASSUME NEW x, Lost' \subseteq Lost \cup {x}, dangling, ~dangling', crashes' = crashes
      PROVE  LossInv'
  <2>1. Cardinality(Lost') \in Nat /\ Cardinality(Lost') <= Cardinality(Lost) + 1
    BY <1>t, <1>2, LostSize
  <2> QED
    BY <1>t, <1>n, <1>2, <2>1 DEF LossInv
<1>3. ASSUME UNCHANGED << file, logged >>
      PROVE  Lost' \subseteq Lost
  BY <1>3 DEF Lost, Kept, EventLines
<1>4. ASSUME NEW line \in Line, file' = Appended(line), UNCHANGED logged
      PROVE  Lost' \subseteq Lost
  BY <1>4, AppendKeeps DEF Lost
<1>5. CASE EnsureHeader
  <2>1. Header(NoConv) \in Line /\ Junk \in Line /\ Cut \in Line
    BY LineTypes
  <2>2. Lost' \subseteq Lost
    BY <1>3, <1>4, <1>5, <2>1 DEF EnsureHeader, Write, Tear
  <2> QED
    BY <1>1, <1>5, <2>2 DEF EnsureHeader, Write, Tear
<1>6. CASE AppendHeader
  <2>1. PICK k \in ConvIds :
           \/ Write(Header(k)) /\ conv' = k /\ UNCHANGED << pc, crashes >>
           \/ Tear(Header(k)) /\ UNCHANGED conv
    BY <1>6 DEF AppendHeader
  <2>2. Header(k) \in Line /\ Junk \in Line /\ Cut \in Line
    BY LineTypes
  <2>3. Lost' \subseteq Lost
    BY <1>3, <1>4, <1>6, <2>1, <2>2 DEF AppendHeader, Write, Tear
  <2> QED
    BY <1>1, <2>1, <2>3 DEF Write, Tear
<1>7. CASE Log
  <2>1. started' \in Nat
    BY <1>7, <1>t DEF Log, TypeOK
  <2>2. /\ Event(started') \in Line /\ Event(started').kind = "event"
        /\ Event(started').event = started' /\ Junk \in Line /\ Cut \in Line
    BY <2>1, LineTypes
  <2>3. CASE Tear(Event(started')) /\ UNCHANGED logged
    <3>1. Lost' \subseteq Lost
      BY <1>3, <1>4, <2>2, <2>3 DEF Tear
    <3> QED
      BY <1>1, <2>3, <3>1 DEF Tear
  <2>4. CASE Write(Event(started')) /\ logged' = logged \cup {started'}
             /\ UNCHANGED << pc, crashes >>
    <3>1. /\ \A n \in logged : n \in Kept => n \in Kept'
          /\ ~dangling => started' \in Kept'
      BY <2>2, <2>4, AppendKeeps DEF Write
    <3>2. CASE dangling
      <4>1. Lost' \subseteq Lost \cup {started'}
        BY <2>4, <3>1 DEF Lost
      <4> QED
        BY <1>2, <2>4, <3>2, <4>1 DEF Write
    <3>3. CASE ~dangling
      <4>1. Lost' \subseteq Lost
        BY <2>4, <3>1, <3>3 DEF Lost
      <4> QED
        BY <1>1, <2>4, <4>1 DEF Write
    <3> QED
      BY <3>2, <3>3
  <2> QED
    BY <1>7, <2>3, <2>4 DEF Log
<1>8. CASE Replace
  <2>1. Lost' \subseteq Lost
    BY <1>8, ReplaceKeeps DEF Replace, Lost
  <2> QED
    BY <1>1, <1>8, <2>1 DEF Replace
<1>9. CASE Open \/ WriteTemp \/ Crash \/ UNCHANGED vars
  <2>1. Lost' \subseteq Lost
    BY <1>3, <1>9 DEF Open, WriteTemp, Crash, vars
  <2> QED
    BY <1>1, <1>9, <2>1 DEF Open, WriteTemp, Crash, vars
<1> QED
  BY <1>5, <1>6, <1>7, <1>8, <1>9 DEF Next

\* A line that is appended is the only one that can be cut, and is only if what
\* is appended is, or the torn line it is appended to.
LEMMA AppendCuts ==
  ASSUME TypeOK, NEW line \in Line, file' = Appended(line)
  PROVE  /\ \E x : CutLines' \subseteq CutLines \cup {x}
         /\ line.kind # "cut" => CutLines' \subseteq CutLines
<1>1. /\ file \in Seq(Line) /\ dangling \in BOOLEAN /\ (dangling => file # << >>)
      /\ Len(file) \in Nat /\ line \in Line /\ file' = Appended(line)
      /\ Junk.kind = "junk" /\ Cut.kind = "cut"
  BY LineTypes DEF TypeOK
<1>2. CASE dangling
  <2>1. /\ file' \in Seq(Line) /\ Len(file') = Len(file)
        /\ \A i \in 1..(Len(file) - 1) : file'[i] = file[i]
    BY <1>1, <1>2, AppendedShape
  <2>2. file'[Len(file)] = Spoilt(line)
    BY <1>1, <1>2 DEF Appended
  <2>3. CutLines' \subseteq CutLines \cup {Len(file)}
    BY <1>1, <2>1 DEF CutLines
  <2>4. ASSUME line.kind # "cut", NEW i \in CutLines'
        PROVE  i \in CutLines
    <3>1. CASE i = Len(file)
      <4>1. Spoilt(line) = Cut
        BY <1>1, <2>2, <2>4, <3>1 DEF CutLines, Spoilt
      <4>2. file[Len(file)] = Cut
        BY <1>1, <2>4, <4>1 DEF Spoilt
      <4> QED
        BY <1>1, <1>2, <3>1, <4>2 DEF CutLines
    <3>2. CASE i # Len(file)
      BY <2>3, <2>4, <3>2
    <3> QED
      BY <3>1, <3>2
  <2> QED
    BY <2>3, <2>4
<1>3. CASE ~dangling
  <2>1. /\ file' \in Seq(Line) /\ Len(file') = Len(file) + 1
        /\ file'[Len(file) + 1] = line
        /\ \A i \in 1..Len(file) : file'[i] = file[i]
    BY <1>1, <1>3, AppendedShape
  <2>2. CutLines' \subseteq CutLines \cup {Len(file) + 1}
    BY <1>1, <2>1 DEF CutLines
  <2>3. line.kind # "cut" => Len(file) + 1 \notin CutLines'
    BY <1>1, <2>1 DEF CutLines
  <2> QED
    BY <2>2, <2>3
<1> QED
  BY <1>1, <1>2, <1>3

CutInv == IsFiniteSet(CutLines) /\ Cardinality(CutLines) <= crashes

\* A line is cut in a crash, one at a time.
LEMMA CutStep ==
  ASSUME StoreInv, CutInv, [Next]_vars
  PROVE  CutInv'
<1>t. TypeOK /\ crashes \in Nat /\ crashes' \in Nat /\ Cardinality(CutLines) \in Nat
  BY StoreStep, FS_CardinalityType DEF StoreInv, TypeOK, CutInv
<1>1. ASSUME CutLines' \subseteq CutLines, crashes' \in {crashes, crashes + 1}
      PROVE  CutInv'
  <2>1. IsFiniteSet(CutLines') /\ Cardinality(CutLines') <= Cardinality(CutLines)
    BY <1>1, FS_Subset, Zenon DEF CutInv
  <2>2. Cardinality(CutLines') \in Nat
    BY <2>1, FS_CardinalityType, Zenon
  <2> QED
    BY <1>t, <1>1, <2>1, <2>2 DEF CutInv
<1>2. ASSUME NEW x, CutLines' \subseteq CutLines \cup {x}, crashes' = crashes + 1
      PROVE  CutInv'
  <2>1. IsFiniteSet(CutLines \cup {x})
        /\ Cardinality(CutLines \cup {x}) \in {Cardinality(CutLines), Cardinality(CutLines) + 1}
    <3>1. CASE x \in CutLines
      <4>1. CutLines \cup {x} = CutLines
        BY <3>1
      <4> QED
        BY <4>1 DEF CutInv
    <3>2. CASE x \notin CutLines
      BY <3>2, FS_AddElement, Zenon DEF CutInv
    <3> QED
      BY <3>1, <3>2
  <2>2. IsFiniteSet(CutLines') /\ Cardinality(CutLines') <= Cardinality(CutLines \cup {x})
    BY <2>1, <1>2, FS_Subset, Zenon
  <2>3. Cardinality(CutLines') \in Nat
    BY <2>2, FS_CardinalityType, Zenon
  <2> QED
    BY <1>t, <1>2, <2>1, <2>2, <2>3 DEF CutInv
<1>3. ASSUME UNCHANGED file, crashes' \in {crashes, crashes + 1}
      PROVE  CutInv'
  BY <1>1, <1>3 DEF CutLines
<1>4. ASSUME NEW line \in Line, line.kind # "cut", Write(line), UNCHANGED crashes
      PROVE  CutInv'
  BY <1>t, <1>1, <1>4, AppendCuts DEF Write
<1>5. ASSUME NEW line \in Line, Tear(line)
      PROVE  CutInv'
  <2>1. crashes' = crashes + 1 /\ Junk \in Line /\ Cut \in Line
    BY <1>5, LineTypes DEF Tear
  <2>2. CASE UNCHANGED file
    BY <1>3, <2>1, <2>2
  <2>3. ASSUME NEW part \in Line, file' = Appended(part)
        PROVE  CutInv'
    <3>1. PICK x : CutLines' \subseteq CutLines \cup {x}
      BY <1>t, <2>3, AppendCuts
    <3> QED
      BY <1>2, <2>1, <3>1
  <2> QED
    BY <1>5, <2>1, <2>2, <2>3 DEF Tear
<1>6. CASE EnsureHeader
  <2>1. Header(NoConv) \in Line /\ Header(NoConv).kind # "cut"
    BY LineTypes
  <2> QED
    BY <1>3, <1>4, <1>5, <1>6, <2>1 DEF EnsureHeader
<1>7. CASE Log
  <2>1. started' \in Nat
    BY <1>t, <1>7 DEF Log, TypeOK
  <2>2. Event(started') \in Line /\ Event(started').kind # "cut"
    BY <2>1, LineTypes
  <2> QED
    BY <1>4, <1>5, <1>7, <2>2 DEF Log
<1>8. CASE AppendHeader
  <2>1. \A k \in ConvIds : Header(k) \in Line /\ Header(k).kind # "cut"
    BY LineTypes
  <2> QED
    BY <1>4, <1>5, <1>8, <2>1 DEF AppendHeader
<1>9. CASE Replace
  <2>1. /\ file \in Seq(Line) /\ file # << >> /\ asked \in ConvIds
        /\ file' = Rewritten(Header(asked)) /\ Len(file) \in Nat
    BY <1>9 DEF StoreInv, Replace, TypeOK, TempIsRewrite, HasHeader
  <2>2. /\ file' \in Seq(Line) /\ Len(file') = Len(file) /\ file'[1].kind = "header"
        /\ \A i \in 2..Len(file) : file'[i] = file[i]
    BY <2>1, RewrittenShape, LineTypes
  <2>3. CutLines' \subseteq CutLines
    BY <2>1, <2>2 DEF CutLines
  <2> QED
    BY <1>1, <1>9, <2>3 DEF Replace
<1>10. CASE Open \/ WriteTemp \/ Crash \/ UNCHANGED vars
  BY <1>3, <1>10 DEF Open, WriteTemp, Crash, vars
<1> QED
  BY <1>6, <1>7, <1>8, <1>9, <1>10 DEF Next

\* However many events and crashes: no more events whose call of log returned
\* are gone from the file than the process died, and no more lines are cut within
\* a character.
THEOREM LossCorrect == Spec => []LossBounded
<1>1. Init => LossInv /\ CutInv
  <2> SUFFICES ASSUME Init
               PROVE  LossInv /\ CutInv
    OBVIOUS
  <2>1. Lost = {} /\ dangling = FALSE /\ crashes = 0 /\ CutLines = {}
    BY DEF Init, Lost, CutLines
  <2>2. Cardinality({}) = 0 /\ IsFiniteSet({})
    BY FS_EmptySet, Zenon
  <2> QED
    BY <2>1, <2>2 DEF LossInv, CutInv
<1>2. StoreInv /\ LossInv /\ CutInv /\ [Next]_vars => LossInv' /\ CutInv'
  BY LossStep, CutStep
<1>3. StoreInv /\ LossInv /\ CutInv => LossBounded
  <2> SUFFICES ASSUME StoreInv, LossInv, CutInv
               PROVE  LossBounded
    OBVIOUS
  <2>1. TypeOK /\ crashes \in Nat
    BY DEF StoreInv, TypeOK
  <2>2. Cardinality(Lost) \in Nat
    BY <2>1, LostSize
  <2> QED
    BY <2>1, <2>2 DEF LossInv, CutInv, LossBounded, Lost
<1> QED
  BY <1>1, <1>2, <1>3, StoreInvariant, PTL DEF Spec

=============================================================================
