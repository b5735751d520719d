---------------------------- MODULE LoggingProofs ----------------------------
(***************************************************************************)
(* Proofs about Logging for any tasks, any length of the queue and any     *)
(* number of calls: a task has one record under way at most, its newest,   *)
(* so what it has in the queue is older, in order, and newer than its line.*)
(***************************************************************************)
EXTENDS Logging, TLAPS

TypeInv ==
    /\ queue \in Seq(Record)
    /\ at \in [Tasks -> {"idle", "discard", "resend"}]
    /\ calls \in [Tasks -> 0..MaxCalls]
    /\ line \in Record \cup {Nothing}
    /\ printed \in [Tasks -> 0..MaxCalls]

\* The newest record a task may have in the queue or on the line.
Newest(t, places, numbers) == IF places[t] = "idle" THEN numbers[t] ELSE numbers[t] - 1

QueueInv ==
    \A j \in 1..Len(queue) :
        /\ queue[j].nr <= Newest(queue[j].task, at, calls)
        /\ queue[j].nr > printed[queue[j].task]
        /\ line # Nothing /\ line.task = queue[j].task => line.nr < queue[j].nr
        /\ \A i \in 1..(j - 1) : queue[i].task = queue[j].task => queue[i].nr < queue[j].nr

LineInv ==
    /\ line # Nothing => line.nr <= Newest(line.task, at, calls) /\ line.nr > printed[line.task]
    /\ \A t \in Tasks : printed[t] <= Newest(t, at, calls)
    /\ \A t \in Tasks : at[t] # "idle" => calls[t] > 0

OrderInv == TypeInv /\ QueueInv /\ LineInv

\* The queue, element by element.
LEMMA Elements ==
  ASSUME TypeInv
  PROVE  /\ Len(queue) \in Nat
         /\ \A j \in 1..Len(queue) : /\ queue[j] \in Record
                                     /\ queue[j].task \in Tasks /\ queue[j].nr \in Nat
         /\ line # Nothing => line \in Record /\ line.task \in Tasks /\ line.nr \in Nat
         /\ \A t \in Tasks : calls[t] \in Nat /\ printed[t] \in Nat
<1>1. \A r \in Record : r.task \in Tasks /\ r.nr \in Nat
  BY LoggingAssumption DEF Record
<1>2. Len(queue) \in Nat /\ \A j \in 1..Len(queue) : queue[j] \in Record
  BY DEF TypeInv
<1>3. \A t \in Tasks : calls[t] \in Nat /\ printed[t] \in Nat
  BY LoggingAssumption DEF TypeInv
<1> QED BY <1>1, <1>2, <1>3 DEF TypeInv

LEMMA OrderInit == Init => OrderInv
BY LoggingAssumption DEF Init, OrderInv, TypeInv, QueueInv, LineInv, Newest

\* A queue that loses its first record keeps the order of the others.
LEMMA TailInv ==
  ASSUME OrderInv, queue # <<>>
  PROVE  /\ Tail(queue) \in Seq(Record) /\ Len(Tail(queue)) = Len(queue) - 1
         /\ Len(queue) \in Nat /\ Len(queue) > 0
         /\ \A j \in 1..Len(Tail(queue)) : Tail(queue)[j] = queue[j + 1] /\ j + 1 \in 1..Len(queue)
         /\ Head(queue) = queue[1] /\ Head(queue) \in Record
BY DEF OrderInv, TypeInv

\* A queue that stays as it is, with the line.
LEMMA SameQueue ==
  ASSUME OrderInv, UNCHANGED <<queue, line, printed>>,
         \A u \in Tasks : /\ Newest(u, at, calls) <= Newest(u, at', calls')
                          /\ Newest(u, at, calls) \in Int /\ Newest(u, at', calls') \in Int
  PROVE  QueueInv'
<1>0. TypeInv /\ QueueInv
  BY DEF OrderInv
<1>1. ASSUME NEW j \in 1..Len(queue) PROVE queue[j].nr <= Newest(queue[j].task, at', calls')
  <2>1. queue[j].task \in Tasks /\ queue[j].nr \in Nat
    BY <1>0, Elements
  <2>2. queue[j].nr <= Newest(queue[j].task, at, calls)
    BY <1>0 DEF QueueInv
  <2> QED BY <2>1, <2>2
<1> QED BY <1>0, <1>1 DEF QueueInv

\* A record newer than all of its task's goes to the end of the queue.
LEMMA AppendInv ==
  ASSUME OrderInv, NEW t \in Tasks, NEW nr \in 1..MaxCalls,
         queue' = Append(queue, [task |-> t, nr |-> nr]), UNCHANGED <<line, printed>>,
         nr > Newest(t, at, calls), nr <= Newest(t, at', calls'),
         \A u \in Tasks : /\ Newest(u, at, calls) <= Newest(u, at', calls')
                          /\ Newest(u, at', calls') \in Int
  PROVE  queue' \in Seq(Record) /\ QueueInv'
<1>0. TypeInv /\ QueueInv /\ LineInv
  BY DEF OrderInv
<1>1. [task |-> t, nr |-> nr] \in Record
  BY DEF Record
<1>2. /\ queue' \in Seq(Record) /\ Len(queue') = Len(queue) + 1 /\ Len(queue) \in Nat
      /\ \A j \in 1..Len(queue) : queue'[j] = queue[j]
      /\ queue'[Len(queue) + 1] = [task |-> t, nr |-> nr]
  BY <1>0, <1>1 DEF TypeInv
<1>3. \A u \in Tasks : Newest(u, at, calls) \in Int
  BY <1>0, Elements DEF Newest
<1>4. nr \in Nat
  BY LoggingAssumption
<1>5. ASSUME NEW j \in 1..Len(queue')
      PROVE  /\ queue'[j].nr <= Newest(queue'[j].task, at', calls')
             /\ queue'[j].nr > printed[queue'[j].task]
             /\ line # Nothing /\ line.task = queue'[j].task => line.nr < queue'[j].nr
             /\ \A i \in 1..(j - 1) : queue'[i].task = queue'[j].task => queue'[i].nr < queue'[j].nr
  <2>1. CASE j \in 1..Len(queue)
    <3>1. /\ queue[j].task \in Tasks /\ queue[j].nr \in Nat /\ queue'[j] = queue[j]
          /\ \A i \in 1..(j - 1) : queue'[i] = queue[i]
      BY <1>0, <1>2, <2>1, Elements
    <3>2. queue[j].nr <= Newest(queue[j].task, at, calls)
      BY <1>0, <2>1 DEF QueueInv
    <3>3. queue[j].nr <= Newest(queue[j].task, at', calls')
      BY <1>3, <3>1, <3>2
    <3> QED BY <1>0, <2>1, <3>1, <3>3 DEF QueueInv
  <2>2. CASE j = Len(queue) + 1
    <3>1. queue'[j].task = t /\ queue'[j].nr = nr
      BY <1>2, <2>2
    <3>2. printed[t] <= Newest(t, at, calls) /\ printed[t] \in Nat
      BY <1>0, Elements DEF LineInv
    <3>3. line # Nothing /\ line.task = t => line.nr < nr
      <4>1. line # Nothing => line.nr <= Newest(line.task, at, calls) /\ line.nr \in Nat
        BY <1>0, Elements DEF LineInv
      <4> QED BY <1>3, <1>4, <4>1
    <3>4. ASSUME NEW i \in 1..(j - 1), queue'[i].task = t PROVE queue'[i].nr < nr
      <4>1. i \in 1..Len(queue) /\ queue'[i] = queue[i]
        BY <1>2, <2>2
      <4>2. queue[i].nr <= Newest(t, at, calls) /\ queue[i].nr \in Nat
        BY <1>0, <3>4, <4>1, Elements DEF QueueInv
      <4> QED BY <1>3, <1>4, <4>1, <4>2
    <3> QED BY <1>3, <1>4, <3>1, <3>2, <3>3, <3>4
  <2> QED BY <1>2, <2>1, <2>2
<1> QED BY <1>2, <1>5 DEF QueueInv

\* The line stays as it is.
LEMMA SameLine ==
  ASSUME OrderInv, UNCHANGED <<line, printed>>,
         \A u \in Tasks : /\ Newest(u, at, calls) <= Newest(u, at', calls')
                          /\ Newest(u, at, calls) \in Int /\ Newest(u, at', calls') \in Int,
         \A u \in Tasks : at'[u] # "idle" => calls'[u] > 0
  PROVE  LineInv'
<1>0. TypeInv /\ LineInv
  BY DEF OrderInv
<1>1. \A u \in Tasks : printed[u] <= Newest(u, at', calls')
  <2>1. \A u \in Tasks : printed[u] <= Newest(u, at, calls) /\ printed[u] \in Nat
    BY <1>0, Elements DEF LineInv
  <2> QED BY <2>1
<1>2. line # Nothing => line.nr <= Newest(line.task, at', calls')
  <2>1. line # Nothing => line.nr <= Newest(line.task, at, calls) /\ line.nr \in Nat /\ line.task \in Tasks
    BY <1>0, Elements DEF LineInv
  <2> QED BY <2>1
<1> QED BY <1>0, <1>1, <1>2 DEF LineInv

\* LogWrite(): only a record that was sent, or one that is about to be sent again,
\* is the newest of its task.
LEMMA WriteStep ==
  ASSUME OrderInv, NEW t \in Tasks, LogWrite(t) \/ Call(t)
  PROVE  OrderInv'
<1>0. TypeInv /\ QueueInv /\ LineInv
  BY DEF OrderInv
<1>1. UNCHANGED <<line, printed>>
  BY DEF LogWrite, Call, DiscardOldest, Resend
<1>2. \A u \in Tasks : Newest(u, at, calls) \in Int /\ calls[u] \in Nat
  BY <1>0, Elements DEF Newest
<1>3. CASE LogWrite(t)
  <2>1. /\ calls' = [calls EXCEPT ![t] = @ + 1] /\ calls[t] + 1 \in 1..MaxCalls
        /\ at[t] = "idle" /\ at'[t] \in {"idle", "discard"}
        /\ at' \in [Tasks -> {"idle", "discard", "resend"}]
        /\ \A u \in Tasks : u # t => at'[u] = at[u]
    <3>1. /\ calls[t] < MaxCalls /\ calls' = [calls EXCEPT ![t] = @ + 1]
          /\ at[t] = "idle"
          /\ at' \in {at, [at EXCEPT ![t] = "idle"], [at EXCEPT ![t] = "discard"]}
      BY <1>3 DEF LogWrite, Goes
    <3>2. calls[t] + 1 \in 1..MaxCalls
      BY <1>2, <3>1, LoggingAssumption
    <3>3. /\ at'[t] \in {"idle", "discard"} /\ at' \in [Tasks -> {"idle", "discard", "resend"}]
          /\ \A u \in Tasks : u # t => at'[u] = at[u]
      BY <1>0, <3>1 DEF TypeInv
    <3> QED BY <3>1, <3>2, <3>3
  <2>2. /\ calls' \in [Tasks -> 0..MaxCalls] /\ calls'[t] = calls[t] + 1
        /\ \A u \in Tasks : u # t => calls'[u] = calls[u]
    BY <1>0, <2>1, LoggingAssumption DEF TypeInv
  <2>3. /\ \A u \in Tasks : Newest(u, at, calls) <= Newest(u, at', calls') /\ Newest(u, at', calls') \in Int
        /\ Newest(t, at, calls) = calls[t] /\ (at'[t] = "idle" => Newest(t, at', calls') = calls[t] + 1)
    BY <1>2, <2>1, <2>2 DEF Newest
  <2>4. queue' \in Seq(Record) /\ QueueInv'
    <3>1. CASE queue' = queue
      BY <1>0, <1>1, <1>2, <2>3, <3>1, SameQueue DEF TypeInv
    <3>2. CASE queue' = Append(queue, [task |-> t, nr |-> calls[t] + 1]) /\ at'[t] = "idle"
      <4>1. /\ calls[t] + 1 > Newest(t, at, calls) /\ calls[t] + 1 <= Newest(t, at', calls')
            /\ calls[t] + 1 \in 1..MaxCalls
        BY <1>2, <2>1, <2>3, <3>2
      <4> QED BY <1>1, <2>3, <3>2, <4>1, AppendInv
    <3>3. \/ queue' = queue
          \/ /\ queue' = Append(queue, [task |-> t, nr |-> calls[t] + 1])
             /\ at' = [at EXCEPT ![t] = "idle"]
      BY <1>3 DEF LogWrite, Send, Goes
    <3>4. at' = [at EXCEPT ![t] = "idle"] => at'[t] = "idle"
      BY <1>0 DEF TypeInv
    <3> QED BY <3>1, <3>2, <3>3, <3>4
  <2>5. LineInv'
    <3>1. \A u \in Tasks : at'[u] # "idle" => calls'[u] > 0
      BY <1>0, <1>2, <2>1, <2>2 DEF LineInv
    <3> QED BY <1>1, <1>2, <2>3, <3>1, SameLine
  <2> QED BY <1>0, <1>1, <2>1, <2>2, <2>4, <2>5 DEF OrderInv, TypeInv
<1>4. CASE DiscardOldest(t)
  <2>1. /\ at[t] = "discard" /\ at' = [at EXCEPT ![t] = "resend"] /\ UNCHANGED calls
        /\ queue' = IF queue = <<>> THEN queue ELSE Tail(queue)
    BY <1>4 DEF DiscardOldest, Goes
  <2>2. /\ at' \in [Tasks -> {"idle", "discard", "resend"}]
        /\ \A u \in Tasks : (at'[u] = "idle" <=> at[u] = "idle") /\ Newest(u, at', calls') = Newest(u, at, calls)
    BY <1>0, <2>1 DEF TypeInv, Newest
  <2>3. queue' \in Seq(Record) /\ QueueInv'
    <3>1. CASE queue' = queue
      BY <1>0, <1>1, <1>2, <2>2, <3>1, SameQueue DEF TypeInv
    <3>2. CASE queue # <<>> /\ queue' = Tail(queue)
      BY <1>0, <1>1, <2>2, <3>2, TailInv, Elements DEF QueueInv
    <3> QED BY <2>1, <3>1, <3>2
  <2>4. LineInv'
    BY <1>0, <1>1, <2>1, <2>2, Elements DEF LineInv
  <2> QED BY <1>0, <1>1, <2>1, <2>2, <2>3, <2>4 DEF OrderInv, TypeInv
<1>5. CASE Resend(t)
  <2>1. /\ at[t] = "resend" /\ at' = [at EXCEPT ![t] = "idle"] /\ UNCHANGED calls
        /\ queue' = queue \/ queue' = Append(queue, [task |-> t, nr |-> calls[t]])
    BY <1>5 DEF Resend, Goes, Send, RecordOf
  <2>2. /\ at' \in [Tasks -> {"idle", "discard", "resend"}] /\ at'[t] = "idle"
        /\ \A u \in Tasks : u # t => at'[u] = at[u]
    BY <1>0, <2>1 DEF TypeInv
  <2>3. /\ \A u \in Tasks : Newest(u, at, calls) <= Newest(u, at', calls') /\ Newest(u, at', calls') \in Int
        /\ Newest(t, at, calls) = calls[t] - 1 /\ Newest(t, at', calls') = calls[t]
    BY <1>2, <2>1, <2>2 DEF Newest
  <2>4. calls[t] \in 1..MaxCalls
    BY <1>0, <1>2, <2>1, LoggingAssumption DEF LineInv, TypeInv
  <2>5. queue' \in Seq(Record) /\ QueueInv'
    <3>1. CASE queue' = queue
      BY <1>0, <1>1, <1>2, <2>3, <3>1, SameQueue DEF TypeInv
    <3>2. CASE queue' = Append(queue, [task |-> t, nr |-> calls[t]])
      BY <1>1, <1>2, <2>3, <2>4, <3>2, AppendInv
    <3> QED BY <2>1, <3>1, <3>2
  <2>6. LineInv'
    <3>1. \A u \in Tasks : at'[u] # "idle" => calls'[u] > 0
      BY <1>0, <2>1, <2>2 DEF LineInv
    <3> QED BY <1>1, <1>2, <2>3, <3>1, SameLine
  <2> QED BY <1>0, <1>1, <2>1, <2>2, <2>5, <2>6 DEF OrderInv, TypeInv
<1> QED BY <1>3, <1>4, <1>5 DEF Call

\* LogWriterTask() prints the oldest record of its task.
LEMMA WriterStep == ASSUME OrderInv, TakeRecord \/ PrintLine PROVE OrderInv'
<1>0. TypeInv /\ QueueInv /\ LineInv
  BY DEF OrderInv
<1>1. /\ UNCHANGED <<at, calls>>
      /\ \A u \in Tasks : Newest(u, at', calls') = Newest(u, at, calls) /\ Newest(u, at, calls) \in Int
  BY <1>0, Elements DEF TakeRecord, PrintLine, Newest
<1>2. CASE TakeRecord
  <2>1. /\ queue # <<>> /\ queue' = Tail(queue) /\ line' = Head(queue) /\ UNCHANGED printed
    BY <1>2 DEF TakeRecord
  <2>2. TypeInv'
    BY <1>0, <1>1, <2>1, TailInv DEF TypeInv
  <2>3. QueueInv'
    <3>1. ASSUME NEW j \in 1..Len(queue')
          PROVE  /\ queue'[j].nr <= Newest(queue'[j].task, at', calls')
                 /\ queue'[j].nr > printed[queue'[j].task]
                 /\ line'.task = queue'[j].task => line'.nr < queue'[j].nr
                 /\ \A i \in 1..(j - 1) : queue'[i].task = queue'[j].task => queue'[i].nr < queue'[j].nr
      <4>1. /\ queue'[j] = queue[j + 1] /\ j + 1 \in 1..Len(queue) /\ line' = queue[1]
            /\ 1 \in 1..((j + 1) - 1)
            /\ \A i \in 1..(j - 1) : queue'[i] = queue[i + 1] /\ i + 1 \in 1..((j + 1) - 1)
        BY <2>1, TailInv
      <4>2. queue[j + 1].task \in Tasks
        BY <1>0, <4>1, Elements
      <4> QED BY <1>0, <1>1, <4>1, <4>2 DEF QueueInv
    <3> QED BY <2>1, <3>1 DEF QueueInv
  <2>4. LineInv'
    <3>1. line' = queue[1] /\ 1 \in 1..Len(queue) /\ queue[1].task \in Tasks
      BY <1>0, <2>1, TailInv, Elements
    <3> QED BY <1>0, <1>1, <2>1, <3>1 DEF LineInv, QueueInv
  <2> QED BY <2>2, <2>3, <2>4 DEF OrderInv
<1>3. CASE PrintLine
  <2>1. /\ line # Nothing /\ line' = Nothing /\ UNCHANGED queue
        /\ printed' = [printed EXCEPT ![line.task] = line.nr]
    BY <1>3 DEF PrintLine
  <2>2. line \in Record /\ line.task \in Tasks /\ line.nr \in 1..MaxCalls /\ line.nr \in Nat
    BY <1>0, <2>1, Elements DEF TypeInv, Record
  <2>3. /\ printed' \in [Tasks -> 0..MaxCalls] /\ printed'[line.task] = line.nr
        /\ \A u \in Tasks : u # line.task => printed'[u] = printed[u]
    BY <1>0, <2>1, <2>2, LoggingAssumption DEF TypeInv
  <2>4. TypeInv'
    BY <1>0, <1>1, <2>1, <2>3 DEF TypeInv
  <2>5. QueueInv'
    <3>1. ASSUME NEW j \in 1..Len(queue) PROVE queue[j].nr > printed'[queue[j].task]
      BY <1>0, <2>1, <2>3, Elements DEF QueueInv
    <3> QED BY <1>0, <1>1, <2>1, <3>1, Elements DEF QueueInv
  <2>6. LineInv'
    BY <1>0, <1>1, <2>1, <2>2, <2>3 DEF LineInv
  <2> QED BY <2>4, <2>5, <2>6 DEF OrderInv
<1> QED BY <1>2, <1>3

LEMMA OrderNext == OrderInv /\ [Next]_vars => OrderInv'
<1> SUFFICES ASSUME OrderInv, [Next]_vars PROVE OrderInv'
  OBVIOUS
<1>1. CASE LogInit \/ UNCHANGED vars
  BY <1>1 DEF LogInit, vars, OrderInv, TypeInv, QueueInv, LineInv, Newest
<1> QED BY <1>1, WriteStep, WriterStep DEF Next

\* However the calls of the tasks overflow the queue together, each task's lines are
\* printed in the order of its calls, and none twice.
THEOREM LinesSafety == Spec => []LinesInOrder
<1>1. ASSUME OrderInv PROVE LinesInOrder
  <2>0. TypeInv /\ QueueInv /\ LineInv
    BY <1>1 DEF OrderInv
  <2>1. CASE line = Nothing
    <3>1. Pending = queue
      BY <2>0, <2>1 DEF Pending, TypeInv, Nothing
    <3>2. DOMAIN queue = 1..Len(queue)
      BY <2>0 DEF TypeInv
    <3> QED BY <2>0, <3>1, <3>2, Zenon DEF LinesInOrder, QueueInv
  <2>2. CASE line # Nothing
    <3>1. line \in Record
      BY <2>0, <2>2, Elements
    <3>2. /\ Pending \in Seq(Record) /\ Len(Pending) = Len(queue) + 1 /\ Len(queue) \in Nat
          /\ Pending[1] = line /\ \A j \in 2..Len(Pending) : Pending[j] = queue[j - 1]
      BY <2>0, <2>2, <3>1 DEF Pending, TypeInv
    <3>3. ASSUME NEW j \in 1..Len(Pending)
          PROVE  /\ Pending[j].nr > printed[Pending[j].task]
                 /\ \A i \in 1..(j - 1) : Pending[i].task = Pending[j].task => Pending[i].nr < Pending[j].nr
      <4>1. CASE j = 1
        BY <2>0, <2>2, <3>2, <4>1 DEF LineInv
      <4>2. CASE j \in 2..Len(Pending)
        <5>1. Pending[j] = queue[j - 1] /\ j - 1 \in 1..Len(queue)
          BY <3>2, <4>2
        <5>2. ASSUME NEW i \in 1..(j - 1), Pending[i].task = Pending[j].task
              PROVE  Pending[i].nr < Pending[j].nr
          <6>1. CASE i = 1
            BY <2>0, <2>2, <3>2, <5>1, <5>2, <6>1 DEF QueueInv
          <6>2. CASE i # 1
            <7>1. Pending[i] = queue[i - 1] /\ i - 1 \in 1..((j - 1) - 1)
              BY <3>2, <4>2, <6>2
            <7> QED BY <2>0, <5>1, <5>2, <7>1 DEF QueueInv
          <6> QED BY <6>1, <6>2
        <5> QED BY <2>0, <5>1, <5>2 DEF QueueInv
      <4> QED BY <3>2, <4>1, <4>2
    <3> QED BY <3>2, <3>3 DEF LinesInOrder
  <2> QED BY <2>1, <2>2
<1>2. OrderInv => LinesInOrder
  BY <1>1
<1> QED BY <1>2, OrderInit, OrderNext, PTL DEF Spec

-----------------------------------------------------------------------------
(* The slot that a call has freed stays free until another task sends.     *)

RoomInv ==
    /\ queue \in Seq(Record) /\ Len(queue) <= QueueDepth
    /\ overtaken \in [Tasks -> BOOLEAN]
    /\ \A t \in Tasks : at[t] = "resend" /\ ~overtaken[t] => Len(queue) < QueueDepth

\* A record of some task is added if there is room, and every other call is told.
LEMMA SendRoom ==
  ASSUME RoomInv, NEW t \in Tasks, NEW record \in Record, HasRoom, Send(t, record),
         at[t] # "resend" \/ at'[t] # "resend",
         \A u \in Tasks : at'[u] = "resend" => at[u] = "resend"
  PROVE  RoomInv'
<1>1. /\ queue' \in Seq(Record) /\ Len(queue') <= QueueDepth
      /\ overtaken' \in [Tasks -> BOOLEAN]
      /\ overtaken' = [u \in Tasks |-> overtaken[u] \/ (u # t /\ at[u] = "resend")]
  BY LoggingAssumption DEF RoomInv, HasRoom, Send
<1>2. ASSUME NEW u \in Tasks, at'[u] = "resend" PROVE overtaken'[u]
  BY <1>1, <1>2
<1> QED BY <1>1, <1>2 DEF RoomInv

LEMMA RoomNext == OrderInv /\ RoomInv /\ [Next]_vars => RoomInv'
<1> SUFFICES ASSUME OrderInv, RoomInv, [Next]_vars PROVE RoomInv'
  OBVIOUS
<1>0. /\ at \in [Tasks -> {"idle", "discard", "resend"}] /\ Len(queue) \in Nat
      /\ QueueDepth \in Nat /\ QueueDepth > 0
      /\ \A t \in Tasks : RecordOf(t).task = t
  BY Elements, LoggingAssumption DEF OrderInv, TypeInv, RecordOf
<1>1. CASE LogInit \/ PrintLine \/ UNCHANGED vars
  BY <1>1 DEF LogInit, PrintLine, vars, RoomInv
<1>2. CASE TakeRecord
  <2>1. Len(queue') = Len(queue) - 1 /\ queue' \in Seq(Record) /\ UNCHANGED <<at, overtaken>>
    BY <1>2, TailInv DEF TakeRecord
  <2> QED BY <1>0, <2>1 DEF RoomInv
<1>3. ASSUME NEW t \in Tasks, LogWrite(t) PROVE RoomInv'
  <2>1. \A u \in Tasks : at'[u] = "resend" => at[u] = "resend"
    BY <1>0, <1>3 DEF LogWrite, Goes
  <2>2. CASE UNCHANGED <<queue, overtaken>>
    BY <2>1, <2>2 DEF RoomInv
  <2>3. CASE HasRoom /\ Goes(t, "idle", "idle") /\ Send(t, [task |-> t, nr |-> calls[t] + 1])
    <3>1. [task |-> t, nr |-> calls[t] + 1] \in Record
      BY <1>3, Elements, LoggingAssumption DEF LogWrite, Record, OrderInv
    <3>2. at[t] # "resend"
      BY <2>3 DEF Goes
    <3> QED BY <2>1, <2>3, <3>1, <3>2, SendRoom
  <2> QED BY <1>3, <2>2, <2>3 DEF LogWrite
<1>4. ASSUME NEW t \in Tasks, DiscardOldest(t) PROVE RoomInv'
  <2>1. /\ at' = [at EXCEPT ![t] = "resend"] /\ overtaken' = [overtaken EXCEPT ![t] = FALSE]
        /\ queue' = IF queue = <<>> THEN queue ELSE Tail(queue)
    BY <1>4 DEF DiscardOldest, Goes
  <2>2. queue' \in Seq(Record) /\ Len(queue') < QueueDepth
    <3>1. CASE queue = <<>>
      BY <1>0, <2>1, <3>1 DEF RoomInv
    <3>2. CASE queue # <<>>
      BY <1>0, <2>1, <3>2, TailInv DEF RoomInv
    <3> QED BY <3>1, <3>2
  <2>3. overtaken' \in [Tasks -> BOOLEAN]
    BY <2>1 DEF RoomInv
  <2> QED BY <1>0, <2>2, <2>3 DEF RoomInv
<1>5. ASSUME NEW t \in Tasks, Resend(t) PROVE RoomInv'
  <2>1. at[t] = "resend" /\ at'[t] = "idle" /\ \A u \in Tasks : at'[u] = "resend" => at[u] = "resend"
    BY <1>0, <1>5 DEF Resend, Goes
  <2>2. CASE UNCHANGED <<queue, overtaken>>
    BY <2>1, <2>2 DEF RoomInv
  <2>3. CASE HasRoom /\ Send(t, RecordOf(t))
    <3>1. RecordOf(t) \in Record
      <4>1. calls[t] \in 0..MaxCalls /\ calls[t] > 0
        BY <2>1 DEF OrderInv, LineInv, TypeInv
      <4>2. calls[t] \in 1..MaxCalls
        BY <4>1, LoggingAssumption
      <4> QED BY <4>2 DEF RecordOf, Record
    <3> QED BY <2>1, <2>3, <3>1, SendRoom
  <2> QED BY <1>5, <2>2, <2>3 DEF Resend
<1> QED BY <1>1, <1>2, <1>3, <1>4, <1>5 DEF Next, Call

\* A call gives up its own record only if another task filled the slot it had freed.
THEOREM LostSafety == Spec => NewestLostToOthers
<1>1. Init => RoomInv
  BY LoggingAssumption DEF Init, RoomInv
<1>2. RoomInv /\ [Next]_vars =>
        [\A t \in Tasks : RecordOf(t) \in dropped' \ dropped => overtaken[t]]_vars
  <2> SUFFICES ASSUME RoomInv, Next, NEW t \in Tasks, RecordOf(t) \in dropped' \ dropped
               PROVE  overtaken[t]
    OBVIOUS
  <2>1. PICK u \in Tasks : at[u] = "resend" /\ ~HasRoom /\ dropped' = dropped \cup {RecordOf(u)}
    <3>1. dropped' # dropped
      OBVIOUS
    <3>2. UNCHANGED dropped \/ \E u \in Tasks : Resend(u)
      BY DEF Next, LogInit, TakeRecord, PrintLine, LogWrite, Call, DiscardOldest
    <3> QED BY <3>1, <3>2 DEF Resend, Goes
  <2>2. u = t
    BY <2>1 DEF RecordOf
  <2> QED BY <2>1, <2>2 DEF RoomInv, HasRoom
<1> QED BY <1>1, <1>2, OrderInit, OrderNext, RoomNext, PTL DEF Spec, NewestLostToOthers
=============================================================================
