------------------------------ MODULE Logging -------------------------------
(***************************************************************************)
(* logging.c: records of many tasks in one bounded queue, drained by a     *)
(* task of the lowest priority.  A LogWrite() that finds the queue full    *)
(* discards the oldest record and sends again, in separate calls of the    *)
(* queue, neither of which is checked: tasks of other priorities and the   *)
(* drain may run in between.                                               *)
(***************************************************************************)
EXTENDS Integers, Sequences

CONSTANTS Tasks,        \* the tasks that log
          QueueDepth,   \* LOG_QUEUE_DEPTH
          MaxCalls      \* bound on the calls of each task

ASSUME LoggingAssumption == QueueDepth \in Nat \ {0} /\ MaxCalls \in Nat

VARIABLES initialized,  \* s_initialized
          queue,        \* s_log_queue
          at,           \* per task: where its LogWrite() is
          calls,        \* per task: the number of its last call
          line,         \* the record LogWriterTask() has taken, or Nothing
          printed,      \* per task: the number of its last line
          overtaken,    \* history, per task: sends of others since its discard
          dropped       \* history: the records their own call gave up

vars == <<initialized, queue, at, calls, line, printed, overtaken, dropped>>

Record == [task : Tasks, nr : 1..MaxCalls]
Nothing == <<>>

TypeOK ==
    /\ initialized \in BOOLEAN
    /\ queue \in Seq(Record) /\ Len(queue) <= QueueDepth
    /\ at \in [Tasks -> {"idle", "discard", "resend"}]
    /\ calls \in [Tasks -> 0..MaxCalls]
    /\ line \in Record \cup {Nothing}
    /\ printed \in [Tasks -> 0..MaxCalls]
    /\ overtaken \in [Tasks -> BOOLEAN]
    /\ dropped \subseteq Record

Init ==
    /\ initialized = FALSE /\ queue = <<>> /\ line = Nothing
    /\ at = [t \in Tasks |-> "idle"] /\ calls = [t \in Tasks |-> 0]
    /\ printed = [t \in Tasks |-> 0]
    /\ overtaken = [t \in Tasks |-> FALSE] /\ dropped = {}

\* LogInit(): without queue or writer task, logging stays off.  Again is no change.
LogInit ==
    /\ ~initialized
    /\ initialized' = TRUE
    /\ UNCHANGED <<queue, at, calls, line, printed, overtaken, dropped>>

-----------------------------------------------------------------------------
(* LogWrite() in a task.                                                   *)

Goes(t, here, there) == at[t] = here /\ at' = [at EXCEPT ![t] = there]

HasRoom == Len(queue) < QueueDepth
RecordOf(t) == [task |-> t, nr |-> calls[t]]

\* xQueueSend() of a record that finds room.
Send(t, record) ==
    /\ queue' = Append(queue, record)
    /\ overtaken' = [u \in Tasks |-> overtaken[u] \/ (u # t /\ at[u] = "resend")]

LogWrite(t) ==
    /\ calls[t] < MaxCalls
    /\ \/ ~initialized /\ at[t] = "idle" /\ UNCHANGED <<queue, at, overtaken>>
       \/ /\ initialized /\ HasRoom /\ Goes(t, "idle", "idle")
          /\ Send(t, [task |-> t, nr |-> calls[t] + 1])
       \/ initialized /\ ~HasRoom /\ Goes(t, "idle", "discard") /\ UNCHANGED <<queue, overtaken>>
    /\ calls' = [calls EXCEPT ![t] = @ + 1]
    /\ UNCHANGED <<initialized, line, printed, dropped>>

\* Mutant: nothing is discarded.
DiscardNothing(t) ==
    /\ Goes(t, "discard", "resend")
    /\ overtaken' = [overtaken EXCEPT ![t] = FALSE]
    /\ UNCHANGED <<initialized, queue, calls, line, printed, dropped>>

\* The non-blocking xQueueReceive(); the queue may have been emptied meanwhile.
DiscardOldest(t) ==
    /\ Goes(t, "discard", "resend")
    /\ queue' = IF queue = <<>> THEN queue ELSE Tail(queue)
    /\ overtaken' = [overtaken EXCEPT ![t] = FALSE]
    /\ UNCHANGED <<initialized, calls, line, printed, dropped>>

\* Mutant: the record goes where the discarded one was.
ResendToFront(t) ==
    /\ Goes(t, "resend", "idle")
    /\ \/ HasRoom /\ queue' = <<RecordOf(t)>> \o queue /\ UNCHANGED <<overtaken, dropped>>
       \/ ~HasRoom /\ dropped' = dropped \cup {RecordOf(t)} /\ UNCHANGED <<queue, overtaken>>
    /\ UNCHANGED <<initialized, calls, line, printed>>

\* The second xQueueSend(), whose result nobody looks at.
Resend(t) ==
    /\ Goes(t, "resend", "idle")
    /\ \/ HasRoom /\ Send(t, RecordOf(t)) /\ UNCHANGED dropped
       \/ ~HasRoom /\ dropped' = dropped \cup {RecordOf(t)} /\ UNCHANGED <<queue, overtaken>>
    /\ UNCHANGED <<initialized, calls, line, printed>>

-----------------------------------------------------------------------------
(* LogWriterTask().                                                        *)

\* Mutant: the task waits until it is worth it.
TakeRecordOfFull ==
    /\ initialized /\ line = Nothing /\ Len(queue) = QueueDepth
    /\ line' = Head(queue) /\ queue' = Tail(queue)
    /\ UNCHANGED <<initialized, at, calls, printed, overtaken, dropped>>

TakeRecord ==
    /\ initialized /\ line = Nothing /\ queue # <<>>
    /\ line' = Head(queue) /\ queue' = Tail(queue)
    /\ UNCHANGED <<initialized, at, calls, printed, overtaken, dropped>>

\* FormatRecord() and uart_write_bytes(), which blocks while its buffer is full.
PrintLine ==
    /\ line # Nothing
    /\ printed' = [printed EXCEPT ![line.task] = line.nr] /\ line' = Nothing
    /\ UNCHANGED <<initialized, queue, at, calls, overtaken, dropped>>

-----------------------------------------------------------------------------
Call(t) == DiscardOldest(t) \/ Resend(t)

Next ==
    \/ LogInit \/ TakeRecord \/ PrintLine
    \/ \E t \in Tasks : LogWrite(t) \/ Call(t)

\* A call that was begun goes on; the writer task runs when no other task has to.
Spec == Init /\ [][Next]_vars
FairSpec == Spec /\ WF_vars(TakeRecord \/ PrintLine) /\ \A t \in Tasks : WF_vars(Call(t))

-----------------------------------------------------------------------------
(* Properties.                                                             *)

\* What is still to be printed, in order.
Pending == (IF line = Nothing THEN <<>> ELSE <<line>>) \o queue

\* The lines of a task come in the order of its calls and none comes twice,
\* however its calls interleave with overflows of other tasks.
LinesInOrder ==
    \A j \in DOMAIN Pending :
        /\ Pending[j].nr > printed[Pending[j].task]
        /\ \A i \in 1..(j - 1) : Pending[i].task = Pending[j].task => Pending[i].nr < Pending[j].nr

\* FR-7, as far as the code keeps it: the newest record is given up only if other
\* tasks filled the slot that its own call had freed.
NewestLostToOthers ==
    [][\A t \in Tasks : RecordOf(t) \in dropped' \ dropped => overtaken[t]]_vars

\* Whatever overflowed before, the writer task empties the queue whenever the other
\* tasks pause: no record is stranded in it.
QueueDrains == []<>(Pending = <<>>)
=============================================================================
