--------------------------- MODULE DnsServerProofs ---------------------------
(***************************************************************************)
(* Proofs about DnsServer for all times that meet DnsAssumption.  That the *)
(* memory is free when StopDnsServer() returns is an argument about time:  *)
(* TimeInv says how much of it the task still needs for its end, Left, and *)
(* that this is less than what the wait has left.                          *)
(***************************************************************************)
EXTENDS DnsServer, TLAPS

\* What DnsAssumption says of the time-outs.
LEMMA Timeouts ==
  /\ ReceiveTimeout \in Nat /\ StopTimeout \in Nat /\ Poll \in Nat /\ Cleanup \in Nat
  /\ Lag \in Nat /\ Lag > 0 /\ TickMod \in Nat /\ TickMod > StopTimeout
  /\ ReceiveTimeout + 5 * Lag < StopTimeout /\ Lag < Cleanup
BY DnsAssumption

\* A number below the modulus is its own remainder.
LEMMA SmallMod == ASSUME NEW m \in Nat \ {0}, NEW n \in 0..(m - 1) PROVE n % m = n
OBVIOUS

\* A remainder is below the modulus.
LEMMA ModRange == ASSUME NEW m \in Nat \ {0}, NEW n \in Nat PROVE n % m \in 0..(m - 1)
OBVIOUS

-----------------------------------------------------------------------------
(* Types, with what each place of the task may still take for its step.    *)

Due(place) == IF place = "receive" THEN ReceiveTimeout + Lag ELSE Lag

TypeInv ==
    /\ tick \in 0..(TickMod - 1) /\ deadline \in 0..(TickMod - 1)
    /\ handle \in BOOLEAN /\ stop \in BOOLEAN /\ restart \in BOOLEAN /\ wrapped \in BOOLEAN
    /\ task \in TaskAt
    /\ due \in Nat /\ due <= Due(task)
    /\ caller \in {"idle", "wait", "release", "clear", "create"}
    /\ nap \in Nat

\* The time until the task is deleted, once it has been told to stop.
Left(place, wait) ==
    CASE place = "receive"                  -> wait + 3 * Lag
      [] place \in {"begin", "reply"}       -> wait + 2 * Lag
      [] place = "check"                    -> wait + Lag
      [] place = "close"                    -> wait
      [] place \in {"deleted", "released"}  -> 0

TimeInv ==
    ~wrapped =>
        /\ caller = "wait" => stop /\ (IsDeleted \/ tick + Left(task, due) < deadline)
        /\ caller \in {"release", "clear"} => IsDeleted
        /\ caller = "clear" /\ task = "deleted" => due < nap

PlaceInv ==
    /\ caller \in {"wait", "release", "clear"} => handle
    /\ caller = "create" => ~handle
    /\ caller = "idle" /\ handle => ~stop
    /\ socket = "failed" => IsDeleted

DnsInv == TypeInv /\ TimeInv /\ PlaceInv /\ StoppedMeansReleased /\ StartedMeansServing

LEMMA DnsInit == Init => DnsInv
<1> SUFFICES ASSUME Init PROVE DnsInv
  OBVIOUS
<1>1. TypeInv
  <2>1. 0 \in 0..(TickMod - 1) /\ 0 <= Lag
    BY Timeouts
  <2>2. Due(task) = Lag
    BY DEF Init, Due
  <2> QED BY <2>1, <2>2 DEF Init, TypeInv, TaskAt, Serving
<1> QED BY <1>1 DEF Init, DnsInv, TimeInv, PlaceInv, IsDeleted, StoppedMeansReleased, StartedMeansServing

\* A step of the task uses up no more than its share of what is left.
LEMMA ResponderStep == ASSUME DnsInv, Responder PROVE DnsInv'
<1>0. TypeInv /\ TimeInv /\ PlaceInv /\ StoppedMeansReleased /\ StartedMeansServing
  BY DEF DnsInv
<1>1. UNCHANGED <<tick, handle, stop, caller, restart, deadline, nap, wrapped>>
  BY DEF Responder, Bind, CheckStop, Receive, Reply, CloseAndDelete, IdleReleases
<1>2. due \in Nat /\ tick \in Nat /\ deadline \in Nat /\ due' \in Nat
  BY <1>0, Timeouts DEF TypeInv, Responder, Bind, CheckStop, Receive, Reply, CloseAndDelete, IdleReleases,
     TaskGoes
<1>3. \/ task = "begin" /\ task' = "check" /\ due' = Lag /\ socket' = "bound"
      \/ task = "begin" /\ task' = "deleted" /\ due' = Lag /\ socket' = "failed"
      \/ task = "check" /\ ~stop /\ task' = "receive" /\ due' = ReceiveTimeout + Lag /\ socket' = socket
      \/ task = "check" /\ stop /\ task' = "close" /\ due' = Lag /\ socket' = socket
      \/ task = "receive" /\ task' \in {"reply", "check"} /\ due' = Lag /\ socket' = socket
      \/ task = "reply" /\ task' = "check" /\ due' = Lag /\ socket' = socket
      \/ task = "close" /\ task' = "deleted" /\ due' = Lag /\ socket' = "closed"
      \/ task = "deleted" /\ task' = "released" /\ due' = 0 /\ socket' = socket
  BY DEF Responder, Bind, CheckStop, Receive, Reply, CloseAndDelete, IdleReleases, TaskGoes
<1>4. TypeInv'
  BY <1>0, <1>1, <1>3, Timeouts DEF TypeInv, TaskAt, Serving, Due
<1>5. stop /\ ~IsDeleted => IsDeleted' \/ Left(task', due') <= Left(task, due)
  BY <1>2, <1>3, Timeouts DEF Left, IsDeleted
<1>6. Left(task, due) \in Int /\ Left(task', due') \in Int
  <2>1. Left(task, due) \in Int
    BY <1>0, <1>2, Timeouts DEF TypeInv, TaskAt, Serving, Left, IsDeleted
  <2>2. Left(task', due') \in Int
    BY <1>2, <1>3, Timeouts DEF Left, IsDeleted
  <2> QED BY <2>1, <2>2
<1>7. IsDeleted => task = "deleted" /\ task' = "released"
  BY <1>3 DEF IsDeleted
<1>8. TimeInv'
  <2>1. ~wrapped /\ caller = "wait" => stop /\ (IsDeleted' \/ tick + Left(task', due') < deadline)
    <3>1. CASE IsDeleted
      BY <1>0, <1>7, <3>1 DEF IsDeleted, TimeInv
    <3>2. CASE ~IsDeleted
      BY <1>0, <1>2, <1>5, <1>6, <3>2 DEF TimeInv
    <3> QED BY <3>1, <3>2
  <2>2. ~wrapped /\ caller \in {"release", "clear"} => IsDeleted' /\ task' # "deleted"
    BY <1>0, <1>7 DEF IsDeleted, TimeInv
  <2> QED BY <1>1, <2>1, <2>2 DEF TimeInv
<1>9. PlaceInv' /\ StoppedMeansReleased'
  BY <1>0, <1>1, <1>3 DEF PlaceInv, StoppedMeansReleased, IsDeleted
<1>10. StartedMeansServing'
  BY <1>0, <1>1, <1>3 DEF StartedMeansServing, PlaceInv, Serving, IsDeleted
<1> QED BY <1>4, <1>8, <1>9, <1>10 DEF DnsInv

\* The request to stop leaves the task more time than it can need.
LEMMA RequestStep == ASSUME DnsInv, StartDnsServer \/ StopDnsServer PROVE DnsInv'
<1>0. TypeInv /\ TimeInv /\ PlaceInv /\ StoppedMeansReleased /\ StartedMeansServing
  BY DEF DnsInv
<1>1. CASE UNCHANGED <<tick, handle, stop, task, socket, due, restart, deadline, nap, wrapped>>
           /\ caller = "idle" /\ ~handle /\ caller' = "create"
  BY <1>0, <1>1 DEF DnsInv, TypeInv, TimeInv, IsDeleted, PlaceInv, StoppedMeansReleased, StartedMeansServing
<1>2. ASSUME NEW again \in BOOLEAN, RequestStop(again) PROVE DnsInv'
  <2>1. /\ UNCHANGED <<tick, handle, task, socket, due>> /\ handle /\ stop' = TRUE
        /\ restart' = again /\ caller' = "wait" /\ nap' = 0
        /\ deadline' = (tick + StopTimeout) % TickMod
        /\ wrapped' = (tick + StopTimeout >= TickMod)
    BY <1>2 DEF RequestStop
  <2>2. tick \in Nat /\ due \in Nat /\ due <= Due(task)
    BY <1>0, Timeouts DEF TypeInv
  <2>3. deadline' \in 0..(TickMod - 1)
    BY <2>1, <2>2, Timeouts, ModRange
  <2>4. ~wrapped' => deadline' = tick + StopTimeout
    <3> SUFFICES ASSUME ~wrapped' PROVE deadline' = tick + StopTimeout
      OBVIOUS
    <3>1. ~(tick + StopTimeout >= TickMod)
      BY <2>1, Zenon
    <3>2. TickMod \in Nat \ {0} /\ tick + StopTimeout \in 0..(TickMod - 1)
      BY <2>2, <3>1, Timeouts
    <3> QED BY <2>1, <3>2, SmallMod
  <2>5. TypeInv'
    BY <1>0, <2>1, <2>3 DEF TypeInv, Due
  <2>6. IsDeleted \/ tick + Left(task, due) < tick + StopTimeout
    BY <1>0, <2>2, Timeouts DEF TypeInv, TaskAt, Serving, Left, IsDeleted, Due
  <2>7. TimeInv'
    BY <2>1, <2>4, <2>6 DEF TimeInv, IsDeleted, Left
  <2> QED BY <1>0, <2>1, <2>5, <2>7 DEF DnsInv, PlaceInv, IsDeleted, StoppedMeansReleased, StartedMeansServing
<1> QED BY <1>1, <1>2 DEF StartDnsServer, StopDnsServer

\* The wait ends with the task deleted, the nap with its memory released.
LEMMA OrchestratorStep == ASSUME DnsInv, Orchestrator PROVE DnsInv'
<1>0. TypeInv /\ TimeInv /\ PlaceInv /\ StoppedMeansReleased /\ StartedMeansServing
  BY DEF DnsInv
<1>1. CASE WaitForTask
  <2>1. ~wrapped /\ caller' = "release" => IsDeleted
    <3>1. Left(task, due) >= 0 \/ IsDeleted
      BY <1>0, Timeouts DEF TypeInv, TaskAt, Serving, Left, IsDeleted
    <3>2. Left(task, due) \in Int
      BY <1>0, Timeouts DEF TypeInv, TaskAt, Serving, Left, IsDeleted
    <3> QED BY <1>0, <1>1, <3>1, <3>2 DEF TypeInv, TimeInv, WaitForTask
  <2> QED BY <1>0, <1>1, <2>1, Timeouts DEF WaitForTask, DnsInv, TypeInv, TimeInv, PlaceInv, IsDeleted, Left,
       StoppedMeansReleased, StartedMeansServing
<1>2. CASE WaitForRelease
  BY <1>0, <1>2, Timeouts DEF WaitForRelease, DnsInv, TypeInv, TimeInv, PlaceInv, IsDeleted, Due,
     StoppedMeansReleased, StartedMeansServing
<1>3. CASE ClearHandle
  <2>1. /\ caller = "clear" /\ nap = 0 /\ handle' = FALSE
        /\ caller' = (IF restart THEN "create" ELSE "idle")
        /\ UNCHANGED <<tick, stop, task, socket, due, restart, deadline, nap, wrapped>>
    BY <1>3 DEF ClearHandle
  <2>2. ~wrapped => task = "released"
    BY <1>0, <2>1 DEF TypeInv, TimeInv, IsDeleted
  <2>3. TypeInv'
    BY <1>0, <2>1 DEF TypeInv, Due
  <2>4. TimeInv' /\ PlaceInv'
    BY <1>0, <2>1 DEF TypeInv, TimeInv, PlaceInv, IsDeleted
  <2> QED BY <2>1, <2>2, <2>3, <2>4 DEF DnsInv, StoppedMeansReleased, StartedMeansServing
<1>4. CASE CreateTask
  <2>1. /\ caller' = "idle" /\ stop' = FALSE /\ handle' = TRUE
        /\ task' = "begin" /\ socket' = "closed" /\ due' = Lag
        /\ UNCHANGED <<tick, restart, deadline, nap, wrapped>>
    BY <1>4 DEF CreateTask
  <2>2. TypeInv'
    <3>1. due' \in Nat /\ due' <= Due(task')
      BY <2>1, Timeouts DEF Due
    <3>2. task' \in TaskAt
      BY <2>1 DEF TaskAt, Serving
    <3> QED BY <1>0, <2>1, <3>1, <3>2 DEF TypeInv
  <2>3. TimeInv' /\ PlaceInv' /\ StoppedMeansReleased' /\ StartedMeansServing'
    BY <2>1 DEF TimeInv, PlaceInv, StoppedMeansReleased, StartedMeansServing, Serving
  <2> QED BY <2>2, <2>3 DEF DnsInv
<1> QED BY <1>1, <1>2, <1>3, <1>4 DEF Orchestrator

\* Every tick of the wait is one the task has used.
LEMMA TickStep == ASSUME DnsInv, Tick PROVE DnsInv'
<1>0. TypeInv /\ TimeInv /\ PlaceInv /\ StoppedMeansReleased /\ StartedMeansServing
  BY DEF DnsInv
<1>1. /\ task # "released" => due > 0 /\ due' = due - 1
      /\ tick' = (tick + 1) % TickMod
      /\ due' = Minus1(due) /\ nap' = Minus1(nap)
      /\ UNCHANGED <<handle, stop, task, socket, caller, restart, deadline, wrapped>>
  BY <1>0 DEF Tick, TypeInv, Minus1
<1>2. tick \in Nat /\ deadline \in Nat /\ deadline < TickMod
  BY <1>0, Timeouts DEF TypeInv
<1>3. tick' \in 0..(TickMod - 1) /\ (tick + 1 < TickMod => tick' = tick + 1)
  <2>1. TickMod \in Nat \ {0} /\ tick + 1 \in Nat
    BY <1>2, Timeouts
  <2>2. (tick + 1) % TickMod \in 0..(TickMod - 1)
    BY <2>1, ModRange
  <2>3. tick + 1 < TickMod => (tick + 1) % TickMod = tick + 1
    <3> SUFFICES ASSUME tick + 1 < TickMod PROVE (tick + 1) % TickMod = tick + 1
      OBVIOUS
    <3>1. tick + 1 \in 0..(TickMod - 1)
      BY <2>1
    <3> QED BY <2>1, <3>1, SmallMod
  <2> QED BY <1>1, <2>2, <2>3
<1>4. TypeInv'
  <2>1. due' \in Nat /\ due' <= due /\ nap' \in Nat
    BY <1>0, <1>1 DEF TypeInv, Minus1
  <2>2. Due(task) \in Nat
    BY Timeouts DEF Due
  <2> QED BY <1>0, <1>1, <1>3, <2>1, <2>2 DEF TypeInv, Due
<1>5. ~IsDeleted => /\ Left(task, due) \in Nat /\ Left(task, due) > 0
                    /\ Left(task', due') = Left(task, due) - 1
  BY <1>0, <1>1, Timeouts DEF TypeInv, TaskAt, Serving, Left, IsDeleted
<1>6. TimeInv'
  <2>1. ~wrapped /\ caller = "wait" /\ ~IsDeleted => tick' + Left(task', due') < deadline
    <3> SUFFICES ASSUME ~wrapped, caller = "wait", ~IsDeleted
                 PROVE  tick' + Left(task', due') < deadline
      OBVIOUS
    <3>1. tick + Left(task, due) < deadline
      BY <1>0 DEF TimeInv
    <3>2. Left(task, due) \in Nat /\ Left(task, due) > 0 /\ Left(task', due') = Left(task, due) - 1
      BY <1>5
    <3>3. tick + 1 < TickMod
      BY <1>2, <3>1, <3>2, Timeouts
    <3> QED BY <1>2, <1>3, <3>1, <3>2, <3>3
  <2>2. ~wrapped /\ caller = "clear" /\ task = "deleted" => due' < nap'
    BY <1>0, <1>1 DEF TypeInv, TimeInv, Minus1
  <2>3. IsDeleted' = IsDeleted
    BY <1>1 DEF IsDeleted
  <2> QED BY <1>0, <1>1, <2>1, <2>2, <2>3 DEF TimeInv
<1> QED BY <1>0, <1>1, <1>4, <1>6 DEF DnsInv, PlaceInv, IsDeleted, StoppedMeansReleased, StartedMeansServing

LEMMA DnsNext == DnsInv /\ [Next]_vars => DnsInv'
<1>1. DnsInv /\ UNCHANGED vars => DnsInv'
  <2> SUFFICES ASSUME DnsInv, UNCHANGED vars PROVE DnsInv'
    OBVIOUS
  <2>1. TypeInv' /\ PlaceInv' /\ StoppedMeansReleased' /\ StartedMeansServing'
    BY DEF vars, DnsInv, TypeInv, PlaceInv, IsDeleted, StoppedMeansReleased, StartedMeansServing
  <2>2. TimeInv'
    BY DEF vars, DnsInv, TimeInv, IsDeleted
  <2> QED BY <2>1, <2>2 DEF DnsInv
<1> QED BY <1>1, ResponderStep, RequestStep, OrchestratorStep, TickStep DEF Next

THEOREM DnsSafety == Spec => []DnsInv
BY DnsInit, DnsNext, PTL DEF Spec

\* For all time-outs that leave room for the task's last round, StopDnsServer() and
\* StartDnsServer() leave or reuse its static memory only when it is free.
THEOREM ReleasedSafety == Spec => []StoppedMeansReleased
<1>1. DnsInv => StoppedMeansReleased
  BY DEF DnsInv
<1> QED BY <1>1, DnsSafety, PTL

\* A started server never takes an old request to stop for its own.
THEOREM ServingSafety == Spec => []StartedMeansServing
<1>1. DnsInv => StartedMeansServing
  BY DEF DnsInv
<1> QED BY <1>1, DnsSafety, PTL
=============================================================================
