----------------------------- MODULE DnsServer ------------------------------
(***************************************************************************)
(* dns_server.c: the responder task and the handshake that ends it.  The   *)
(* task lives in static memory (s_task_struct, s_task_stack), which        *)
(* StartDnsServer() reuses; StopDnsServer() raises a flag, polls until the *)
(* task has deleted itself, and leaves the idle task time to release it.   *)
(* Start and stop are called by the orchestrator only, one at a time.      *)
(*                                                                         *)
(* Time is the tick count, which wraps.  A step of the responder or of the *)
(* idle task that is ready comes within Lag ticks.                         *)
(***************************************************************************)
EXTENDS Integers

CONSTANTS ReceiveTimeout,   \* DNS_RECEIVE_TIMEOUT_MS in ticks
          StopTimeout,      \* DNS_STOP_TIMEOUT_MS
          Poll,             \* the 20 ms between two looks at the task
          Cleanup,          \* DNS_IDLE_CLEANUP_MS
          Lag,              \* bound on the delay of a step that is ready
          TickMod           \* 2^32: the width of TickType_t

\* The time-outs leave room for the task's last round: a reply, the look at the
\* flag, a receive that times out, and the end.
ASSUME DnsAssumption ==
    /\ {ReceiveTimeout, StopTimeout, Poll, Cleanup, Lag, TickMod} \subseteq Nat \ {0}
    /\ ReceiveTimeout + 5 * Lag < StopTimeout /\ Lag < Cleanup
    /\ StopTimeout < TickMod

VARIABLES tick,         \* xTaskGetTickCount()
          handle,       \* s_task is set
          stop,         \* s_is_stop_requested
          task,         \* where the task in s_task_struct is
          socket,       \* its socket: closed, bound, or failed to bind
          due,          \* ticks left for its next step, or the idle task's
          caller,       \* where the orchestrator is in Start or Stop
          restart,      \* it is in the StopDnsServer() of StartDnsServer()
          deadline,     \* deadline_ticks
          nap,          \* ticks left of its vTaskDelay()
          wrapped       \* history: the last deadline was computed across the wrap

vars == <<tick, handle, stop, task, socket, due, caller, restart, deadline, nap, wrapped>>

Serving == {"begin", "check", "receive", "reply"}
TaskAt == Serving \cup {"close", "deleted", "released"}

TypeOK ==
    /\ tick \in 0..(TickMod - 1) /\ deadline \in 0..(TickMod - 1)
    /\ handle \in BOOLEAN /\ stop \in BOOLEAN /\ restart \in BOOLEAN /\ wrapped \in BOOLEAN
    /\ task \in TaskAt
    /\ socket \in {"closed", "bound", "failed"}
    /\ due \in 0..(ReceiveTimeout + Lag)
    /\ caller \in {"idle", "wait", "release", "clear", "create"}
    /\ nap \in 0..(Poll + Cleanup)

Init ==
    /\ tick \in 0..(TickMod - 1)
    /\ handle = FALSE /\ stop = FALSE /\ task = "released" /\ socket = "closed" /\ due = 0
    /\ caller = "idle" /\ restart = FALSE /\ deadline = 0 /\ nap = 0 /\ wrapped = FALSE

-----------------------------------------------------------------------------
(* RunDnsTask().                                                           *)

TaskGoes(here, there, time) == task = here /\ task' = there /\ due' = time

Bind ==
    /\ \/ TaskGoes("begin", "check", Lag) /\ socket' = "bound"
       \/ TaskGoes("begin", "deleted", Lag) /\ socket' = "failed"
    /\ UNCHANGED <<tick, handle, stop, caller, restart, deadline, nap, wrapped>>

CheckStop ==
    /\ \/ ~stop /\ TaskGoes("check", "receive", ReceiveTimeout + Lag)
       \/ stop /\ TaskGoes("check", "close", Lag)
    /\ UNCHANGED <<tick, handle, stop, socket, caller, restart, deadline, nap, wrapped>>

\* recvfrom() returns a query or, when its time is over, nothing.
Receive ==
    /\ \/ TaskGoes("receive", "reply", Lag)
       \/ due <= Lag /\ TaskGoes("receive", "check", Lag)
    /\ UNCHANGED <<tick, handle, stop, socket, caller, restart, deadline, nap, wrapped>>

\* BuildDnsResponse(), and sendto() unless it gave nothing.
Reply ==
    /\ TaskGoes("reply", "check", Lag)
    /\ UNCHANGED <<tick, handle, stop, socket, caller, restart, deadline, nap, wrapped>>

\* close() and vTaskDelete(NULL)
CloseAndDelete ==
    /\ TaskGoes("close", "deleted", Lag) /\ socket' = "closed"
    /\ UNCHANGED <<tick, handle, stop, caller, restart, deadline, nap, wrapped>>

\* The idle task takes a deleted task off its list.
IdleReleases ==
    /\ TaskGoes("deleted", "released", 0)
    /\ UNCHANGED <<tick, handle, stop, socket, caller, restart, deadline, nap, wrapped>>

Responder == Bind \/ CheckStop \/ Receive \/ Reply \/ CloseAndDelete \/ IdleReleases

-----------------------------------------------------------------------------
(* StartDnsServer() and StopDnsServer().                                   *)

\* The request, and the deadline of the wait.
RequestStop(again) ==
    /\ caller = "idle" /\ handle
    /\ stop' = TRUE /\ restart' = again
    /\ deadline' = (tick + StopTimeout) % TickMod
    /\ wrapped' = (tick + StopTimeout >= TickMod)
    /\ caller' = "wait" /\ nap' = 0
    /\ UNCHANGED <<tick, handle, task, socket, due>>

StopDnsServer == RequestStop(FALSE)

StartDnsServer ==
    \/ RequestStop(TRUE)
    \/ /\ caller = "idle" /\ ~handle /\ caller' = "create"
       /\ UNCHANGED <<tick, handle, stop, task, socket, due, restart, deadline, nap, wrapped>>

\* eTaskGetState() of a task that is waiting for its release, or is released.
IsDeleted == task \in {"deleted", "released"}

WaitForTask ==
    /\ caller = "wait" /\ nap = 0
    /\ \/ ~IsDeleted /\ tick < deadline /\ nap' = Poll /\ UNCHANGED caller
       \/ (IsDeleted \/ tick >= deadline) /\ caller' = "release" /\ UNCHANGED nap
    /\ UNCHANGED <<tick, handle, stop, task, socket, due, restart, deadline, wrapped>>

\* Mutant: deleted is taken for released.
SkipCleanup ==
    /\ caller = "release" /\ caller' = "clear"
    /\ UNCHANGED <<tick, handle, stop, task, socket, due, restart, deadline, nap, wrapped>>

WaitForRelease ==
    /\ caller = "release" /\ caller' = "clear"
    /\ nap' = IF IsDeleted THEN Cleanup ELSE 0
    /\ UNCHANGED <<tick, handle, stop, task, socket, due, restart, deadline, wrapped>>

ClearHandle ==
    /\ caller = "clear" /\ nap = 0
    /\ handle' = FALSE
    /\ caller' = (IF restart THEN "create" ELSE "idle")
    /\ UNCHANGED <<tick, stop, task, socket, due, restart, deadline, nap, wrapped>>

\* Mutant: the flag keeps the request of the last stop.
CreateStopped ==
    /\ caller = "create" /\ caller' = "idle"
    /\ handle' = TRUE /\ task' = "begin" /\ socket' = "closed" /\ due' = Lag
    /\ UNCHANGED <<tick, stop, restart, deadline, nap, wrapped>>

\* xTaskCreateStatic(): whatever the memory was in use for is gone.
CreateTask ==
    /\ caller = "create" /\ caller' = "idle"
    /\ stop' = FALSE /\ handle' = TRUE
    /\ task' = "begin" /\ socket' = "closed" /\ due' = Lag
    /\ UNCHANGED <<tick, restart, deadline, nap, wrapped>>

Orchestrator == WaitForTask \/ WaitForRelease \/ ClearHandle \/ CreateTask

-----------------------------------------------------------------------------
Minus1(n) == IF n > 0 THEN n - 1 ELSE 0

\* No step of the responder may be late.
Tick ==
    /\ task # "released" => due > 0
    /\ tick' = (tick + 1) % TickMod
    /\ due' = Minus1(due) /\ nap' = Minus1(nap)
    /\ UNCHANGED <<handle, stop, task, socket, caller, restart, deadline, wrapped>>

Next == Responder \/ StartDnsServer \/ StopDnsServer \/ Orchestrator \/ Tick

Spec == Init /\ [][Next]_vars

-----------------------------------------------------------------------------
(* Properties.                                                             *)

\* The static memory is reused, and the server is reported stopped, only when the
\* idle task has released the old task (comment in StopDnsServer()), unless the tick
\* count wrapped before the deadline, which ends the wait at once.
StoppedMeansReleased == ~handle /\ ~wrapped => task = "released"

\* A server that was started serves until it is stopped: it does not take the
\* request that ended the last one for its own.  Only a failed bind ends it.
StartedMeansServing ==
    caller = "idle" /\ handle => task \in Serving \/ socket = "failed"
=============================================================================
