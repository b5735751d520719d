# Verification of the RGB strip tuner

TLA+ models of the firmware and the updater of the RGB strip tuner, an ESP32-C3
device that drives a WS2812 strip with timings set from a web page, measures what
it sent, is provisioned through a captive portal and updates its firmware over
Wi-Fi. `PROJECT.json` lists the components, the runs, the hazards, the theorems
and the source lines each definition stands for. TLC checks the runs on small
instances; the eight `*Proofs` modules hold theorems that TLAPS checks for every
value of the constants.

## The system

One core; FreeRTOS tasks preempt each other by priority, interrupts preempt all.
ESP-IDF (driver, NVS, HTTP server, OTA, boot loader) is outside the repository
and modelled from how the code calls it.

| Part | State | Operations | Talks to |
| --- | --- | --- | --- |
| Firmware records, `components/fw_meta` | metadata and control record in two flash sectors | build, validate, read, write, erase, program the force word; boot decision | updater, firmware |
| Updater boot, `updater_main.c` | copies of the records, the decision | decide, save the crash count, clear the force flag, jump, start updater mode | boot loader, records |
| Updater upload, `updater_http.c` | upload state, shown version, one-item queue, restart timer | claim and hand over (server task), receive, verify, commit, roll back, reply (worker) | records, `ota_0` |
| Firmware's update code, `fw_update.c` | healthy mark pending | request an update, mark healthy | records |
| Pulse monitor, `rmt_pulse_monitor.c` | RX channel, lock, sequence numbers, one-item queue, symbol buffer | arm (LED driver task, orchestrator), receive interrupt, decode, time out, restart | tuner results |
| LED controller, `led_controller.c` | one-item timing queue, TX channel, frame in flight | apply timing, drive a frame | pulse monitor |
| Tuner requests, `http_portal.c` | submission number, stored result | submit, read, poll | orchestrator |
| Credential store, `credential_store.c` | two NVS records | recover, load, replace | orchestrator |
| Provisioning orchestrator, `provisioning.c` | state, one timeout, counters, four copies of a credential pair, service flags | seven messages, nine timeouts | everything on the device |
| Wi-Fi manager, `wifi_manager.c` | driver mode, mutex | connect, disconnect, access point, scan, events | driver, orchestrator |
| Portal, mDNS | running or not, portal status, station identity | start, stop, submit, scan | orchestrator |
| Captive DNS server, `dns_server.c` | task in static memory, stop flag, handle | start, stop, serve | orchestrator |
| Button, `button.c` | debounced press, hold, ring of press starts | sample | orchestrator, update request |
| Logging, `logging.c` | one bounded queue | write (any task), print (writer task) | every task |
| Timing rules, encoder, pulse arithmetic: `ws2812_timing.c`, `led_controller.c`, `rmt_pulse_monitor.c` | encoder state, symbols | validate, encode a frame in chunks, decode, measure | RMT driver |
| Updater access point, pages, application start | see "Not modelled" | | |

What is hard to test is listed in `PROJECT.json` under `hazards`, each at its
line. In short:

* a reset may come between, and inside, flash operations (updater, credentials);
* four tasks and an interrupt share the RX channel, and the interrupt takes no lock;
* the orchestrator's queue is bounded and drops; its timeouts race with reports
  that are already on their way;
* connecting, DNS, HTTP, mDNS and the store can each fail between the others;
* the HTTP server task looks at the orchestrator's state without a lock;
* the DNS task's static memory is reused after a wait that can time out, over ticks
  that wrap;
* tasks of every priority overflow the log queue in two separate calls;
* the frame encoder is called with whatever room the driver has, and a pulse is told
  from the other by its length alone.

What makes each part correct:

* records and updater: only complete, verified images run; a failed or cut update
  never leaves a record of something else; a crashing firmware is given up; what
  the page says is true; every upload ends;
* pulse monitor: a measurement belongs to the request it is reported for, and
  each request gets one outcome;
* tuner: the answer to a poll is of the request's kind and final, the strip ends
  on the newest timing;
* credential store: one complete pair at all times, replaced as a whole;
* provisioning: services match the state, only pairs that did connect are stored,
  losses are repaired, the device always ends up connected or in a working portal;
* DNS server: its memory is reused only when it is free, and a started server serves;
* button: exactly the requests the header promises, at the thresholds, once;
* logging: lines of a task in order and once, records lost only to others, and the
  queue drains;
* frame: what goes out is the frame that was asked for, and what is measured is the
  commanded timing.

## Modules

| Module | Models |
| --- | --- |
| `FwMeta` | the pure functions of `fw_meta.c`, `DecideFwBoot()` above all |
| `FwFlash` | each flash operation, with what it leaves if it fails or is cut |
| `FwUpdater` | updater boot, upload and the firmware side, composed by `EXTENDS` |
| `FirmwareSlot` | abstract: a slot that holds one verified image or none |
| `FwUpdaterProofs` | theorems about `FwUpdater`: records, what runs, upload, restart, status; then crash count, the refinement of `FirmwareSlot`, what a power cycle starts |
| `PulseMonitor` | the tasks of `rmt_pulse_monitor.c`, with both arming tasks and the interrupt |
| `TunerPath` | extends `PulseMonitor` by requests, orchestrator, LED driver, results |
| `TunerPathProofs` | theorems about `PulseMonitor`, then about `TunerPath`, which implements it |
| `CredentialStore` | `credential_store.c`, one step per NVS operation |
| `CredentialSlot` | abstract: one pair, replaced as a whole |
| `CredentialStoreProofs` | theorems about `CredentialStore` |
| `Provisioning` | `provisioning.c`, with Wi-Fi driver, server task and services |
| `ProvisioningProofs` | theorems about `Provisioning` |
| `DnsServer`, `DnsServerProofs` | task, start and stop of `dns_server.c`, and theorems about them |
| `Button` | `button.c`, sample by sample |
| `ButtonPromise` | abstract: what `button.h` promises, without ring and wrap |
| `ButtonProofs` | the theorem that `Button` keeps `ButtonPromise` |
| `Logging`, `LoggingProofs` | `logging.c`, one step per call of the queue, and theorems about it |
| `Ws2812Measure` | operators: accepted timings, the symbols of a frame, the statistics of a capture |
| `Ws2812Loopback` | a frame from its timing over the encoder and the wire to its statistics |
| `Ws2812Proofs` | theorems about `Ws2812Loopback`, from lemmas about the operators of `Ws2812Measure` |
| `MC*` | the instances for TLC; `MCButton` also composes `Button` and `ButtonPromise` |

Definitions named `...Late`, `...Only`, `...Unchecked` and so on, under a comment
that starts with "Mutant", are deliberate bugs. No specification uses them; each
stands for a mistake that one property must detect (`mutants` in `PROJECT.json`).

### Updater (`FwMeta`, `FwFlash`, `FwUpdater`)

An *image* stands for a whole binary: its bytes, so its version, size and digest.
A metadata record is the image it describes, or `NoImage` if magic, version or
CRC are wrong, and whether the force word, which the CRC does not cover, is set.
A control record is its crash count, since an invalid one reads as zero. That a
CRC or a digest never matches by accident is assumed. `ota` is the complete image
in `ota_0`, `NoImage` for any partial contents.

`pc` is where the running application is (`app_main()`, updater mode, or the
firmware), `worker` where the upload worker is. Every flash operation is a step of
its own. With `Faults` it may report an error and leave its target changed or
not, and a read may fail; `Cut` is a reset in the middle of whatever operation is
under way; a cut between programming the force word and the restart that follows it is
a cut of the programming. `Cuts` allows power loss and updater panics; a firmware crash is always
possible. Sizes count receive chunks. The upload reaches the model as a body
chosen from `Bodies`: `HeadOk` are those whose head is accepted, `Verified` those
`esp_ota_end()` accepts as well. The reply to the client is the step between
`reject` and `wait`; `strikes` is a history variable that counts the firmware
crashes the stored crash count has to know of.

Left out: the pages and JSON of `GET /` and `GET /status`, logging, the Wi-Fi
set-up of the updater (its failure is a branch of `StartUpdaterMode`).

### Pulse monitor and tuner (`PulseMonitor`, `TunerPath`)

`ArmPulseCapture()` and `ArmPulseRead()` are one sequence of steps, run by the
task `"led"` or `"orch"`: take the lock without waiting, tag, mark as pending,
`rmt_receive()`, snapshot and signal, or undo. The tag and the mark are separate
steps because the interrupt `HandleRxDone` can come between them. The decode
task's steps are the signal, the locked snapshot, the wait or its timeout, the
locked comparison and copy, the restart, and the report. A capture is the receive
that wrote the buffer and whether it was complete; `good` says whether its symbols
make a measurement. `published` and `used` are history.

A waiting receive can time out at any moment, which covers every relation of the
real timeouts to the frames. A submission number is armed once at most; that the two
callers keep to it is the theorem `TunerUsesPulse` (`Spec => PulseSpec`), so the
tuner inherits what is proved of the pulse monitor. The runs check the composition
only: every behaviour of the monitor they could show is in it.

`TunerPath` adds the numbering of `POST /tuner` and `POST /tuner/read`, the
orchestrator's queue (tuner messages only), the LED driver task with its one-item
queue, the transmitter, and `s_result` with `GetTunerResultState()`. Forms are
valid when they get here, and a timing is its number. A frame is on the strip when
`rmt_transmit()` accepts it.

### Credential store (`CredentialStore`)

A record is a valid pair, absent, or `Bad` (incomplete, undecryptable, invalid).
A write that is cut or fails leaves the old record, the new one, or `Bad`. NVS
itself promises more than that for a single blob; the model does not rely on it.
`Faults` lets each NVS call report an error. A start begins with `s_ready` false and
any pair, or none, in the active record.

### Provisioning (`Provisioning`)

One step of the orchestrator is one message or one timeout, as a whole: the
handlers never look at the queue, and what the other actors do meanwhile (append
a message, write the portal status) is in the model possible before or after.
`fired` splits a timeout in two, because `xQueueReceive()` may time out and a
report still reach the queue before the handler runs.

Time is which timeout is armed. An armed timeout expires when the queue is empty.
`failures` stops at `BackoffCap`, from where the delay no longer changes.
`ServerPrompt` is the one assumption about speed: the HTTP server task, of the
orchestrator's priority, makes its next statement before a network is joined or a
timer of a second or more has run out. The code does not guarantee it. `SlowServer`
lifts it: TLC then finds a late `CONNECTING` over the outcome of an attempt, which
violates `SubmissionIsAnswered`, and `StoredDidConnect` violated; the other properties of
`MCProvisioning` still hold. The runs have it off.

`nvs` is both records of the credential store; one that is absent or not complete is
`NoCreds`. `ReplaceCredentials()` is one step here. `Replaced` succeeds, and may leave
`cred_pending` behind; `ReplaceFailed` stops at any of its NVS calls, with the active
record changed or not, or with a complete `cred_pending`, which the next start promotes.
`NextLoad` is what that start then loads. A device starts with a store that
`InitCredentialStore()` has recovered; NVS errors at the start, and power loss inside a
replacement, are in `CredentialStore` only.

The driver is external. `ConnectWifiStation()` waits for a scan, which holds the
Wi-Fi mutex, and for a disconnection under way. A disconnection is reported once it
is complete (`leaving`). Reports are posted by the event task, which preempts all
tasks here, so a report and its event are one step. `esp_wifi_connect()` fails for
a station that is connecting or connected.

`inputs` bounds everything the outside may do: requests, losses, failing calls,
slow networks. When it is used up the outside is quiet, which is what "eventually"
means in the liveness properties. `dropped` is history: the queue was full once.

`SilentFaults` adds the two failures the code does not see: a DNS task that cannot
bind its port, and `esp_wifi_set_mode()` on the way out of the portal. The runs leave
it off; with it on, TLC violates `PortalIsAlive` (see Findings).

Left out: `s_is_started` of the Wi-Fi manager (the driver runs whenever the link is
not off), the failure of `InitWifiManager()` (the device then stays without Wi-Fi),
callbacks that only log, invalid forms. What the tuner and update messages lead to
is in `TunerPath` and `FwUpdater`.

### DNS server (`DnsServer`)

The responder task is where it is in its loop (`begin` to `close`), then `deleted`
(on the idle task's list, its stack still in use) and `released`. `due` counts the
ticks its next step may still take, so `Tick` cannot pass over a step that is ready;
this is what the code's time-outs rely on, and `Lag` names it. The orchestrator's
`StopDnsServer()` is request, poll, wait for the idle task, clear;
`StartDnsServer()` begins with it if a server runs. `tick` and `deadline` are
modulo `TickMod`. `CreateTask` overwrites the task whatever it was doing, as
`xTaskCreateStatic()` does. `BuildDnsResponse()` has no state and is left out.

### Button (`Button`, `ButtonPromise`)

One step is one sample: a level and the time since the last one. A task that was held up
catches up with samples in the same millisecond, which read the same level
(`SampleGaps`). `Button` is the code with its ring of press starts, its resets and its times modulo `TimeMod`.
`ButtonPromise` is what `button.h` says, over the ages of the last press starts:
they do not wrap, and stop at hold plus window, where a start is too old for any
request. `MCButton` gives both the same samples, any level and any gap at each, and
compares the requests.

`ButtonAssumption` has what the width of time must leave room for: `LongestPause`, the
most that can lie between two press starts of one gesture with samples up to `MaxGap`
apart, once for every press in the ring but one. The code's 2^32 ms leave far more.

### Logging (`Logging`)

`LogWrite()` is up to three steps, one per call of the queue: the send that finds
room or does not, the discard of the oldest record, the second send, whose result
the code ignores. The writer task takes a record and prints it. Records are a task
and the number of its call. `overtaken` is history: a call of another task sent
something since this one made room. A call before `LogInit()` does nothing.

### Frames (`Ws2812Measure`, `Ws2812Loopback`)

`Ws2812Measure` has the arithmetic as operators over integers, with the code's
rounding, widths and ties: `ValidateWs2812Timing()`, the two symbols of a bit,
`DecodeWs2812Symbol()`, the aggregation of a Send and `AnalyzeWs2812Read()`. The loops
that add up are `RunningSum`, the sum after each symbol.
`Ws2812Loopback` runs them on one frame: the encoder callback is called with any
room the driver may have, the wire carries what it gave, and the receiver sees each
pulse with an error of some ticks or as no pulse at all. The low of the last
captured symbol is the end marker. Its properties relate both ends, so they do not
restate the operators. A symbol has both levels, and noise comes in the opposite ones, which
`IsReadSymbolUsable()` rejects.

## Runs

| Run | Question | Bounds |
| --- | --- | --- |
| `MCFwUpdater_faults` | with failing flash calls and resets anywhere: do only verified images run, does the record stay true, are three strikes the end, does the page tell the truth, do server task, worker and timer stay out of each other's way; does it all implement `FirmwareSlot` | seven uploads, one per way an upload can be wrong; 3 chunks of flash, head of 2, one receive retry, crash limit 3 |
| `MCFwUpdater_live` | with resets but no flash errors: does a power cycle start the firmware the page names, does every upload end, and, once resets end, the new firmware start and every boot settle | same |
| `MCTunerPath_faults` | do captures and requests stay paired, with one outcome each, does a restart abort only its own receive, are answers final and of the right kind | two requests and the boot frame, queue of 2, failing receives and transmitter |
| `MCTunerPath_live` | is every armed request answered or overtaken, does the strip converge, the newest Send get its answer | two requests, queue of 8, failing receives |
| `MCCredentialStore_cuts` | is there always one complete pair, and are the two records one slot | three pairs, power loss in every step |
| `MCCredentialStore_faults` | is a pair reported as stored what the next start loads | three pairs, failing NVS calls as well |
| `MCProvisioning` | do services fit the state, is the portal alive, do state and flags catch up with the driver, is the stored network the one used and the one that did connect, does the device settle, is every submission answered | two pairs, two addresses, queue of 3, two boot attempts, four inputs |
| `MCProvisioning_loss` | is a lost connection repaired | *violated*, see Findings; queue of 2 |
| `MCButton` | are the requests those of the header | hold 2, window 3, three presses, times modulo 15, gaps of 0 to 2, of 0 at an unchanged level |
| `MCLogging` | are lines in order and once, is a record lost only to others, does the queue drain | three tasks, two calls each, queue of 2 |
| `MCDnsServer` | is the memory free when it is reused, does a started server serve | receive 3, stop 9, poll 2, clean-up 2, lag 1, ticks modulo 24 |
| `MCWs2812Loopback` | is the frame exact for any cut into calls, are Send and Read measured as commanded | frames of 4 bits, room of 1 to 3, errors of a tick or noise; high times 100, 400, 410, 425, 500, 625, 650 and 1200, periods 800, 1260, 1300 and 2000, resets 800 and 810 |

Why the bounds are enough:

* Updater. Two good images are needed for a record of one over the flash of the
  other; each further body takes one rejection path. A chunk before the head, one
  that completes it and one after give `ReceiveImage()` all its branches. One retry
  is used, reset and used up. Resets are unbounded.
* Tuner. Two requests and the boot frame are a stale event, a waiting arm and a new
  one, and suffice for results out of order; the theorems cover more of them. A queue
  of 2 fills up, a queue of 8 (the code's) cannot with this many messages.
* Credentials. One pair in each record and one on offer; the theorems cover the rest.
* Provisioning. Three places in the queue hold every pair of messages that can be
  in the wrong order and still overflow; two boot attempts are a first and a last
  one; four inputs are, for instance, a button press, a failed start of the portal, a
  submission and a loss in one behaviour. Two pairs tell the tried network from the
  stored one. The liveness properties except behaviours in which the queue dropped a
  message, which `MCProvisioning_loss` is about.
* Button. Hold and window differ and are both reached exactly, missed by one and
  jumped over; three presses fill and turn the ring; 15 is the least width under which
  two press starts in the ring cannot be confused (`ButtonAssumption`), so the time
  wraps all the time. The search is complete: time has no other bound.
* Logging. Two writers and a third that gets in between, on a queue they overflow
  at once. The theorems cover all sizes.
* DNS. The time-outs are scaled down and keep their order (`DnsAssumption`, which the
  theorems assume as well): the task's last round fits into the stop time-out. The
  search is complete.
* Frames. Timings off the grid (410) are submitted and rejected. Accepted high times are
  equal, inverted, one tick apart (400 and 425, the closest that match without jitter),
  three ticks apart (425 and 500, the closest with a tick of it); 100 ns apart, where a Read
  without jitter splits, and 150 ns, where it splits with jitter; on both sides of the 625 ns that decide a frame
  of one bit only; at both ends of the ranges, and with the low time at its least. Four
  bits give each chunking of a frame, one class or two, and the last symbol, which is
  special.

Deadlock is checked where the system never stops. The tuner
stops when the requests are used up, logging when the calls are, a frame when it is
measured, provisioning when it is settled and the inputs
are used up, or when the device has restarted.

## Fairness

Weak fairness only, of steps the scheduler owes to a task that is ready and never
disabled for good: `app_main()`, the upload worker, the HTTP handler and the
restart timer in the updater; each arming call and the decode task in the pulse
monitor, whose wait has a timeout; the orchestrator, the LED driver and the
transmitter in the tuner; the log writer and each call of `LogWrite()` once begun; the
orchestrator, the server task, the Wi-Fi driver's
answer and the first address in provisioning. The last two are the network's:
`LinkUp`, `LinkFails` or `LinkLeft` answers what the driver was told, as its API
documents, and a network that let the station in assigns an address. `ResetsEnd`
in the updater's properties says that power cuts and updater panics end; a device
that is reset for ever settles nowhere. Neither
requests, nor signals on the pin, losses, crashes or power cuts are ever forced.
That the lower-priority decode task gets the processor rests on the others
blocking on their queues, which they do.

## Findings

`MCProvisioning_loss` shows the code to differ from its specification: a report of a
lost connection that finds the queue full is dropped, `STATE_CONNECTED` has no timeout
that looks at the link, and so nothing reconnects (FR-21, `captive-portal.md:102`). The
run uses a queue of two to keep the graph small; the code's has eight places and needs
that much more traffic.

Differences met while modelling, for which the project states what does hold instead:

* `ReplaceCredentials()` can return false and have changed the active record, if only
  its read-back or commit fails; the header says the record is then unchanged. The
  statement is kept as `FailureKeepsActive`. `Provisioning` has these outcomes too: the page
  says the attempt failed, and the next start uses the pair. What holds is that this pair
  did connect (`StoredDidConnect`).
* A DNS task that cannot bind its port leaves the portal without DNS, in a state with
  no timeout. `SilentFaults = TRUE` in `MCProvisioning.cfg` shows it.
* A second submission before the orchestrator has taken the first is accepted, and
  then ignored; the statement is kept as `AcceptedIsTried`.
* `logging-module.md:119` (FR-7) says a full queue gives up the oldest record. A call that
  is preempted between its discard and its second send may find the queue full again
  and gives up its own record, the newest one. `NewestLostToOthers` is what remains.
* `StopDnsServer()` compares ticks with `<`. If the deadline lies beyond the wrap of the
  tick count, the wait ends at once and the memory is reused while the task runs:
  about two seconds in each 2^32 ticks. `StoppedMeansReleased` leaves out these
  calls by the history variable `wrapped`.

Two remarks of the source that the models do not bear out, without a run of their own:

* The comment on top of `updater_http.c` says a rejected upload always leaves the
  device in updater mode at the next start. An empty or oversized one is rejected
  before anything is erased, and the next start runs the old firmware, which is safer.
* `RestartRxChannel()` clears the pending flag even if `rmt_disable()` fails. A receive
  that survives such a failure could complete under the number of the next arm. The
  model takes `rmt_disable()` to succeed in the enabled and run states, as the
  function's comment says; the pairing depends on it.

Two limits of what `ThreeStrikes` says. Its history is reset when the control record is cut
or its write fails, as the crash count in flash then is: a firmware gets its starts
again after such an event. And it says that a crashing firmware is given up in time, not
that a healthy one is never given up early.

By design, and not a finding: the newest *Read* may stay "pending" if its result is
dropped or overtaken (SPEC-004 FR-35, SPEC-006 FR-17), so `NewestSendAnswered` is
about Sends.

## Proofs

Eight modules, and a theorem for each safety invariant and action property the runs
check. Each is `Spec => []Inv` from an inductive
strengthening that TLC checked first, in three facts: the initial states satisfy it,
each step keeps it, it implies `Inv`. There is one lemma per action or group of
actions, and each strengthening is a conjunction of parts named for what they say. No
bound of the runs is assumed: the theorems hold for all sets, lengths, limits and
numbers of requests. What is assumed are the named assumptions of the modules (lengths
are numbers, verified uploads have a good head and fit, time-outs keep their order) and,
where the table says so, a constant that turns a kind of failure off.

| Theorem | Statement | Assumes |
| --- | --- | --- |
| `FwUpdaterProofs!TypeCorrect`, `RecordSafety`, `RunningSafety` | types; a valid record describes `ota_0`; only verified images run | |
| `FwUpdaterProofs!HandOffSafety`, `RestartSafety`, `StatusSafety` | the one-item queue has room, the restart interrupts no upload, the page tells what is in flash | |
| `FwUpdaterProofs!StrikesSafety` | `ThreeStrikes` | |
| `FwUpdaterProofs!UpdaterImplementsSlot` | `Spec => SlotSpec`, the refinement of `FirmwareSlot` | |
| `FwUpdaterProofs!ReturnSafety` | `PowerCycleReturns` | `Faults = FALSE` |
| `CredentialStoreProofs!StoredSafety` | what is reported as stored is what the next start loads | |
| `CredentialStoreProofs!PairSafety`, `StoreImplementsSlot` | one complete pair at all times; the refinement of `CredentialSlot` | `Faults = FALSE` |
| `TunerPathProofs!CaptureSafety`, `RestartOwnSafety`, `OutcomeSafety`, `PendingSafety` | captures belong to their arm, a restart aborts its own receive, one outcome each, the pending flag is never stuck | |
| `TunerPathProofs!TunerUsesPulse` | `Spec => PulseSpec`: the tuner uses the monitor as the monitor needs it, so the four theorems above hold of the tuner | |
| `TunerPathProofs!AnswerKindSafety`, `AnswerStaysSafety` | answers are of the request's kind, and final | |
| `DnsServerProofs!ReleasedSafety`, `ServingSafety` | the memory is free when it is reused; a started server serves | |
| `LoggingProofs!LinesSafety`, `LostSafety` | lines of a task in order and once; the newest record is lost only to others | |
| `ProvisioningProofs!ServicesSafety`, `PortalSafety` | services fit the state; provisioning mode has a whole portal | `SilentFaults = FALSE` |
| `ProvisioningProofs!RetrySafety`, `NetworkSafety`, `StoredSafety` | no background retry; the network used is the one the next start loads; a pair gets into a record of the store on the report of its own connection only, even if storing it fails | `SlowServer = FALSE` |
| `ProvisioningProofs!ViewSafety` | `ViewCatchesUp` | |
| `ButtonProofs!ButtonRequestsAsPromised` | the code's requests are those of `ButtonPromise`, sample by sample | |
| `Ws2812Proofs!WireSafety` | the frame on the wire is the bits, exactly, and one reset | |
| `Ws2812Proofs!SendSafety`, `ReadSafety` | a Send and a Read measure the commanded timing, up to the jitter, a Read also of a source with one bit only | errors of a tick at most |

The strengthenings, and why they are needed:

* Updater records. `RecordDescribesOta` is not inductive, since the danger is in the states
  without a valid record. `FlashInv` adds that there is no record from the erase to the
  commit, and that the commit finds the verified upload (`WorkerInv`); that the copy
  `app_main()` keeps in RAM still describes `ota_0` when it is written back (`BootInv`);
  that server and worker do nothing outside updater mode (`QuietInv`); and that the
  firmware that runs is the one in `ota_0` (`RunningInv`). A common lemma covers resets,
  which re-establish all but what they say of flash.
* Uploads. `HandInv`: one of server, queue, worker and timer has the upload. `CommittedInv`:
  from the commit's read-back on the record in flash is that of the upload. `ShownInv`: the
  version shown is forgotten before `ota_0` changes.
* Boot. `CountInv`: the firmware's crashes are known to the record, to the reset reason or
  to the copy of `app_main()`, at each point of the boot. `ReturnInv`: once the force flag is
  out of the way, the record is the one the copy, and later the page, names; a torn
  rewrite is why it needs `Faults = FALSE`.
* Pulse monitor. The interrupt takes no lock, so the invariant cannot be about the lock
  alone. `PairInv` ties each arming step to the lock, to the pending flag and to the tag,
  and says that no event is ahead of the buffer and that one level with it completed it.
  `OutcomeInv` adds that the numbers in the callers' hands, the snapshot and the wait are
  different ones, and whose outcome the signal stands for.
* Tuner. `KindInv` has the kind of each number wherever it is; `ResultInv` says that the one
  outcome of a number is in the queue or in the record, and once.
* DNS server. `TimeInv`: the time the task still needs to its end (`Left`) is less than what
  is left of the wait, and the idle task's time less than the pause.
* Logging. `OrderInv` compares the records of a task in the queue, on the line and in its
  hands. `RoomInv`: a call that made room, and that no one overtook, finds it.
* Provisioning, networks. `NetworkInv`: a submission in the queue or in the server's hands
  pins the portal's state; a portal that waits has no report of a connection behind a
  submission; during a trial there is at most one such report, and it is the trial's. The
  prompt server is part of this argument: no network is joined while a submission is in the
  server's hands. The view, below, does without it.
* Provisioning, view. A report may be late, so flags and driver differ most of the time.
  `ViewInv` says what they *become*: a flag becomes true if the last of the reports that
  change it, in the queue, turns it on, or if there is none and it is on (`Becomes`). The
  same is said of the state and of the identity. With the queue empty, what becomes is.

* Button. The ring, modulo `TimeMod`, against ages that do not wrap. `RingAged`: the age
  of each press start in the ring is its distance to the newest one plus the time since,
  which is short of a wrap because the pauses are (`PauseTimed`); whatever the code has
  dropped from the ring is so old that it cannot be in a gesture with what is left.
  `IdleForgotten` says the same of an empty ring, and `LevelSeen` that a reported hold
  leaves nothing behind on either side. The lemmas on `Elapsed()` come first: distances
  modulo the width add up as long as their sum is less than it.
* Frames. `FrameInv`: the encoder has sent exactly the bits it counts, and waits for
  room for the reset exactly when these are all. What is captured follows from the wire;
  the work is in lemmas about the operators: no accepted duration is rounded
  (`BitExact`), extremes of a set of times exist (`MinLeast`, `MaxGreatest`), an average
  lies between bounds of what it averages (`AverageBounds`), a pulse is decoded as the bit
  that was sent (`SendDecoded`), the midpoint of the extremes separates the bits
  (`ReadSplit`). The induction over the symbols of a frame is by a least counterexample
  (`NatLeast`, from the well-foundedness of `<` on the numbers), since the induction
  theorems of the library take an operator the provers cannot instantiate.

Only model-checked: liveness and everything about `ENABLED`, which is out of the prover's
reach: `UploadEnds`, `NewFirmwareStarts`, `BootSettles`, `ArmedIsAnswered`,
`StripConverges`, `NewestSendAnswered`, `Settles`, `SubmissionIsAnswered`, `QueueDrains`.
The models have no recursive operators; the one recursion, `RunningSum`, is a function.

## Not modelled

| Part | Why |
| --- | --- |
| `portal_form.c`, `ParseTunerForm()`, `station_origin.c` | text to values, one call without state; forms are valid, and origins accepted, when they get to the models |
| `BuildDnsResponse()` | a function of one packet; the task's loop around it is modelled |
| `NormalizeWifiScanEntries()` | sorts and thins out a list that is only shown |
| JSON, pages and log text, updater and tuner | formatting |
| mDNS host names | text; that the service runs, fails or stops is modelled |
| Updater access point, application start | driver set-up and start calls, once and in order |
| 32-bit wrap of submission numbers | not reachable in a device's up-time; numbers are unbounded in the model |
| Failing `rmt_disable()`, an encoder shared with an unfinished frame, an OTA handle left open | listed under `hazards`, with the reason |

## Plan

Done: updater, flash and boot; pulse monitor and tuner; credential store; provisioning;
DNS server, button, logging; timing rules, encoder and measurement; proofs of each
safety property listed above.

Left, in this order:

1. `NormalizeWifiScanEntries()`, `BuildDnsResponse()`, form parsing and the origin check as
   operators, against reference definitions.
2. The orchestrator's own view of results and updates inside `Provisioning`, which now has
   them as messages whose effect is in `TunerPath` and `FwUpdater`.
3. Theorems on what the liveness properties rest on short of fairness: bounds on the steps
   left, such as those of an upload with its retries.
