---------------------------- MODULE Provisioning ----------------------------
(***************************************************************************)
(* provisioning.c: the orchestrator task that owns the Wi-Fi life of the   *)
(* device, from the boot decision over connecting and reconnecting to the  *)
(* captive portal, with the services it starts and stops: the two profiles *)
(* of the HTTP server, mDNS, the DNS server and the access point.          *)
(*                                                                         *)
(* Three other actors run against it: the Wi-Fi driver, whose events reach *)
(* the bounded queue through the event task, which preempts every task     *)
(* here; the HTTP server task, which scans and hands over submitted        *)
(* credentials; and the button.  The orchestrator sees none of them but    *)
(* through its queue, and times out only when the queue is empty.          *)
(*                                                                         *)
(* One step is one message or one timeout.  Credentials are model values;  *)
(* time is which timer is armed.                                           *)
(***************************************************************************)
EXTENDS Integers, Sequences, FiniteSets, FiniteSetsExt

CONSTANTS Creds,            \* the valid pairs of SSID and password
          NoCreds,          \* a zeroed pair
          Addresses,        \* the IPv4 addresses the network may assign
          QueueLength,      \* QUEUE_LENGTH
          BootAttemptMax,   \* BOOT_ATTEMPT_MAX
          MaxInputs,        \* bound on requests, losses and faults together
          SilentFaults,     \* BOOLEAN: failures the code does not see
          SlowServer        \* BOOLEAN: the server task may lose the processor for seconds

ASSUME ProvisioningAssumption ==
    /\ NoCreds \notin Creds
    /\ Addresses \subseteq Nat \ {0}
    /\ QueueLength \in Nat \ {0} /\ BootAttemptMax \in Nat \ {0} /\ MaxInputs \in Nat
    /\ SilentFaults \in BOOLEAN /\ SlowServer \in BOOLEAN

VARIABLES state, timer,     \* s_state; the armed timeout in ms, 0 for none
          fired,            \* xQueueReceive() timed out on it
          attempts,         \* s_attempt_count
          failures,         \* s_failure_count
          assoc, hasIp,     \* s_is_associated, s_has_ip
          loaded,           \* s_stored, NoCreds without s_has_stored
          active, trial,    \* s_active, s_trial
          httpUp, mdns,     \* s_is_http_up, s_is_mdns_up
          profile,          \* the profile of the running server
          identity,         \* the address of the station identity
          ap, dns,          \* access point and DNS server: off, on or dead
          status,           \* s_status of the portal
          web, form,        \* where the HTTP server task is, with which pair
          link,             \* the station side of the Wi-Fi driver
          queue,            \* the messages to the orchestrator
          nvs,              \* the credential store: cred_active and cred_pending
          inputs,           \* how many inputs are left
          dropped           \* history: a full queue dropped a message

machine == <<state, timer, fired, attempts, failures>>
station == <<assoc, hasIp, loaded, active, trial>>
services == <<httpUp, mdns, profile, identity, ap, dns>>
server == <<status, web, form>>
driver == <<link, nvs, inputs>>
mailbox == <<queue, dropped>>
vars == <<machine, station, services, server, driver, mailbox>>

PortalStates == {"PORTAL_IDLE", "PORTAL_TRIAL", "PORTAL_SUCCESS", "PORTAL_RETRY"}
BootStates == {"BOOT_WAIT", "STA_ATTEMPT", "STA_PAUSE"}
StationStates == {"CONNECTED", "RECONNECT_WAIT", "RECONNECT_TRY"}
States == BootStates \cup StationStates \cup PortalStates \cup {"RESTARTED"}

AttemptTimeoutMs == 10000
AttemptPauseMs == 2000
BootButtonWindowMs == 1050
ApShutdownDelayMs == 3000
PortalRetryMs == 5000
HostnameCheckDelayMs == 3000
ServiceRetryMs == 5000

\* GetWifiReconnectDelayMs(); from BackoffCap failures on, the delay stays.
BackoffCap == 6
\* Mutant: the first retry is meant to come at once.
DelayFromZero(count) == IF count = 0 THEN 0 ELSE Min({1000 * 2^(count - 1), 60000})
GetWifiReconnectDelayMs(count) == Min({1000 * 2^count, 60000})

MaybeCreds == Creds \cup {NoCreds}
MessageTypes == {"button", "connected", "disconnected", "submitted", "got_ip", "tuner", "update"}
\* "of" is the payload of a submission, and tells which pair a connection used.
Message == [type : MessageTypes, of : MaybeCreds]
\* A record that is absent or not complete counts as NoCreds.
Store == [active : MaybeCreds, pending : MaybeCreds]
Link == [phase : {"off", "trying", "up", "leaving"}, target : MaybeCreds, addr : Addresses \cup {0}]

TypeOK ==
    /\ state \in States
    /\ timer \in {0, AttemptTimeoutMs, AttemptPauseMs, BootButtonWindowMs, ApShutdownDelayMs,
                  PortalRetryMs} \cup {GetWifiReconnectDelayMs(n) : n \in 0..BackoffCap}
    /\ fired \in BOOLEAN
    /\ attempts \in 0..BootAttemptMax
    /\ failures \in 0..BackoffCap
    /\ assoc \in BOOLEAN /\ hasIp \in BOOLEAN
    /\ loaded \in MaybeCreds /\ active \in MaybeCreds /\ trial \in MaybeCreds
    /\ httpUp \in BOOLEAN /\ mdns \in BOOLEAN
    /\ profile \in {"none", "portal", "station"}
    /\ identity \in Addresses \cup {0}
    /\ ap \in BOOLEAN /\ dns \in {"off", "on", "dead"}
    /\ status \in {"IDLE", "CONNECTING", "CONNECTED", "FAILED"}
    /\ web \in {"idle", "scan", "post", "status"} /\ form \in MaybeCreds
    /\ link \in Link
    /\ queue \in Seq(Message) /\ Len(queue) <= QueueLength
    /\ nvs \in Store
    /\ inputs \in 0..MaxInputs
    /\ dropped \in BOOLEAN

\* ProvisioningStart() with a working Wi-Fi driver and a store that InitCredentialStore()
\* has recovered, up to the first wait.
Init ==
    /\ state = "BOOT_WAIT" /\ timer = BootButtonWindowMs /\ fired = FALSE
    /\ attempts = 0 /\ failures = 0 /\ assoc = FALSE /\ hasIp = FALSE
    /\ nvs \in [active : MaybeCreds, pending : {NoCreds}] /\ loaded = nvs.active
    /\ active = NoCreds /\ trial = NoCreds
    /\ httpUp = FALSE /\ mdns = FALSE /\ profile = "none" /\ identity = 0
    /\ ap = FALSE /\ dns = "off" /\ status = "IDLE" /\ web = "idle" /\ form = NoCreds
    /\ link = [phase |-> "off", target |-> NoCreds, addr |-> 0]
    /\ queue = <<>> /\ inputs = MaxInputs /\ dropped = FALSE

\* Every request, loss and fault is one of finitely many.
Spend == inputs > 0 /\ inputs' = inputs - 1

\* PostMessage(): a full queue drops the message.
Post(type, of) ==
    \/ /\ Len(queue) < QueueLength /\ UNCHANGED dropped
       /\ queue' = Append(queue, [type |-> type, of |-> of])
    \/ /\ Len(queue) = QueueLength /\ dropped' = TRUE
       /\ UNCHANGED queue

SetState(s, timeoutMs) == state' = s /\ timer' = timeoutMs

-----------------------------------------------------------------------------
(* The Wi-Fi driver and the event handlers of wifi_manager.c.              *)

Driver(phase, type) ==
    /\ link' = [link EXCEPT !.phase = phase, !.addr = 0]
    /\ Post(type, link.target)
    /\ UNCHANGED <<machine, station, services, server, nvs>>

\* Joining a network, or a timer, takes much longer than the server task, of
\* the priority of the orchestrator, needs for its next statement, unless it is slow.
ServerPrompt == SlowServer \/ web \notin {"post", "status"}

LinkUp ==
    link.phase = "trying" /\ ServerPrompt /\ Driver("up", "connected") /\ UNCHANGED inputs
LinkFails == link.phase = "trying" /\ Driver("off", "disconnected") /\ Spend
LinkLost == link.phase = "up" /\ Driver("off", "disconnected") /\ Spend
LinkLeft == link.phase = "leaving" /\ Driver("off", "disconnected") /\ UNCHANGED inputs

\* The first address is sure to come, a change of it is not.
LinkAddress(a) ==
    /\ link.phase = "up" /\ link.addr # a
    /\ link' = [link EXCEPT !.addr = a]
    /\ Post("got_ip", NoCreds)
    /\ IF link.addr = 0 THEN UNCHANGED inputs ELSE Spend
    /\ UNCHANGED <<machine, station, services, server, nvs>>

\* ConnectWifiStation(): waits for a scan, and for the driver to finish what it
\* does.  It may fail; it does for a zeroed pair, and while a connection exists.
ConnectWifiStation(c) ==
    /\ web # "scan" /\ link.phase # "leaving"
    /\ \/ /\ c # NoCreds /\ link.phase = "off"
          /\ link' = [phase |-> "trying", target |-> c, addr |-> 0] /\ UNCHANGED inputs
       \/ c # NoCreds /\ link.phase = "off" /\ UNCHANGED link /\ Spend
       \/ (c = NoCreds \/ link.phase # "off") /\ UNCHANGED <<link, inputs>>

\* DisconnectWifiStation(): the event follows.  Before the driver is started
\* there is nothing to disconnect.
DisconnectWifiStation ==
    /\ web # "scan"
    /\ link' = IF link.phase \in {"trying", "up"}
               THEN [link EXCEPT !.phase = "leaving", !.addr = 0] ELSE link

-----------------------------------------------------------------------------
(* The HTTP server task, and the button.                                   *)

Request(type) ==
    /\ Spend /\ Post(type, NoCreds)
    /\ UNCHANGED <<machine, station, services, server, link, nvs>>

HandleButtonRequest == Request("button")
HandleUpdateGesture == Request("update")
\* A timing, a read request or a result: TunerPath follows them.
PostTunerMessage == Request("tuner")

\* HandleScanRequest(): ScanWifiNetworks() holds the Wi-Fi mutex meanwhile.
ScanBegin ==
    /\ profile = "portal" /\ web = "idle" /\ web' = "scan" /\ Spend
    /\ UNCHANGED <<machine, station, services, status, form, link, nvs, mailbox>>

ScanEnd ==
    /\ web = "scan" /\ web' = "idle"
    /\ UNCHANGED <<machine, station, services, status, form, driver, mailbox>>

\* HandleSubmitRequest() with a valid form: SubmitCredentials() looks at the
\* state, then posts; the status is written last.
SubmitCheck(c) ==
    /\ profile = "portal" /\ web = "idle" /\ Spend
    /\ state = "PORTAL_IDLE"
    /\ web' = "post" /\ form' = c
    /\ UNCHANGED <<machine, station, services, status, link, nvs, mailbox>>

SubmitPost ==
    /\ web = "post" /\ web' = "status"
    /\ Post("submitted", form) /\ form' = NoCreds
    /\ UNCHANGED <<machine, station, services, status, driver>>

SubmitStatus ==
    /\ web = "status" /\ web' = "idle"
    /\ status' = "CONNECTING"
    /\ UNCHANGED <<machine, station, services, form, driver, mailbox>>

WebStep == ScanEnd \/ SubmitPost \/ SubmitStatus

-----------------------------------------------------------------------------
(* The services.                                                           *)

\* StopHttpPortal(): httpd_stop() waits for the request the server handles.
ServerStops == web = "idle"

\* StartDnsServer() is told nothing of a task that cannot bind its port.
StartDnsServer == dns' \in {"on"} \cup (IF SilentFaults THEN {"dead"} ELSE {})

\* The result of esp_wifi_set_mode() is not used.
StopWifiAccessPoint == ap' \in {FALSE} \cup (IF SilentFaults THEN {TRUE} ELSE {})

StopAccess == dns' = "off" /\ StopWifiAccessPoint

StopStationServices == ServerStops /\ httpUp' = FALSE /\ mdns' = FALSE

\* StartHttpStationServer() and StartMdnsService(): what runs is left alone.
HttpStarts == {httpUp, TRUE}
MdnsStarts == {mdns, TRUE}

PortalStarts ==
    /\ ap' = TRUE /\ StartDnsServer
    /\ profile' = "portal" /\ status' = "IDLE"
    /\ SetState("PORTAL_IDLE", 0) /\ UNCHANGED inputs

\* Mutant: the failure is undone, and not retried.
PortalStartGivesUp ==
    /\ Spend /\ StopAccess /\ profile' = "none" /\ status' \in {status, "IDLE"}
    /\ SetState("PORTAL_IDLE", 0)

PortalStartFails ==
    /\ Spend /\ StopAccess /\ profile' = "none" /\ status' \in {status, "IDLE"}
    /\ SetState("PORTAL_RETRY", PortalRetryMs)

\* Mutant: mDNS goes on.
EnterProvisioningOnly ==
    /\ ServerStops /\ httpUp' = FALSE /\ hasIp' = FALSE
    /\ DisconnectWifiStation
    /\ PortalStarts \/ PortalStartFails
    /\ UNCHANGED <<failures, loaded, active, trial, identity, mdns, web, form, nvs>>

EnterProvisioning ==
    /\ StopStationServices /\ hasIp' = FALSE
    /\ DisconnectWifiStation
    /\ PortalStarts \/ PortalStartFails
    /\ UNCHANGED <<failures, loaded, active, trial, identity, web, form, nvs>>

\* StartStationServices(): starts what does not run, and arms the next look.
StartMissing ==
    \E isHttpUp \in HttpStarts, isMdnsUp \in MdnsStarts :
        /\ httpUp' = isHttpUp /\ mdns' = isMdnsUp
        /\ profile' = IF isHttpUp THEN "station" ELSE "none"
        /\ \/ isHttpUp /\ isMdnsUp /\ SetState("CONNECTED", HostnameCheckDelayMs) /\ UNCHANGED inputs
           \/ ~(isHttpUp /\ isMdnsUp) /\ SetState("CONNECTED", ServiceRetryMs) /\ Spend

StartStationServices ==
    StartMissing /\ identity' = IF httpUp THEN identity ELSE link.addr

LeaveProvisioning ==
    /\ ServerStops /\ StopAccess
    /\ trial' = NoCreds /\ failures' = 0
    /\ \/ assoc /\ hasIp /\ StartStationServices
       \/ /\ ~(assoc /\ hasIp) /\ profile' = "none"
          /\ IF assoc THEN SetState("CONNECTED", 0)
                      ELSE SetState("RECONNECT_WAIT", GetWifiReconnectDelayMs(0))
          /\ UNCHANGED <<httpUp, mdns, identity, inputs>>
    /\ UNCHANGED <<attempts, assoc, hasIp, loaded, active, server, link, nvs>>

\* Mutants: the attempt goes on in the driver; the page is not told.
FailTrialOnly ==
    /\ UNCHANGED link
    /\ trial' = NoCreds /\ status' = "FAILED"
    /\ SetState("PORTAL_IDLE", 0)
FailTrialUntold ==
    /\ DisconnectWifiStation
    /\ trial' = NoCreds /\ UNCHANGED status
    /\ SetState("PORTAL_IDLE", 0)

FailTrial ==
    /\ DisconnectWifiStation
    /\ trial' = NoCreds /\ status' = "FAILED"
    /\ SetState("PORTAL_IDLE", 0)

-----------------------------------------------------------------------------
(* HandleMessage().                                                        *)

Take(type) ==
    /\ state # "RESTARTED" /\ ~fired /\ queue # <<>> /\ Head(queue).type = type
    /\ queue' = Tail(queue) /\ UNCHANGED <<fired, dropped>>

OnButton ==
    /\ Take("button")
    /\ \/ state \in PortalStates
          /\ UNCHANGED <<state, timer, attempts, failures, station, services, server, driver>>
       \/ state \notin PortalStates /\ EnterProvisioning /\ UNCHANGED <<attempts, assoc>>

\* Mutant: a report during the wait for the next attempt is taken for a stray.
OnlyDuringAttempts == {"STA_ATTEMPT", "RECONNECT_TRY"}

\* Where a connection is the one waited for, late as it may be.
ExpectsConnection == {"STA_ATTEMPT", "RECONNECT_WAIT", "RECONNECT_TRY"}

\* ReplaceCredentials() of CredentialStore, as a whole.  It succeeds even if the erase
\* of cred_pending fails.
Replaced(c) ==
    \/ nvs' = [active |-> c, pending |-> NoCreds] /\ UNCHANGED inputs
    \/ nvs' = [active |-> c, pending |-> c] /\ Spend

\* It fails at once, or at cred_pending, or at cred_active with cred_pending complete; a
\* write that is reported as failed may have changed its record all the same.
ReplaceFailed(c) ==
    /\ \/ \E p \in {nvs.pending, c, NoCreds} : nvs' = [nvs EXCEPT !.pending = p]
       \/ \E a \in {nvs.active, c, NoCreds} : nvs' = [active |-> a, pending |-> c]
    /\ Spend

\* Mutant: the pair is stored, and not used.
StoreTrialOnly ==
    /\ Replaced(trial) /\ status' = "CONNECTED" /\ UNCHANGED active
    /\ SetState("PORTAL_SUCCESS", ApShutdownDelayMs)

StoreTrial ==
    /\ Replaced(trial) /\ active' = trial /\ status' = "CONNECTED"
    /\ SetState("PORTAL_SUCCESS", ApShutdownDelayMs)

\* HandleStationConnected(); storing the pair may fail.
OnConnected ==
    /\ Take("connected") /\ assoc' = TRUE
    /\ \/ /\ state \in ExpectsConnection
          /\ active' = IF state = "STA_ATTEMPT" THEN loaded ELSE active
          /\ failures' = 0 /\ SetState("CONNECTED", 0)
          /\ UNCHANGED <<trial, status, driver>>
       \/ state = "PORTAL_TRIAL" /\ StoreTrial /\ UNCHANGED <<failures, trial, link>>
       \/ /\ state = "PORTAL_TRIAL" /\ ReplaceFailed(trial) /\ FailTrial
          /\ UNCHANGED <<failures, active>>
       \/ /\ state \notin ExpectsConnection \cup {"PORTAL_TRIAL"}
          /\ UNCHANGED <<state, timer, failures, active, trial, status, driver>>
    /\ UNCHANGED <<attempts, hasIp, loaded, services, web, form>>

\* ++s_failure_count, as far as the delay can tell
OneMoreFailure == Min({failures + 1, BackoffCap})

ReconnectAfter(count) ==
    failures' = count /\ SetState("RECONNECT_WAIT", GetWifiReconnectDelayMs(count))

\* HandleStationDisconnected(); attempts and trials run to their own timeout.
OnDisconnected ==
    /\ Take("disconnected") /\ assoc' = FALSE /\ hasIp' = FALSE
    /\ \/ state = "CONNECTED" /\ ReconnectAfter(0)
       \/ state = "RECONNECT_TRY" /\ ReconnectAfter(OneMoreFailure)
       \/ state \notin {"CONNECTED", "RECONNECT_TRY"} /\ UNCHANGED <<state, timer, failures>>
    /\ UNCHANGED <<attempts, loaded, active, trial, services, server, driver>>

SetAddress == identity' = link.addr

\* HandleStationGotIp()
OnGotIp ==
    /\ Take("got_ip") /\ hasIp' = TRUE
    /\ \/ /\ state # "CONNECTED"
          /\ UNCHANGED <<state, timer, httpUp, mdns, profile, identity, inputs>>
       \/ /\ state = "CONNECTED" /\ httpUp /\ mdns
          /\ SetAddress /\ SetState("CONNECTED", HostnameCheckDelayMs)
          /\ UNCHANGED <<httpUp, mdns, profile, inputs>>
       \/ /\ state = "CONNECTED" /\ ~(httpUp /\ mdns)
          /\ StartMissing /\ SetAddress
    /\ UNCHANGED <<attempts, failures, assoc, loaded, active, trial, ap, dns, server, link, nvs>>

OnSubmitted ==
    /\ Take("submitted")
    /\ \/ /\ state = "PORTAL_IDLE" /\ trial' = Head(queue).of
          /\ ConnectWifiStation(Head(queue).of)
          /\ SetState("PORTAL_TRIAL", AttemptTimeoutMs)
       \/ state # "PORTAL_IDLE" /\ UNCHANGED <<state, timer, trial, link, inputs>>
    /\ UNCHANGED <<attempts, failures, assoc, hasIp, loaded, active, services, server, nvs>>

OnTuner ==
    /\ Take("tuner")
    /\ UNCHANGED <<state, timer, attempts, failures, station, services, server, driver>>

\* HandleUpdateRequest(): without the flag nothing happens; with it, everything
\* stops and the device restarts.
OnUpdate ==
    /\ Take("update")
    /\ \/ Spend /\ UNCHANGED <<state, timer, services, link>>
       \/ /\ StopStationServices /\ StopAccess /\ profile' = "none"
          /\ DisconnectWifiStation /\ SetState("RESTARTED", 0) /\ UNCHANGED <<identity, inputs>>
    /\ UNCHANGED <<attempts, failures, station, server, nvs>>

HandleMessage ==
    \/ OnButton \/ OnConnected \/ OnDisconnected \/ OnGotIp \/ OnSubmitted \/ OnTuner \/ OnUpdate

-----------------------------------------------------------------------------
(* HandleTimeout().                                                        *)

\* The wait of RunOrchestratorTask() ends without a message.  A network slower
\* than the timer of an attempt is one of the inputs.
TimerExpires ==
    /\ ~fired /\ queue = <<>> /\ timer # 0 /\ ServerPrompt
    /\ fired' = TRUE
    /\ IF link.phase = "trying" THEN Spend ELSE UNCHANGED inputs
    /\ UNCHANGED <<state, timer, attempts, failures, station, services, server, link, nvs, mailbox>>

Expired(s) == fired /\ fired' = FALSE /\ state = s /\ UNCHANGED <<assoc, mailbox>>

StartBootAttempt ==
    /\ attempts' = attempts + 1
    /\ ConnectWifiStation(loaded)
    /\ SetState("STA_ATTEMPT", AttemptTimeoutMs)
    /\ UNCHANGED <<failures, hasIp, loaded, active, trial, services, server, nvs>>

BootWaitOver ==
    /\ Expired("BOOT_WAIT")
    /\ \/ loaded # NoCreds /\ StartBootAttempt
       \/ loaded = NoCreds /\ EnterProvisioning /\ UNCHANGED attempts

AttemptOver ==
    /\ Expired("STA_ATTEMPT") /\ UNCHANGED attempts
    /\ \/ /\ attempts < BootAttemptMax /\ DisconnectWifiStation
          /\ SetState("STA_PAUSE", AttemptPauseMs)
          /\ UNCHANGED <<failures, hasIp, loaded, active, trial, services, server, nvs, inputs>>
       \/ attempts >= BootAttemptMax /\ EnterProvisioning

PauseOver == Expired("STA_PAUSE") /\ StartBootAttempt

ReconnectWaitOver ==
    /\ Expired("RECONNECT_WAIT")
    /\ ConnectWifiStation(active)
    /\ SetState("RECONNECT_TRY", AttemptTimeoutMs)
    /\ UNCHANGED <<attempts, failures, hasIp, loaded, active, trial, services, server, nvs>>

ReconnectTryOver ==
    /\ Expired("RECONNECT_TRY")
    /\ DisconnectWifiStation /\ ReconnectAfter(OneMoreFailure)
    /\ UNCHANGED <<attempts, hasIp, loaded, active, trial, services, server, nvs, inputs>>

TrialOver ==
    /\ Expired("PORTAL_TRIAL") /\ FailTrial
    /\ UNCHANGED <<attempts, failures, hasIp, loaded, active, services, web, form, nvs, inputs>>

SuccessShown == Expired("PORTAL_SUCCESS") /\ LeaveProvisioning

RetryPortal == Expired("PORTAL_RETRY") /\ EnterProvisioning /\ UNCHANGED attempts

\* CheckMdnsHostname() may have a name to tell the identity.
LookAtServices ==
    /\ Expired("CONNECTED")
    /\ \/ ~(httpUp /\ mdns) /\ hasIp /\ StartStationServices
       \/ /\ ~(~(httpUp /\ mdns) /\ hasIp)
          /\ SetState("CONNECTED", 0)
          /\ identity' \in {identity} \cup (IF httpUp /\ mdns THEN {link.addr} ELSE {})
          /\ UNCHANGED <<httpUp, mdns, profile, inputs>>
    /\ UNCHANGED <<attempts, failures, hasIp, loaded, active, trial, ap, dns, server, link, nvs>>

HandleTimeout ==
    \/ BootWaitOver \/ AttemptOver \/ PauseOver \/ ReconnectWaitOver \/ ReconnectTryOver
    \/ TrialOver \/ SuccessShown \/ RetryPortal \/ LookAtServices

Orchestrate == HandleMessage \/ TimerExpires \/ HandleTimeout

-----------------------------------------------------------------------------
DriverReports == LinkUp \/ LinkFails \/ LinkLeft
Assigns == \E a \in Addresses : LinkAddress(a)

Next ==
    \/ Orchestrate \/ WebStep
    \/ DriverReports \/ Assigns \/ LinkLost
    \/ HandleButtonRequest \/ HandleUpdateGesture \/ PostTunerMessage
    \/ ScanBegin \/ \E c \in Creds : SubmitCheck(c)

Spec == Init /\ [][Next]_vars

\* The tasks run, the driver answers what it was told to do, and the network
\* gives an address to a station it let in.
Fairness ==
    /\ WF_vars(Orchestrate) /\ WF_vars(WebStep) /\ WF_vars(DriverReports)
    /\ WF_vars(link.addr = 0 /\ Assigns)

FairSpec == Spec /\ Fairness

-----------------------------------------------------------------------------
(* Properties.                                                             *)

\* SPEC-005 FR-6, FR-7, SPEC-002 FR-20: mDNS and the station profile never run
\* in provisioning mode, the portal, its DNS server and the open access point
\* never outside of it; the flags of StartStationServices() tell what runs.
ServicesFitState ==
    /\ httpUp <=> profile = "station"
    /\ state \in PortalStates => ~mdns /\ profile # "station"
    /\ state \notin PortalStates => profile # "portal" /\ ~ap /\ dns = "off"

\* EnterProvisioning(): "Never sit in provisioning mode with a dead portal".
PortalIsAlive ==
    state \in PortalStates \ {"PORTAL_RETRY"} => ap /\ dns = "on" /\ profile = "portal"

\* What InitCredentialStore() and LoadCredentials() make of the store at the next start.
NextLoad == IF nvs.pending # NoCreds THEN nvs.pending ELSE nvs.active

\* FR-18, FR-21: the network the device stays on, and returns to, is the one the
\* store will give the next start.
StationUsesStored == state \in StationStates => active = NextLoad /\ active \in Creds

\* FR-17: a pair gets into the store, as the active record or as one the next start may
\* promote, on the report of its own connection only, even if storing it then fails; a
\* connection report of another network never passes for it.
StoredDidConnect ==
    [][\A record \in {"active", "pending"} :
        nvs'[record] \notin {nvs[record], NoCreds} =>
            Head(queue).type = "connected" /\ Head(queue).of = nvs'[record]]_vars

\* FR-23: provisioning mode leaves the stored network alone; only the submitted
\* pair is tried, and only during its trial.
NoBackgroundRetry ==
    /\ state \in {"PORTAL_IDLE", "PORTAL_RETRY"} => link.phase \in {"off", "leaving"}
    /\ state \in {"PORTAL_TRIAL", "PORTAL_SUCCESS"} /\ link.phase \in {"trying", "up"}
            => link.target = trial

\* Once the queue is empty, the flags, the state and the identity of the origin
\* check (SPEC-005 FR-29) agree with the driver: no order of a late report and a
\* timeout leaves them behind.
ViewCatchesUp ==
    queue = <<>> /\ ~dropped /\ link.phase # "leaving" /\ state # "RESTARTED" =>
        /\ assoc <=> link.phase = "up"
        /\ hasIp <=> link.addr # 0
        /\ state = "CONNECTED" => link.phase = "up"
        /\ link.phase = "up" => state \in {"CONNECTED", "PORTAL_SUCCESS"}
        /\ httpUp /\ link.addr # 0 => identity = link.addr

\* FR-4 to FR-6, FR-21: once requests, losses and faults end, the device ends up
\* connected with its services, or in a working portal.
Settled ==
    \/ state = "CONNECTED" /\ link.phase = "up" /\ httpUp /\ mdns
    \/ state = "PORTAL_IDLE" \/ state = "RESTARTED"
Settles == <>[](Settled \/ dropped)

\* FR-16, FR-22: the page never shows "Connecting..." for good.
SubmissionIsAnswered ==
    status = "CONNECTING" /\ profile = "portal"
        ~> status # "CONNECTING" \/ profile # "portal" \/ dropped

\* http_portal.h of submit_credentials: "false if one is already running"; what
\* SubmitCredentials() accepted, the orchestrator tries.  The code does not keep
\* this: a second submission before the first is taken is accepted and ignored.
AcceptedIsTried ==
    [][Len(queue') < Len(queue) /\ Head(queue).type = "submitted" => trial' = Head(queue).of]_vars

\* FR-21: "the connection is later lost, the system shall reconnect automatically"
LossIsRepaired ==
    state = "CONNECTED" /\ link.phase = "off" ~> link.phase = "up" \/ state \notin StationStates
=============================================================================
