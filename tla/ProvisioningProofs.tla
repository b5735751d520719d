-------------------------- MODULE ProvisioningProofs --------------------------
(***************************************************************************)
(* Proofs about Provisioning for all pairs, addresses, lengths of the      *)
(* queue, boot attempts and numbers of inputs: services, stored network,   *)
(* trials and the orchestrator's view of the driver.                       *)
(***************************************************************************)
EXTENDS Provisioning, TLAPS

-----------------------------------------------------------------------------
(* The services.  They change in four ways only: the portal is entered or  *)
(* left, the station's services are completed, or everything stops.        *)

ServiceInv ==
    /\ state \in States
    /\ httpUp \in BOOLEAN /\ mdns \in BOOLEAN /\ ap \in BOOLEAN
    /\ profile \in {"none", "portal", "station"} /\ dns \in {"off", "on"}
    /\ ServicesFitState /\ PortalIsAlive

LEMMA ServiceInit == Init => ServiceInv
BY DEF Init, ServiceInv, ServicesFitState, PortalIsAlive, States, BootStates, PortalStates

\* EnterProvisioning() starts the whole portal or undoes what it started.
LEMMA EnterServices ==
  ASSUME SilentFaults = FALSE, ServiceInv, EnterProvisioning
  PROVE  ServiceInv'
<1>1. ~httpUp' /\ ~mdns' /\ httpUp' \in BOOLEAN /\ mdns' \in BOOLEAN
  BY DEF EnterProvisioning, StopStationServices
<1>2. CASE PortalStarts
  BY <1>1, <1>2 DEF PortalStarts, StartDnsServer, SetState, ServiceInv, ServicesFitState, PortalIsAlive,
     States, BootStates, StationStates, PortalStates
<1>3. CASE PortalStartFails
  BY <1>1, <1>3 DEF PortalStartFails, StopAccess, StopWifiAccessPoint, SetState, ServiceInv,
     ServicesFitState, PortalIsAlive, States, BootStates, StationStates, PortalStates
<1> QED BY <1>2, <1>3 DEF EnterProvisioning

\* StartStationServices() runs outside of the portal only.
LEMMA StationServices ==
  ASSUME ServiceInv, StartMissing, ap' = FALSE, dns' = "off"
  PROVE  ServiceInv'
<1>1. PICK isHttpUp \in HttpStarts, isMdnsUp \in MdnsStarts :
        /\ httpUp' = isHttpUp /\ mdns' = isMdnsUp
        /\ profile' = IF isHttpUp THEN "station" ELSE "none"
        /\ state' = "CONNECTED"
  BY DEF StartMissing, SetState
<1>2. isHttpUp \in BOOLEAN /\ isMdnsUp \in BOOLEAN
  BY DEF HttpStarts, MdnsStarts, ServiceInv
<1>3. /\ profile' \in {"none", "station"}
      /\ httpUp' <=> profile' = "station"
  BY <1>1, <1>2
<1>4. state' \in States /\ state' \notin PortalStates
  BY <1>1 DEF States, StationStates, PortalStates
<1> QED BY <1>1, <1>2, <1>3, <1>4 DEF ServiceInv, ServicesFitState, PortalIsAlive

\* Steps that leave the services alone do not enter or leave the portal.
LEMMA SameServices ==
  ASSUME ServiceInv, UNCHANGED services, state' \in States,
         state \in PortalStates <=> state' \in PortalStates,
         state' = "PORTAL_RETRY" <=> state = "PORTAL_RETRY"
  PROVE  ServiceInv'
BY DEF services, ServiceInv, ServicesFitState, PortalIsAlive

LEMMA ServiceNext ==
  ASSUME SilentFaults = FALSE, ServiceInv, [Next]_vars
  PROVE  ServiceInv'
<1>1. CASE \/ UNCHANGED vars \/ WebStep \/ DriverReports \/ Assigns \/ LinkLost \/ HandleButtonRequest
           \/ HandleUpdateGesture \/ PostTunerMessage \/ ScanBegin \/ (\E c \in Creds : SubmitCheck(c))
           \/ OnTuner \/ TimerExpires
  <2>1. UNCHANGED <<state, services>>
    BY <1>1 DEF vars, machine, WebStep, ScanEnd, SubmitPost, SubmitStatus, DriverReports, LinkUp,
       LinkFails, LinkLeft, Driver, Assigns, LinkAddress, LinkLost, HandleButtonRequest,
       HandleUpdateGesture, PostTunerMessage, Request, ScanBegin, SubmitCheck, OnTuner, TimerExpires
  <2> QED BY <2>1, SameServices DEF ServiceInv
<1>2. CASE OnConnected \/ OnDisconnected \/ OnSubmitted \/ PauseOver \/ ReconnectWaitOver
           \/ ReconnectTryOver \/ TrialOver
  <2>1. UNCHANGED services
    BY <1>2 DEF OnConnected, OnDisconnected, OnSubmitted, PauseOver, StartBootAttempt,
       ReconnectWaitOver, ReconnectTryOver, TrialOver
  <2>2. /\ state' \in States /\ (state \in PortalStates <=> state' \in PortalStates)
        /\ state' = "PORTAL_RETRY" <=> state = "PORTAL_RETRY"
    BY <1>2 DEF ServiceInv, OnConnected, ExpectsConnection, StoreTrial, FailTrial, OnDisconnected,
       ReconnectAfter, OnSubmitted, PauseOver, StartBootAttempt, ReconnectWaitOver, ReconnectTryOver,
       TrialOver, Expired, SetState, States, BootStates, StationStates, PortalStates
  <2> QED BY <2>1, <2>2, SameServices
<1>3. CASE OnButton \/ BootWaitOver \/ AttemptOver \/ RetryPortal
  <2>1. CASE EnterProvisioning
    BY <2>1, EnterServices
  <2>2. CASE UNCHANGED services /\ state' \in {state, "STA_ATTEMPT", "STA_PAUSE"}
             /\ (state' = state \/ state \in BootStates)
    BY <2>2, SameServices DEF ServiceInv, States, BootStates, StationStates, PortalStates
  <2> QED BY <1>3, <2>1, <2>2 DEF OnButton, BootWaitOver, AttemptOver, RetryPortal, Expired,
       StartBootAttempt, SetState, BootStates
<1>4. CASE SuccessShown
  <2>1. state = "PORTAL_SUCCESS" /\ LeaveProvisioning /\ ap' = FALSE /\ dns' = "off"
    BY <1>4 DEF SuccessShown, Expired, LeaveProvisioning, StopAccess, StopWifiAccessPoint
  <2>2. CASE StartStationServices
    BY <2>1, <2>2, StationServices DEF StartStationServices
  <2>3. CASE profile' = "none" /\ UNCHANGED <<httpUp, mdns>>
             /\ (state' = "CONNECTED" \/ state' = "RECONNECT_WAIT")
    BY <2>1, <2>3 DEF ServiceInv, ServicesFitState, PortalIsAlive, States, BootStates, StationStates,
       PortalStates
  <2> QED BY <2>1, <2>2, <2>3 DEF LeaveProvisioning, SetState
<1>5. CASE OnGotIp \/ LookAtServices
  <2>1. UNCHANGED <<ap, dns>>
    BY <1>5 DEF OnGotIp, LookAtServices
  <2>2. CASE UNCHANGED <<state, services>>
    BY <2>2, SameServices DEF ServiceInv
  <2>3. CASE state = "CONNECTED" /\ StartMissing
    <3>1. ap' = FALSE /\ dns' = "off"
      BY <2>1, <2>3 DEF ServiceInv, ServicesFitState, PortalStates
    <3> QED BY <2>3, <3>1, StationServices
  <2>4. CASE state = "CONNECTED" /\ state' = "CONNECTED" /\ UNCHANGED <<httpUp, mdns, profile>>
    BY <2>1, <2>4 DEF ServiceInv, ServicesFitState, PortalIsAlive
  <2> QED BY <1>5, <2>1, <2>2, <2>3, <2>4 DEF OnGotIp, LookAtServices, StartStationServices, Expired,
       SetState, services
<1>6. CASE OnUpdate
  <2>1. CASE UNCHANGED <<state, services>>
    BY <2>1, SameServices DEF ServiceInv
  <2>2. CASE StopStationServices /\ StopAccess /\ profile' = "none" /\ state' = "RESTARTED"
    BY <2>2 DEF StopStationServices, StopAccess, StopWifiAccessPoint, ServiceInv, ServicesFitState,
       PortalIsAlive, States, BootStates, StationStates, PortalStates
  <2> QED BY <1>6, <2>1, <2>2 DEF OnUpdate, SetState
<1> QED BY <1>1, <1>2, <1>3, <1>4, <1>5, <1>6 DEF Next, Orchestrate, HandleMessage, HandleTimeout

\* ServiceInv holds forever without silent failures.
LEMMA Services == ASSUME SilentFaults = FALSE PROVE Spec => []ServiceInv
<1>1. ServiceInv /\ [Next]_vars => ServiceInv'
  BY ServiceNext
<1> QED BY <1>1, ServiceInit, PTL DEF Spec

\* The portal and the station's services never run together and always fit the
\* state, unless a service fails in a way the code is not told of.
THEOREM ServicesSafety == ASSUME SilentFaults = FALSE PROVE Spec => []ServicesFitState
<1>1. ServiceInv => ServicesFitState
  BY DEF ServiceInv
<1> QED BY <1>1, Services, PTL

\* In provisioning mode there is a whole portal, or a timer that will retry it.
THEOREM PortalSafety == ASSUME SilentFaults = FALSE PROVE Spec => []PortalIsAlive
<1>1. ServiceInv => PortalIsAlive
  BY DEF ServiceInv
<1> QED BY <1>1, Services, PTL

-----------------------------------------------------------------------------
(* The networks.  A submission in the queue or in the hands of the server  *)
(* keeps the portal as it is; a report of a connection is the one of the   *)
(* trial, since nothing else connects in provisioning mode.                *)

TypeInv ==
    /\ state \in States /\ fired \in BOOLEAN
    /\ loaded \in MaybeCreds /\ active \in MaybeCreds /\ trial \in MaybeCreds
    /\ nvs \in Store /\ form \in MaybeCreds
    /\ link \in Link /\ queue \in Seq(Message)
    /\ web \in {"idle", "scan", "post", "status"}

At(messages, type) == {i \in 1..Len(messages) : messages[i].type = type}

\* Every submission carries a pair; each report came before every submission;
\* there is at most one report, and it is of a pair.
Carried(q) == \A i \in At(q, "submitted") : q[i].of \in Creds
Ordered(q) == \A i \in At(q, "submitted"), j \in At(q, "connected") : j < i
Lone(q, pair) == \A i, j \in At(q, "connected") : i = j /\ q[i].of = pair

\* What a pair that is about to be tried or stored is.
PairInv ==
    /\ state \in BootStates => loaded = NextLoad
    /\ state \in {"STA_ATTEMPT", "STA_PAUSE"} => loaded \in Creds
    /\ state \in StationStates \cup {"PORTAL_SUCCESS"} => active = NextLoad /\ active \in Creds
    /\ state = "PORTAL_TRIAL" => trial \in Creds
    /\ web = "post" => form \in Creds
    /\ Carried(queue)

\* Where a submission can be.
SubmissionInv ==
    /\ state = "PORTAL_IDLE" => timer = 0 /\ ~fired
    /\ fired => At(queue, "submitted") = {} /\ web # "post"
    /\ At(queue, "submitted") # {} \/ web = "post"
            => state \in {"PORTAL_IDLE", "PORTAL_TRIAL", "PORTAL_SUCCESS", "RESTARTED"}

\* Where a report of a connection can be.
ReportInv ==
    /\ state = "PORTAL_IDLE" => Ordered(queue)
    /\ state = "PORTAL_TRIAL" =>
           /\ Lone(queue, trial)
           /\ At(queue, "connected") # {} => link.phase # "trying"

NetworkInv == TypeInv /\ NoBackgroundRetry /\ PairInv /\ SubmissionInv /\ ReportInv

\* What taking the first message leaves.
LEMMA TakeFacts ==
  ASSUME NEW q \in Seq(Message), q # <<>>
  PROVE  /\ Tail(q) \in Seq(Message) /\ Head(q) \in Message
         /\ Carried(q) => Carried(Tail(q))
         /\ Ordered(q) => Ordered(Tail(q))
         /\ \A pair : Lone(q, pair) => Lone(Tail(q), pair)
         /\ \A t : At(q, t) = {} => At(Tail(q), t) = {}
         /\ Head(q).type = "submitted" /\ Carried(q) => Head(q).of \in Creds
         /\ Head(q).type = "submitted" /\ Ordered(q) => At(Tail(q), "connected") = {}
         /\ \A pair : Head(q).type = "connected" /\ Lone(q, pair) =>
                At(Tail(q), "connected") = {} /\ Head(q).of = pair
<1>1. /\ Tail(q) \in Seq(Message) /\ Head(q) = q[1] /\ Head(q) \in Message
      /\ Len(q) \in Nat \ {0} /\ Len(Tail(q)) = Len(q) - 1
      /\ \A i \in 1..Len(q) - 1 : Tail(q)[i] = q[i + 1]
  OBVIOUS
<1>2. \A t : 1 \in At(q, t) <=> Head(q).type = t
  BY <1>1 DEF At
<1>3. \A t : \A i \in At(Tail(q), t) : i \in Nat \ {0} /\ i + 1 \in At(q, t) /\ Tail(q)[i] = q[i + 1]
  BY <1>1 DEF At
<1>4. \A t : \A i \in At(q, t) : i \in Nat
  BY DEF At
<1>5. Carried(q) => Carried(Tail(q))
  BY <1>3 DEF Carried
<1>6. Ordered(q) => Ordered(Tail(q))
  BY <1>3 DEF Ordered
<1>7. \A pair : Lone(q, pair) => Lone(Tail(q), pair)
  <2> SUFFICES ASSUME NEW pair, Lone(q, pair),
                      NEW i \in At(Tail(q), "connected"), NEW j \in At(Tail(q), "connected")
               PROVE  i = j /\ Tail(q)[i].of = pair
    BY DEF Lone
  <2>1. /\ i \in Nat /\ i + 1 \in At(q, "connected") /\ Tail(q)[i] = q[i + 1]
        /\ j \in Nat /\ j + 1 \in At(q, "connected")
    BY <1>3
  <2>2. i + 1 = j + 1 /\ q[i + 1].of = pair
    BY <2>1 DEF Lone
  <2>3. i = j
    BY <2>1, <2>2
  <2>4. Tail(q)[i].of = pair
    BY <2>1, <2>2
  <2> QED BY <2>3, <2>4
<1>8. \A t : At(q, t) = {} => At(Tail(q), t) = {}
  BY <1>3
<1>9. Head(q).type = "submitted" /\ Carried(q) => Head(q).of \in Creds
  BY <1>1, <1>2 DEF Carried
<1>10. Head(q).type = "submitted" /\ Ordered(q) => At(Tail(q), "connected") = {}
  BY <1>2, <1>3 DEF Ordered
<1>11. \A pair : Head(q).type = "connected" /\ Lone(q, pair) =>
          At(Tail(q), "connected") = {} /\ Head(q).of = pair
  BY <1>1, <1>2, <1>3 DEF Lone
<1> QED BY <1>1, <1>5, <1>6, <1>7, <1>8, <1>9, <1>10, <1>11

\* What a message more changes.
LEMMA PostFacts ==
  ASSUME NEW q \in Seq(Message), NEW m \in Message
  PROVE  /\ Append(q, m) \in Seq(Message)
         /\ Carried(q) /\ (m.type = "submitted" => m.of \in Creds) => Carried(Append(q, m))
         /\ Ordered(q) /\ m.type # "connected" => Ordered(Append(q, m))
         /\ \A pair : Lone(q, pair) /\ m.type # "connected" => Lone(Append(q, m), pair)
         /\ At(q, "connected") = {} /\ m.type = "connected" => Lone(Append(q, m), m.of)
         /\ \A t : At(q, t) = {} /\ m.type # t => At(Append(q, m), t) = {}
<1>1. /\ Append(q, m) \in Seq(Message) /\ Len(q) \in Nat /\ Len(Append(q, m)) = Len(q) + 1
      /\ \A i \in 1..Len(q) : Append(q, m)[i] = q[i]
      /\ Append(q, m)[Len(q) + 1] = m
  OBVIOUS
<1>2. \A t : \A i \in At(Append(q, m), t) :
         \/ i \in At(q, t) /\ i \in Nat /\ i <= Len(q) /\ Append(q, m)[i] = q[i]
         \/ i = Len(q) + 1 /\ m.type = t /\ Append(q, m)[i] = m
  BY <1>1 DEF At
<1>3. \A t : \A i \in At(q, t) : i \in Nat /\ i <= Len(q)
  BY <1>1 DEF At
<1>4. Carried(q) /\ (m.type = "submitted" => m.of \in Creds) => Carried(Append(q, m))
  BY <1>2 DEF Carried
<1>5. Ordered(q) /\ m.type # "connected" => Ordered(Append(q, m))
  BY <1>1, <1>2, <1>3 DEF Ordered
<1>6. \A pair : Lone(q, pair) /\ m.type # "connected" => Lone(Append(q, m), pair)
  BY <1>2 DEF Lone
<1>7. At(q, "connected") = {} /\ m.type = "connected" => Lone(Append(q, m), m.of)
  BY <1>2 DEF Lone
<1>8. \A t : At(q, t) = {} /\ m.type # t => At(Append(q, m), t) = {}
  BY <1>2
<1> QED BY <1>1, <1>4, <1>5, <1>6, <1>7, <1>8

LEMMA NetworkInit == Init => NetworkInv
<1> SUFFICES ASSUME Init PROVE NetworkInv
  OBVIOUS
<1>1. \A t : At(queue, t) = {}
  BY DEF Init, At
<1>2. queue \in Seq(Message)
  BY DEF Init
<1>3. link \in Link
  BY DEF Init, Link, MaybeCreds
<1>4. TypeInv
  BY <1>2, <1>3 DEF Init, Store, TypeInv, States, BootStates, MaybeCreds
<1>5. PairInv
  BY <1>1 DEF Init, PairInv, NextLoad, Carried, StationStates
<1>6. SubmissionInv
  BY <1>1 DEF Init, SubmissionInv
<1> QED BY <1>4, <1>5, <1>6 DEF Init, NetworkInv, NoBackgroundRetry, ReportInv

\* Messages that are neither submissions nor reports of a connection.
LEMMA QuietPost ==
  ASSUME NetworkInv, NEW type \in MessageTypes \ {"submitted", "connected"}, NEW of \in MaybeCreds,
         Post(type, of), UNCHANGED <<machine, station, server, nvs>>,
         link' \in Link, link'.phase \in {"off", link.phase}, link'.target = link.target
  PROVE  NetworkInv'
<1> DEFINE m == [type |-> type, of |-> of]
<1>1. m \in Message /\ m.type \notin {"submitted", "connected"}
  BY DEF Message
<1>2. queue \in Seq(Message)
  BY DEF NetworkInv, TypeInv
<1>3. queue' = queue \/ queue' = Append(queue, m)
  BY DEF Post
<1>4. /\ queue' \in Seq(Message)
      /\ Carried(queue) => Carried(queue')
      /\ Ordered(queue) => Ordered(queue')
      /\ \A pair : Lone(queue, pair) => Lone(queue', pair)
      /\ \A t \in {"submitted", "connected"} : At(queue, t) = {} => At(queue', t) = {}
  BY <1>1, <1>2, <1>3, PostFacts
<1>5. UNCHANGED <<state, timer, fired, loaded, active, trial, web, form, nvs>>
  BY DEF machine, station, server
<1>6. TypeInv'
  BY <1>4, <1>5 DEF NetworkInv, TypeInv
<1>7. NoBackgroundRetry'
  BY <1>5 DEF NetworkInv, NoBackgroundRetry
<1>8. PairInv'
  BY <1>4, <1>5 DEF NetworkInv, PairInv, NextLoad
<1>9. SubmissionInv'
  BY <1>4, <1>5 DEF NetworkInv, SubmissionInv
<1>10. ReportInv'
  BY <1>4, <1>5 DEF NetworkInv, ReportInv
<1> QED BY <1>6, <1>7, <1>8, <1>9, <1>10 DEF NetworkInv

\* A report of a connection during a trial is the first one, and of the trial.
LEMMA ReportPost ==
  ASSUME NetworkInv, LinkUp
  PROVE  NetworkInv'
<1> DEFINE m == [type |-> "connected", of |-> link.target]
<1>1. /\ link \in Link /\ queue \in Seq(Message) /\ link.phase = "trying"
      /\ link' = [link EXCEPT !.phase = "up", !.addr = 0] /\ (queue' = queue \/ queue' = Append(queue, m))
      /\ UNCHANGED <<state, timer, fired, loaded, active, trial, web, form, nvs>>
  BY DEF LinkUp, Driver, Post, machine, station, server, NetworkInv, TypeInv
<1>2. m \in Message /\ m.type = "connected" /\ m.of = link.target
  BY <1>1 DEF Message, MessageTypes, Link
<1>3. /\ queue' \in Seq(Message)
      /\ Carried(queue) => Carried(queue')
      /\ At(queue, "connected") = {} => Lone(queue', link.target) \/ queue' = queue
      /\ At(queue, "submitted") = {} => At(queue', "submitted") = {}
  BY <1>1, <1>2, PostFacts
<1>4. link' \in Link /\ link'.phase = "up" /\ link'.target = link.target
  BY <1>1 DEF Link
<1>5. state # "PORTAL_IDLE" /\ (state = "PORTAL_TRIAL" => link.target = trial)
  BY <1>1 DEF NetworkInv, NoBackgroundRetry
<1>6. TypeInv'
  BY <1>1, <1>3, <1>4 DEF NetworkInv, TypeInv
<1>7. NoBackgroundRetry'
  BY <1>1, <1>4 DEF NetworkInv, NoBackgroundRetry
<1>8. PairInv'
  BY <1>1, <1>3 DEF NetworkInv, PairInv, NextLoad
<1>9. SubmissionInv'
  BY <1>1, <1>3 DEF NetworkInv, SubmissionInv
<1>10. ReportInv'
  BY <1>1, <1>3, <1>4, <1>5 DEF NetworkInv, ReportInv
<1> QED BY <1>6, <1>7, <1>8, <1>9, <1>10 DEF NetworkInv

\* A submission is posted while the portal waits for it or tries another.
LEMMA SubmissionPost ==
  ASSUME NetworkInv, SubmitPost
  PROVE  NetworkInv'
<1> DEFINE m == [type |-> "submitted", of |-> form]
<1>1. /\ queue \in Seq(Message) /\ form \in Creds /\ web = "post" /\ web' = "status"
      /\ form' = NoCreds /\ (queue' = queue \/ queue' = Append(queue, m))
      /\ UNCHANGED <<state, timer, fired, loaded, active, trial, link, nvs>>
  BY DEF SubmitPost, Post, machine, station, driver, NetworkInv, TypeInv, PairInv
<1>2. m \in Message /\ m.type = "submitted" /\ m.of \in Creds
  BY <1>1 DEF Message, MessageTypes, MaybeCreds
<1>3. /\ queue' \in Seq(Message)
      /\ Carried(queue) => Carried(queue')
      /\ Ordered(queue) => Ordered(queue')
      /\ \A pair : Lone(queue, pair) => Lone(queue', pair)
      /\ At(queue, "connected") = {} => At(queue', "connected") = {}
  BY <1>1, <1>2, PostFacts
<1>4. TypeInv'
  BY <1>1, <1>3 DEF NetworkInv, TypeInv, MaybeCreds
<1>5. NoBackgroundRetry'
  BY <1>1 DEF NetworkInv, NoBackgroundRetry
<1>6. PairInv'
  BY <1>1, <1>3 DEF NetworkInv, PairInv, NextLoad
<1>7. SubmissionInv'
  BY <1>1 DEF NetworkInv, SubmissionInv
<1>8. ReportInv'
  BY <1>1, <1>3 DEF NetworkInv, ReportInv
<1> QED BY <1>4, <1>5, <1>6, <1>7, <1>8 DEF NetworkInv

\* SubmitCredentials() accepts a pair in one state only.
LEMMA SubmissionCheck ==
  ASSUME NetworkInv, NEW c \in Creds, SubmitCheck(c)
  PROVE  NetworkInv'
<1>1. /\ state = "PORTAL_IDLE" /\ web' = "post" /\ form' = c
      /\ UNCHANGED <<state, timer, fired, loaded, active, trial, link, nvs, queue>>
  BY DEF SubmitCheck, machine, station, mailbox
<1> QED BY <1>1 DEF NetworkInv, TypeInv, MaybeCreds, NoBackgroundRetry, PairInv, NextLoad, SubmissionInv, ReportInv

\* The orchestrator's own steps either take the first message or follow a timer.
Consumes == queue' = queue \/ (queue # <<>> /\ queue' = Tail(queue))

LEMMA ConsumeFacts ==
  ASSUME TypeInv, Consumes
  PROVE  /\ queue' \in Seq(Message)
         /\ Carried(queue) => Carried(queue')
         /\ Ordered(queue) => Ordered(queue')
         /\ \A pair : Lone(queue, pair) => Lone(queue', pair)
         /\ \A t : At(queue, t) = {} => At(queue', t) = {}
BY TakeFacts DEF TypeInv, Consumes

\* What leaves the state, the pairs and the driver alone.
LEMMA SameState ==
  ASSUME NetworkInv, Consumes, UNCHANGED <<state, timer, fired, loaded, active, trial, link, nvs, form>>,
         web' \in {web, "scan", "idle"}
  PROVE  NetworkInv'
<1>1. /\ queue' \in Seq(Message)
      /\ Carried(queue) => Carried(queue')
      /\ Ordered(queue) => Ordered(queue')
      /\ Lone(queue, trial) => Lone(queue', trial)
      /\ At(queue, "submitted") = {} => At(queue', "submitted") = {}
      /\ At(queue, "connected") = {} => At(queue', "connected") = {}
  BY ConsumeFacts DEF NetworkInv
<1>2. TypeInv'
  BY <1>1 DEF NetworkInv, TypeInv
<1>3. NoBackgroundRetry'
  BY DEF NetworkInv, NoBackgroundRetry
<1>4. PairInv'
  BY <1>1 DEF NetworkInv, PairInv, NextLoad
<1>5. SubmissionInv'
  BY <1>1 DEF NetworkInv, SubmissionInv
<1>6. ReportInv'
  BY <1>1 DEF NetworkInv, ReportInv
<1> QED BY <1>2, <1>3, <1>4, <1>5, <1>6 DEF NetworkInv

\* Steps to a state outside of the portal, with no submission under way.
LEMMA OutsideStep ==
  ASSUME NetworkInv, Consumes, At(queue, "submitted") = {}, web # "post",
         state' \in States \ PortalStates, fired' \in BOOLEAN, link' \in Link,
         UNCHANGED <<loaded, nvs, web, form>>, trial' \in MaybeCreds, active' \in MaybeCreds,
         state' \in BootStates => state \in BootStates,
         state' \in {"STA_ATTEMPT", "STA_PAUSE"} => loaded \in Creds,
         state' \in StationStates => active' = NextLoad /\ active' \in Creds
  PROVE  NetworkInv'
<1>1. queue' \in Seq(Message) /\ Carried(queue') /\ At(queue', "submitted") = {}
  BY ConsumeFacts DEF NetworkInv, PairInv
<1>2. state' \notin {"PORTAL_IDLE", "PORTAL_TRIAL", "PORTAL_SUCCESS", "PORTAL_RETRY"}
  BY DEF PortalStates
<1>3. TypeInv'
  BY <1>1 DEF NetworkInv, TypeInv
<1>4. NoBackgroundRetry'
  BY <1>2 DEF NoBackgroundRetry
<1>5. PairInv'
  BY <1>1, <1>2 DEF NetworkInv, PairInv, NextLoad
<1>6. SubmissionInv'
  BY <1>1, <1>2 DEF SubmissionInv
<1>7. ReportInv'
  BY <1>2 DEF ReportInv
<1> QED BY <1>3, <1>4, <1>5, <1>6, <1>7 DEF NetworkInv

\* After DisconnectWifiStation() nothing connects.
LEMMA Disconnected ==
  ASSUME link \in Link, DisconnectWifiStation
  PROVE  link' \in Link /\ link'.phase \in {"off", "leaving"} /\ link'.target = link.target
BY DEF DisconnectWifiStation, Link

\* Entering the portal, with no submission under way.
LEMMA EnterNetwork ==
  ASSUME NetworkInv, Consumes, At(queue, "submitted") = {}, EnterProvisioning, fired' = FALSE
  PROVE  NetworkInv'
<1>1. /\ (state' = "PORTAL_IDLE" /\ timer' = 0) \/ state' = "PORTAL_RETRY"
      /\ UNCHANGED <<loaded, active, trial, web, form, nvs>> /\ web = "idle"
  BY DEF EnterProvisioning, PortalStarts, PortalStartFails, SetState, StopStationServices, ServerStops
<1>2. link' \in Link /\ link'.phase \in {"off", "leaving"}
  BY Disconnected DEF EnterProvisioning, NetworkInv, TypeInv
<1>3. queue' \in Seq(Message) /\ Carried(queue') /\ At(queue', "submitted") = {}
  BY ConsumeFacts DEF NetworkInv, PairInv
<1>4. TypeInv'
  BY <1>1, <1>2, <1>3 DEF NetworkInv, TypeInv, States, PortalStates
<1>5. NoBackgroundRetry'
  BY <1>1, <1>2 DEF NoBackgroundRetry
<1>6. PairInv'
  BY <1>1, <1>3 DEF PairInv, BootStates, StationStates
<1>7. SubmissionInv'
  BY <1>1, <1>3 DEF SubmissionInv
<1>8. ReportInv'
  BY <1>1, <1>3 DEF ReportInv, Ordered
<1> QED BY <1>4, <1>5, <1>6, <1>7, <1>8 DEF NetworkInv

\* What ReplaceCredentials() leaves in the store, whether it succeeds or fails.
LEMMA ReplacedFacts ==
  ASSUME nvs \in Store, NEW c \in MaybeCreds
  PROVE  /\ Replaced(c) => nvs' \in Store
         /\ Replaced(c) /\ c \in Creds => NextLoad' = c
         /\ ReplaceFailed(c) => nvs' \in Store
         /\ Replaced(c) \/ ReplaceFailed(c) =>
                \A record \in {"active", "pending"} : nvs'[record] \in {nvs[record], c, NoCreds}
<1>1. NoCreds \in MaybeCreds
  BY DEF MaybeCreds
<1>2. Replaced(c) => /\ nvs' \in Store
                     /\ \A record \in {"active", "pending"} : nvs'[record] \in {nvs[record], c, NoCreds}
  BY <1>1 DEF Replaced, Store
<1>3. Replaced(c) /\ c \in Creds => NextLoad' = c
  BY ProvisioningAssumption DEF Replaced, NextLoad
<1>4. ReplaceFailed(c) => /\ nvs' \in Store
                          /\ \A record \in {"active", "pending"} : nvs'[record] \in {nvs[record], c, NoCreds}
  BY <1>1 DEF ReplaceFailed, Store
<1> QED BY <1>2, <1>3, <1>4

\* FailTrial(): only a report that arrived after the timer may be behind, and no
\* submission is.
LEMMA FailNetwork ==
  ASSUME NetworkInv, Consumes, state = "PORTAL_TRIAL", FailTrial, fired' = FALSE,
         Ordered(queue'), nvs' \in Store, UNCHANGED <<loaded, active, web, form>>
  PROVE  NetworkInv'
<1>1. state' = "PORTAL_IDLE" /\ timer' = 0 /\ trial' = NoCreds
  BY DEF FailTrial, SetState
<1>2. link' \in Link /\ link'.phase \in {"off", "leaving"}
  BY Disconnected DEF FailTrial, NetworkInv, TypeInv
<1>3. queue' \in Seq(Message) /\ Carried(queue')
  BY ConsumeFacts DEF NetworkInv, PairInv
<1>4. TypeInv'
  BY <1>1, <1>2, <1>3 DEF NetworkInv, TypeInv, States, PortalStates, MaybeCreds
<1>5. NoBackgroundRetry'
  BY <1>1, <1>2 DEF NoBackgroundRetry
<1>6. PairInv'
  BY <1>1, <1>3 DEF NetworkInv, PairInv, BootStates, StationStates
<1>7. SubmissionInv'
  BY <1>1 DEF SubmissionInv
<1>8. ReportInv'
  BY <1>1 DEF ReportInv
<1> QED BY <1>4, <1>5, <1>6, <1>7, <1>8 DEF NetworkInv

\* A trial starts with no report behind its submission.
LEMMA TrialStarts ==
  ASSUME NetworkInv, OnSubmitted
  PROVE  NetworkInv'
<1>1. CASE state # "PORTAL_IDLE"
  <2>1. /\ Consumes /\ web' = web
        /\ UNCHANGED <<state, timer, fired, loaded, active, trial, link, nvs, form>>
    BY <1>1 DEF OnSubmitted, Take, Consumes, server
  <2> QED BY <2>1, SameState
<1>2. CASE state = "PORTAL_IDLE"
  <2> DEFINE c == Head(queue).of
  <2>1. /\ Consumes /\ queue # <<>> /\ Head(queue).type = "submitted" /\ queue' = Tail(queue)
        /\ ~fired /\ fired' = fired
        /\ trial' = c /\ state' = "PORTAL_TRIAL" /\ ConnectWifiStation(c)
        /\ UNCHANGED <<loaded, active, nvs, web, form>>
    BY <1>2 DEF OnSubmitted, Take, Consumes, server, SetState
  <2>2. c \in Creds /\ At(queue', "connected") = {} /\ Carried(queue') /\ queue' \in Seq(Message)
    BY <1>2, <2>1, TakeFacts DEF NetworkInv, TypeInv, PairInv, ReportInv
  <2>3. link' \in Link /\ (link'.phase \in {"trying", "up"} => link'.target = c)
    <3>1. link \in Link /\ link.phase \in {"off", "leaving"}
      BY <1>2 DEF NetworkInv, TypeInv, NoBackgroundRetry
    <3>2. link' = link \/ link' = [phase |-> "trying", target |-> c, addr |-> 0]
      BY <2>1 DEF ConnectWifiStation
    <3>3. [phase |-> "trying", target |-> c, addr |-> 0] \in Link
      BY <2>2 DEF Link, MaybeCreds
    <3> QED BY <3>1, <3>2, <3>3
  <2>4. TypeInv'
    BY <2>1, <2>2, <2>3 DEF NetworkInv, TypeInv, States, PortalStates, MaybeCreds
  <2>5. NoBackgroundRetry'
    BY <2>1, <2>3 DEF NoBackgroundRetry
  <2>6. PairInv'
    BY <2>1, <2>2 DEF NetworkInv, PairInv, BootStates, StationStates
  <2>7. SubmissionInv'
    BY <2>1 DEF SubmissionInv
  <2>8. ReportInv'
    BY <2>1, <2>2 DEF ReportInv, Lone
  <2> QED BY <2>4, <2>5, <2>6, <2>7, <2>8 DEF NetworkInv
<1> QED BY <1>1, <1>2

\* HandleStationConnected()
LEMMA ConnectedStep ==
  ASSUME NetworkInv, OnConnected
  PROVE  NetworkInv'
<1>1. /\ Consumes /\ queue # <<>> /\ Head(queue).type = "connected" /\ queue' = Tail(queue)
      /\ ~fired /\ fired' = fired /\ state # "RESTARTED"
      /\ UNCHANGED <<loaded, web, form>>
  BY DEF OnConnected, Take, Consumes
<1>2. CASE /\ state \in ExpectsConnection /\ state' = "CONNECTED" /\ UNCHANGED <<trial, link, nvs>>
           /\ active' = IF state = "STA_ATTEMPT" THEN loaded ELSE active
  <2>1. At(queue, "submitted") = {} /\ web # "post"
    BY <1>2 DEF NetworkInv, SubmissionInv, ExpectsConnection
  <2>2. active' = NextLoad /\ active' \in Creds /\ active' \in MaybeCreds
    BY <1>2 DEF NetworkInv, TypeInv, PairInv, ExpectsConnection, BootStates, StationStates, MaybeCreds
  <2> QED BY <1>1, <1>2, <2>1, <2>2, OutsideStep DEF NetworkInv, TypeInv, States, StationStates,
       BootStates, PortalStates
<1>3. CASE state = "PORTAL_TRIAL" /\ StoreTrial /\ UNCHANGED <<trial, link>>
  <2>1. /\ Replaced(trial) /\ active' = trial /\ state' = "PORTAL_SUCCESS" /\ trial \in Creds
        /\ link \in Link
    BY <1>3 DEF StoreTrial, SetState, NetworkInv, PairInv, TypeInv
  <2> nvs' \in Store /\ NextLoad' = trial
    BY <2>1, ReplacedFacts DEF NetworkInv, TypeInv
  <2>2. queue' \in Seq(Message) /\ Carried(queue')
    BY <1>1, ConsumeFacts DEF NetworkInv, PairInv
  <2>3. TypeInv'
    BY <1>1, <1>3, <2>1, <2>2 DEF NetworkInv, TypeInv, States, PortalStates, MaybeCreds
  <2>4. NoBackgroundRetry'
    BY <1>3, <2>1 DEF NetworkInv, NoBackgroundRetry
  <2>5. PairInv'
    BY <1>1, <2>1, <2>2 DEF NetworkInv, PairInv, BootStates, StationStates
  <2>6. SubmissionInv'
    BY <1>1, <2>1 DEF SubmissionInv
  <2>7. ReportInv'
    BY <2>1 DEF ReportInv
  <2> QED BY <2>3, <2>4, <2>5, <2>6, <2>7 DEF NetworkInv
<1>4. CASE state = "PORTAL_TRIAL" /\ ReplaceFailed(trial) /\ FailTrial /\ UNCHANGED active
  <2>1. At(queue', "connected") = {}
    BY <1>1, <1>4, TakeFacts DEF NetworkInv, TypeInv, ReportInv
  <2>2. Ordered(queue')
    BY <2>1 DEF Ordered
  <2>3. fired' = FALSE
    BY <1>1 DEF NetworkInv, TypeInv
  <2>4. nvs' \in Store
    BY <1>4, ReplacedFacts DEF NetworkInv, TypeInv
  <2> QED BY <1>1, <1>4, <2>2, <2>3, <2>4, FailNetwork
<1>5. CASE UNCHANGED <<state, timer, active, trial, link, nvs>>
  BY <1>1, <1>5, SameState
<1> QED BY <1>2, <1>3, <1>4, <1>5 DEF OnConnected, SetState, driver

\* The update request stops everything, wherever the submission is.
LEMMA UpdateStep ==
  ASSUME NetworkInv, OnUpdate
  PROVE  NetworkInv'
<1>1. Consumes /\ UNCHANGED <<fired, loaded, active, trial, nvs, web, form>> /\ ~fired
  BY DEF OnUpdate, Take, Consumes, station, server
<1>2. CASE UNCHANGED <<state, timer, link>>
  BY <1>1, <1>2, SameState
<1>3. CASE state' = "RESTARTED" /\ DisconnectWifiStation
  <2>1. link' \in Link
    BY <1>3, Disconnected DEF NetworkInv, TypeInv
  <2>2. queue' \in Seq(Message) /\ Carried(queue')
    BY <1>1, ConsumeFacts DEF NetworkInv, PairInv
  <2>3. TypeInv'
    BY <1>1, <1>3, <2>1, <2>2 DEF NetworkInv, TypeInv, States
  <2>4. NoBackgroundRetry'
    BY <1>3 DEF NoBackgroundRetry
  <2>5. PairInv'
    BY <1>1, <1>3, <2>2 DEF NetworkInv, PairInv, BootStates, StationStates
  <2>6. SubmissionInv'
    BY <1>1, <1>3 DEF SubmissionInv
  <2>7. ReportInv'
    BY <1>3 DEF ReportInv
  <2> QED BY <2>3, <2>4, <2>5, <2>6, <2>7 DEF NetworkInv
<1> QED BY <1>2, <1>3 DEF OnUpdate, SetState

\* The other messages.
LEMMA OtherMessages ==
  ASSUME NetworkInv, OnButton \/ OnDisconnected \/ OnGotIp \/ OnTuner
  PROVE  NetworkInv'
<1>1. Consumes /\ fired' = fired /\ fired' = FALSE /\ state # "RESTARTED" /\ web' = web
  BY DEF OnButton, OnDisconnected, OnGotIp, OnTuner, Take, Consumes, server, EnterProvisioning,
     NetworkInv, TypeInv
<1>2. CASE UNCHANGED <<state, timer, loaded, active, trial, link, nvs, form>>
  BY <1>1, <1>2, SameState
<1>3. CASE state \notin PortalStates /\ EnterProvisioning
  <2>1. At(queue, "submitted") = {}
    BY <1>1, <1>3 DEF NetworkInv, SubmissionInv, PortalStates
  <2> QED BY <1>1, <1>3, <2>1, EnterNetwork
<1>4. CASE /\ state \in StationStates /\ state' \in StationStates
           /\ UNCHANGED <<loaded, active, trial, link, nvs, form>>
  <2>1. At(queue, "submitted") = {} /\ web # "post"
    BY <1>4 DEF NetworkInv, SubmissionInv, StationStates
  <2>2. state' \in States \ PortalStates /\ state' \notin BootStates
    BY <1>4 DEF States, StationStates, PortalStates, BootStates
  <2>3. active' = NextLoad /\ active' \in Creds
    BY <1>4 DEF NetworkInv, PairInv
  <2>4. /\ link' \in Link /\ trial' \in MaybeCreds /\ active' \in MaybeCreds /\ fired' \in BOOLEAN
        /\ state' \notin {"STA_ATTEMPT", "STA_PAUSE"}
    BY <1>1, <1>4, <2>2 DEF NetworkInv, TypeInv, BootStates
  <2> QED BY <1>1, <1>4, <2>1, <2>2, <2>3, <2>4, OutsideStep
<1>5. CASE OnButton
  BY <1>2, <1>3, <1>5 DEF OnButton, station, server, driver
<1>6. CASE OnDisconnected
  BY <1>2, <1>4, <1>6 DEF OnDisconnected, server, driver, ReconnectAfter, SetState, StationStates
<1>7. CASE OnGotIp
  BY <1>2, <1>4, <1>7 DEF OnGotIp, server, StartMissing, SetState, StationStates
<1>8. CASE OnTuner
  BY <1>2, <1>8 DEF OnTuner, station, server, driver
<1> QED BY <1>5, <1>6, <1>7, <1>8

\* ConnectWifiStation() and DisconnectWifiStation() keep the driver's type.
LEMMA LinkTypes ==
  ASSUME TypeInv, NEW c \in MaybeCreds, ConnectWifiStation(c) \/ DisconnectWifiStation
  PROVE  link' \in Link
BY Disconnected DEF TypeInv, ConnectWifiStation, Link

\* HandleTimeout(): no timer runs out with a submission under way.
LEMMA TimeoutStep ==
  ASSUME NetworkInv, HandleTimeout
  PROVE  NetworkInv'
<1>1. fired /\ fired' = FALSE /\ queue' = queue /\ Consumes
  BY DEF HandleTimeout, BootWaitOver, AttemptOver, PauseOver, ReconnectWaitOver, ReconnectTryOver,
     TrialOver, SuccessShown, RetryPortal, LookAtServices, Expired, mailbox, Consumes
<1>2. At(queue, "submitted") = {} /\ web # "post"
  BY <1>1 DEF NetworkInv, SubmissionInv
<1>3. CASE EnterProvisioning
  BY <1>1, <1>2, <1>3, EnterNetwork
<1>4. CASE /\ state \in {"BOOT_WAIT", "STA_ATTEMPT", "STA_PAUSE"}
           /\ state' \in {"STA_ATTEMPT", "STA_PAUSE"} /\ loaded \in Creds
           /\ ConnectWifiStation(loaded) \/ DisconnectWifiStation
           /\ UNCHANGED <<loaded, active, trial, nvs, web, form>>
  <2>1. link' \in Link
    BY <1>4, LinkTypes DEF NetworkInv, TypeInv
  <2>2. /\ state' \in States \ PortalStates /\ state \in BootStates /\ state' \notin StationStates
    BY <1>4 DEF States, StationStates, PortalStates, BootStates
  <2>3. trial' \in MaybeCreds /\ active' \in MaybeCreds
    BY <1>4 DEF NetworkInv, TypeInv
  <2> QED BY <1>1, <1>2, <1>4, <2>1, <2>2, <2>3, OutsideStep
<1>5. CASE /\ state \in StationStates \cup {"PORTAL_SUCCESS"} /\ state' \in StationStates
           /\ \/ link' = link \/ ConnectWifiStation(active) \/ DisconnectWifiStation
           /\ trial' \in {trial, NoCreds} /\ UNCHANGED <<loaded, active, nvs, web, form>>
  <2>1. link' \in Link
    BY <1>5, LinkTypes DEF NetworkInv, TypeInv
  <2>2. /\ state' \in States \ PortalStates /\ state' \notin BootStates
        /\ state' \notin {"STA_ATTEMPT", "STA_PAUSE"}
    BY <1>5 DEF States, StationStates, PortalStates, BootStates
  <2>3. trial' \in MaybeCreds /\ active' \in MaybeCreds /\ active' = NextLoad /\ active' \in Creds
    BY <1>5 DEF NetworkInv, TypeInv, PairInv, MaybeCreds
  <2> QED BY <1>1, <1>2, <1>5, <2>1, <2>2, <2>3, OutsideStep
<1>6. CASE BootWaitOver
  <2>1. loaded # NoCreds => loaded \in Creds
    BY DEF NetworkInv, TypeInv, MaybeCreds
  <2> QED BY <1>3, <1>4, <1>6, <2>1 DEF BootWaitOver, Expired, StartBootAttempt, SetState, server
<1>7. CASE AttemptOver
  <2>1. loaded \in Creds
    BY <1>7 DEF NetworkInv, PairInv, AttemptOver, Expired
  <2> QED BY <1>3, <1>4, <1>7, <2>1 DEF AttemptOver, Expired, SetState, server
<1>8. CASE PauseOver
  <2>1. loaded \in Creds
    BY <1>8 DEF NetworkInv, PairInv, PauseOver, Expired
  <2> QED BY <1>4, <1>8, <2>1 DEF PauseOver, Expired, StartBootAttempt, SetState, server
<1>9. CASE ReconnectWaitOver \/ ReconnectTryOver \/ SuccessShown \/ LookAtServices
  BY <1>5, <1>9 DEF ReconnectWaitOver, ReconnectTryOver, SuccessShown, LookAtServices, Expired,
     ReconnectAfter, LeaveProvisioning, StartStationServices, StartMissing, SetState, server, StationStates
<1>10. CASE TrialOver
  <2>1. Ordered(queue')
    BY <1>1, <1>2 DEF Ordered
  <2> QED BY <1>1, <1>10, <2>1, FailNetwork DEF TrialOver, Expired, NetworkInv, TypeInv
<1>11. CASE RetryPortal
  BY <1>3, <1>11 DEF RetryPortal
<1> QED BY <1>6, <1>7, <1>8, <1>9, <1>10, <1>11 DEF HandleTimeout

\* Timers run out with an empty queue, while the server hands nothing over.
LEMMA TimerStep ==
  ASSUME NetworkInv, TimerExpires, SlowServer = FALSE
  PROVE  NetworkInv'
<1>1. /\ fired' = TRUE /\ queue = <<>> /\ timer # 0 /\ web # "post"
      /\ UNCHANGED <<state, timer, loaded, active, trial, link, nvs, queue, web, form>>
  BY DEF TimerExpires, ServerPrompt, station, server, mailbox
<1>2. At(queue, "submitted") = {}
  BY <1>1 DEF At
<1> QED BY <1>1, <1>2 DEF NetworkInv, TypeInv, NoBackgroundRetry, PairInv, NextLoad, SubmissionInv, ReportInv

LEMMA NetworkNext ==
  ASSUME NetworkInv, [Next]_vars, SlowServer = FALSE
  PROVE  NetworkInv'
<1>1. CASE OnButton \/ OnDisconnected \/ OnGotIp \/ OnTuner
  BY <1>1, OtherMessages
<1>2. CASE OnConnected
  BY <1>2, ConnectedStep
<1>3. CASE OnSubmitted
  BY <1>3, TrialStarts
<1>4. CASE OnUpdate
  BY <1>4, UpdateStep
<1>5. CASE TimerExpires \/ HandleTimeout
  BY <1>5, TimerStep, TimeoutStep
<1>6. CASE ScanBegin \/ ScanEnd \/ SubmitStatus \/ UNCHANGED vars
  <2>1. /\ Consumes /\ web' \in {web, "scan", "idle"}
        /\ UNCHANGED <<state, timer, fired, loaded, active, trial, link, nvs, form>>
    BY <1>6 DEF ScanBegin, ScanEnd, SubmitStatus, vars, machine, station, server, driver, mailbox, Consumes
  <2> QED BY <2>1, SameState
<1>7. CASE SubmitPost
  BY <1>7, SubmissionPost
<1>8. CASE \E c \in Creds : SubmitCheck(c)
  BY <1>8, SubmissionCheck
<1>9. CASE LinkUp
  BY <1>9, ReportPost
<1>10. CASE LinkFails \/ LinkLeft \/ LinkLost
  <2>1. /\ link' = [link EXCEPT !.phase = "off", !.addr = 0] /\ Post("disconnected", link.target)
        /\ UNCHANGED <<machine, station, server, nvs>>
    BY <1>10 DEF LinkFails, LinkLeft, LinkLost, Driver
  <2>2. /\ link' \in Link /\ link'.phase = "off" /\ link'.target = link.target
        /\ link.target \in MaybeCreds
    BY <2>1 DEF NetworkInv, TypeInv, Link
  <2>3. "disconnected" \in MessageTypes \ {"submitted", "connected"}
    BY DEF MessageTypes
  <2> QED BY <2>1, <2>2, <2>3, QuietPost
<1>11. CASE Assigns
  <2>1. PICK a \in Addresses : LinkAddress(a)
    BY <1>11 DEF Assigns
  <2>2. /\ link' = [link EXCEPT !.addr = a] /\ Post("got_ip", NoCreds)
        /\ UNCHANGED <<machine, station, server, nvs>>
    BY <2>1 DEF LinkAddress
  <2>3. link' \in Link /\ link'.phase = link.phase /\ link'.target = link.target
    BY <2>2 DEF NetworkInv, TypeInv, Link
  <2>4. "got_ip" \in MessageTypes \ {"submitted", "connected"} /\ NoCreds \in MaybeCreds
    BY DEF MessageTypes, MaybeCreds
  <2> QED BY <2>2, <2>3, <2>4, QuietPost
<1>12. CASE HandleButtonRequest \/ HandleUpdateGesture \/ PostTunerMessage
  <2>1. PICK type \in {"button", "update", "tuner"} : Request(type)
    BY <1>12 DEF HandleButtonRequest, HandleUpdateGesture, PostTunerMessage
  <2>2. /\ Post(type, NoCreds) /\ UNCHANGED <<machine, station, server, nvs, link>>
    BY <2>1 DEF Request
  <2>3. type \in MessageTypes \ {"submitted", "connected"} /\ NoCreds \in MaybeCreds /\ link \in Link
    BY DEF MessageTypes, MaybeCreds, NetworkInv, TypeInv
  <2> QED BY <2>2, <2>3, QuietPost
<1> QED BY <1>1, <1>2, <1>3, <1>4, <1>5, <1>6, <1>7, <1>8, <1>9, <1>10, <1>11, <1>12
     DEF Next, Orchestrate, HandleMessage, WebStep, DriverReports

\* NetworkInv holds forever, whatever fails, with a prompt server task.
LEMMA Networks == ASSUME SlowServer = FALSE PROVE Spec => []NetworkInv
<1>1. NetworkInv /\ [Next]_vars => NetworkInv'
  BY NetworkNext
<1> QED BY <1>1, NetworkInit, PTL DEF Spec

\* Provisioning mode never connects to the stored network; only the submitted
\* pair is tried.
THEOREM RetrySafety == ASSUME SlowServer = FALSE PROVE Spec => []NoBackgroundRetry
<1>1. NetworkInv => NoBackgroundRetry
  BY DEF NetworkInv
<1> QED BY <1>1, Networks, PTL

\* The network the device stays on is the one its next start will find stored.
THEOREM NetworkSafety == ASSUME SlowServer = FALSE PROVE Spec => []StationUsesStored
<1>1. NetworkInv => StationUsesStored
  BY DEF NetworkInv, PairInv, StationUsesStored
<1> QED BY <1>1, Networks, PTL

\* A pair gets into a record of the store on a report of its own connection, never of
\* another's; that holds even for a store that fails half-way.
THEOREM StoredSafety == ASSUME SlowServer = FALSE PROVE Spec => StoredDidConnect
<1> DEFINE Own == \A record \in {"active", "pending"} :
               nvs'[record] \notin {nvs[record], NoCreds} =>
                   Head(queue).type = "connected" /\ Head(queue).of = nvs'[record]
<1>1. NetworkInv /\ [Next]_vars => [Own]_vars
  <2> SUFFICES ASSUME NetworkInv, [Next]_vars, NEW record \in {"active", "pending"},
                      nvs'[record] \notin {nvs[record], NoCreds}
               PROVE  Head(queue).type = "connected" /\ Head(queue).of = nvs'[record]
    OBVIOUS
  <2>1. nvs' # nvs
    OBVIOUS
  <2>2. OnConnected /\ state = "PORTAL_TRIAL" /\ (Replaced(trial) \/ ReplaceFailed(trial))
    BY <2>1 DEF Next, vars, Orchestrate, HandleMessage, HandleTimeout, OnButton, OnConnected, OnDisconnected,
       OnGotIp, OnSubmitted, OnTuner, OnUpdate, TimerExpires, BootWaitOver, AttemptOver, PauseOver,
       ReconnectWaitOver, ReconnectTryOver, TrialOver, SuccessShown, RetryPortal, LookAtServices,
       StartBootAttempt, EnterProvisioning, LeaveProvisioning, StoreTrial, WebStep, ScanEnd, SubmitPost,
       SubmitStatus, DriverReports, LinkUp, LinkFails, LinkLeft, LinkLost, Driver, Assigns, LinkAddress,
       HandleButtonRequest, HandleUpdateGesture, PostTunerMessage, Request, ScanBegin, SubmitCheck, driver
  <2>3. queue # <<>> /\ Head(queue).type = "connected"
    BY <2>2 DEF OnConnected, Take
  <2>4. queue \in Seq(Message) /\ Lone(queue, trial)
    BY <2>2 DEF NetworkInv, TypeInv, ReportInv
  <2>5. Head(queue).of = trial
    BY <2>3, <2>4, TakeFacts
  <2>6. nvs'[record] = trial
    BY <2>2, ReplacedFacts DEF NetworkInv, TypeInv
  <2> QED BY <2>3, <2>5, <2>6
<1> QED BY <1>1, Networks, PTL DEF Spec, StoredDidConnect

-----------------------------------------------------------------------------
(* The orchestrator's view.  A flag that reports switch on and off becomes *)
(* what the last report in the queue says, or stays what it is; so flags,  *)
(* state and identity become what the driver is.                           *)

Becomes(q, on, off, flag) ==
    \/ flag /\ At(q, off) = {}
    \/ \E i \in At(q, on) : \A j \in At(q, off) : j < i

Linked == {"CONNECTED", "PORTAL_SUCCESS"}
Trying == {"STA_ATTEMPT", "RECONNECT_WAIT", "RECONNECT_TRY", "PORTAL_TRIAL"}

ViewTypes == assoc \in BOOLEAN /\ hasIp \in BOOLEAN /\ httpUp \in BOOLEAN

\* The driver tries in these states only, and has an address only while it is up;
\* the station server runs in the station's states only.
PlaceInv ==
    /\ link.phase = "trying" => state \in Trying \cup Linked
    /\ link.phase # "up" => link.addr = 0
    /\ httpUp => state \in StationStates

\* The flags become what the driver is.
FlagInv ==
    ~dropped =>
        /\ link.phase = "up" => Becomes(queue, "connected", "disconnected", assoc)
        /\ link.phase \in {"off", "trying"} => Becomes(queue, "disconnected", "connected", ~assoc)
        /\ link.addr # 0 => Becomes(queue, "got_ip", "disconnected", hasIp)
        /\ link.phase # "leaving" /\ link.addr = 0 => Becomes(queue, "disconnected", "got_ip", ~hasIp)

\* The state becomes what the driver is, and the identity the address.
StateInv ==
    ~dropped =>
        /\ state = "CONNECTED" =>
              link.phase \in {"up", "leaving"} \/ At(queue, "disconnected") # {}
        /\ link.phase = "up" =>
              state \in Linked \/ (state \in Trying /\ At(queue, "connected") # {})
        /\ httpUp /\ link.addr # 0 =>
              identity = link.addr \/ Becomes(queue, "got_ip", "connected", FALSE)

ViewInv == ViewTypes /\ PlaceInv /\ FlagInv /\ StateInv

LEMMA BecomesFacts ==
  /\ \A q, on, off : Becomes(q, on, off, FALSE) => At(q, on) # {}
  /\ \A q, on, off, flag : Becomes(q, on, off, flag) => Becomes(q, on, off, TRUE)
  /\ \A q, on, off : Becomes(q, on, off, TRUE) /\ At(q, off) # {} => Becomes(q, on, off, FALSE)
  /\ \A on, off, flag : Becomes(<<>>, on, off, flag) => flag
BY DEF Becomes, At

\* A report that is taken leaves its own flag behind.
LEMMA BecomesTake ==
  ASSUME NEW q \in Seq(Message), q # <<>>, NEW on, NEW off, on # off, NEW flag, Becomes(q, on, off, flag)
  PROVE  /\ Head(q).type = on => Becomes(Tail(q), on, off, TRUE)
         /\ Head(q).type # on => Becomes(Tail(q), on, off, flag)
         /\ Head(q).type = off => Becomes(Tail(q), on, off, FALSE)
<1>1. /\ Len(q) \in Nat \ {0} /\ Len(Tail(q)) = Len(q) - 1 /\ Head(q) = q[1]
      /\ \A i \in 1..Len(q) - 1 : Tail(q)[i] = q[i + 1]
  OBVIOUS
<1>2. \A t : 1 \in At(q, t) <=> Head(q).type = t
  BY <1>1 DEF At
<1>3. \A t : \A i \in At(Tail(q), t) : i \in Nat /\ i + 1 \in At(q, t)
  BY <1>1 DEF At
<1>4. \A t : \A i \in At(q, t) : i \in Nat /\ i >= 1 /\ (i > 1 => i - 1 \in At(Tail(q), t))
  BY <1>1 DEF At
<1>5. CASE flag /\ At(q, off) = {}
  <2>1. At(Tail(q), off) = {} /\ Head(q).type # off
    BY <1>2, <1>3, <1>5
  <2> QED BY <1>5, <2>1 DEF Becomes
<1>6. CASE \E i \in At(q, on) : \A j \in At(q, off) : j < i
  <2>1. PICK i \in At(q, on) : \A j \in At(q, off) : j < i
    BY <1>6
  <2>2. i \in Nat /\ i >= 1
    BY <1>4
  <2>3. CASE i > 1
    <3>1. i - 1 \in At(Tail(q), on)
      BY <1>4, <2>3
    <3>2. \A j \in At(Tail(q), off) : j < i - 1
      BY <1>3, <2>1, <2>2
    <3> QED BY <3>1, <3>2 DEF Becomes
  <2>4. CASE i = 1
    <3>1. \A j \in At(q, off) : j \in Nat /\ j >= 1 /\ j < 1
      BY <1>4, <2>1, <2>4
    <3>a. At(q, off) = {}
      BY <3>1
    <3>2. At(Tail(q), off) = {} /\ Head(q).type = on
      BY <1>2, <1>3, <2>1, <2>4, <3>a
    <3> QED BY <3>2 DEF Becomes
  <2>5. i > 1 \/ i = 1
    BY <2>2
  <2> QED BY <2>3, <2>4, <2>5
<1>7. (flag /\ At(q, off) = {}) \/ \E i \in At(q, on) : \A j \in At(q, off) : j < i
  BY DEF Becomes
<1> QED BY <1>5, <1>6, <1>7

\* A report that is posted is the last word of its flag.
LEMMA BecomesPost ==
  ASSUME NEW q \in Seq(Message), NEW m \in Message, NEW on, NEW off, on # off, NEW flag
  PROVE  /\ m.type = on => Becomes(Append(q, m), on, off, flag)
         /\ m.type # off /\ Becomes(q, on, off, flag) => Becomes(Append(q, m), on, off, flag)
<1>1. /\ Len(q) \in Nat /\ Len(Append(q, m)) = Len(q) + 1
      /\ \A i \in 1..Len(q) : Append(q, m)[i] = q[i]
      /\ Append(q, m)[Len(q) + 1] = m
  OBVIOUS
<1>2. \A t : \A i \in At(Append(q, m), t) :
         (i \in At(q, t) /\ i \in Nat /\ i <= Len(q)) \/ (i = Len(q) + 1 /\ m.type = t)
  <2> SUFFICES ASSUME NEW t, NEW i \in At(Append(q, m), t)
               PROVE  (i \in At(q, t) /\ i \in Nat /\ i <= Len(q)) \/ (i = Len(q) + 1 /\ m.type = t)
    OBVIOUS
  <2>1. i \in 1..Len(q) + 1 /\ Append(q, m)[i].type = t
    BY <1>1 DEF At
  <2>2. CASE i = Len(q) + 1
    BY <1>1, <2>1, <2>2
  <2>3. CASE i \in 1..Len(q)
    BY <1>1, <2>1, <2>3 DEF At
  <2> QED BY <1>1, <2>1, <2>2, <2>3
<1>3. \A t : \A i \in At(q, t) : i \in At(Append(q, m), t)
  BY <1>1 DEF At
<1>4. CASE m.type = on
  <2>1. Len(q) + 1 \in At(Append(q, m), on)
    BY <1>1, <1>4 DEF At
  <2>2. \A j \in At(Append(q, m), off) : j < Len(q) + 1
    BY <1>1, <1>2, <1>4
  <2> QED BY <2>1, <2>2 DEF Becomes
<1>5. CASE m.type # off /\ Becomes(q, on, off, flag)
  <2>1. \A j \in At(Append(q, m), off) : j \in At(q, off)
    BY <1>2, <1>5
  <2> QED BY <1>3, <1>5, <2>1 DEF Becomes
<1> QED BY <1>4, <1>5

\* Messages of a type are lost only when they are taken.
LEMMA AtFacts ==
  ASSUME NEW q \in Seq(Message), NEW t
  PROVE  /\ q # <<>> /\ Head(q).type # t /\ At(q, t) # {} => At(Tail(q), t) # {}
         /\ \A m \in Message : At(q, t) # {} => At(Append(q, m), t) # {}
<1>1. ASSUME q # <<>>, Head(q).type # t, At(q, t) # {} PROVE At(Tail(q), t) # {}
  <2>1. PICK i \in 1..Len(q) : q[i].type = t
    BY <1>1 DEF At
  <2>2. Len(q) \in Nat \ {0} /\ Len(Tail(q)) = Len(q) - 1 /\ Head(q) = q[1]
    BY <1>1
  <2>3. i # 1 /\ i - 1 \in 1..Len(q) - 1
    BY <1>1, <2>1, <2>2
  <2>4. Tail(q)[i - 1] = q[i - 1 + 1] /\ i - 1 + 1 = i
    BY <1>1, <2>3
  <2>5. i - 1 \in At(Tail(q), t)
    BY <2>1, <2>2, <2>3, <2>4 DEF At
  <2> QED BY <2>5
<1>2. ASSUME NEW m \in Message, At(q, t) # {} PROVE At(Append(q, m), t) # {}
  BY <1>2 DEF At
<1> QED BY <1>1, <1>2


\* What the orchestrator does to the driver.
LinkMoves ==
    \/ link' = link
    \/ link'.phase = "leaving" /\ link'.addr = 0
    \/ link.phase = "off" /\ link'.phase = "trying" /\ link'.addr = 0

\* The first message is taken, and the flags follow it.
Heeded ==
    /\ queue # <<>> /\ queue' = Tail(queue)
    /\ Head(queue).type = "connected" => assoc' = TRUE
    /\ Head(queue).type = "disconnected" => assoc' = FALSE /\ hasIp' = FALSE
    /\ Head(queue).type = "got_ip" => hasIp' = TRUE
    /\ Head(queue).type \notin {"connected", "disconnected"} => assoc' = assoc
    /\ Head(queue).type \notin {"got_ip", "disconnected"} => hasIp' = hasIp

LEMMA FlagFollows ==
  ASSUME TypeInv, ViewTypes, PlaceInv, FlagInv, LinkMoves, dropped' = dropped,
         UNCHANGED <<queue, assoc, hasIp>> \/ Heeded
  PROVE  FlagInv'
<1>1. /\ link'.phase = "up" => link.phase = "up"
      /\ link'.phase \in {"off", "trying"} => link.phase \in {"off", "trying"}
      /\ link'.addr # 0 => link.addr # 0
      /\ link'.phase # "leaving" /\ link'.addr = 0 => link.phase # "leaving" /\ link.addr = 0
  BY DEF LinkMoves, PlaceInv
<1>2. CASE UNCHANGED <<queue, assoc, hasIp>>
  BY <1>1, <1>2 DEF FlagInv
<1>3. CASE Heeded
  <2>1. queue \in Seq(Message) /\ queue # <<>> /\ queue' = Tail(queue)
    BY <1>3 DEF Heeded, TypeInv
  <2>2. ASSUME Becomes(queue, "connected", "disconnected", assoc)
        PROVE  Becomes(queue', "connected", "disconnected", assoc')
    BY <1>3, <2>1, <2>2, BecomesTake, Zenon DEF Heeded
  <2>3. ASSUME Becomes(queue, "disconnected", "connected", ~assoc)
        PROVE  Becomes(queue', "disconnected", "connected", ~assoc')
    <3>1. CASE Head(queue).type = "disconnected"
      <4>1. Becomes(queue', "disconnected", "connected", TRUE) /\ (~assoc') = TRUE
        BY <1>3, <2>1, <2>3, <3>1, BecomesTake DEF Heeded
      <4> QED BY <4>1
    <3>2. CASE Head(queue).type = "connected"
      <4>1. Becomes(queue', "disconnected", "connected", FALSE) /\ (~assoc') = FALSE
        BY <1>3, <2>1, <2>3, <3>2, BecomesTake DEF Heeded
      <4> QED BY <4>1
    <3>3. CASE Head(queue).type \notin {"disconnected", "connected"}
      <4>1. Becomes(queue', "disconnected", "connected", ~assoc)
        BY <2>1, <2>3, <3>3, BecomesTake
      <4>2. assoc' = assoc
        BY <1>3, <3>3 DEF Heeded
      <4> QED BY <4>1, <4>2
    <3> QED BY <3>1, <3>2, <3>3
  <2>4. ASSUME Becomes(queue, "got_ip", "disconnected", hasIp)
        PROVE  Becomes(queue', "got_ip", "disconnected", hasIp')
    BY <1>3, <2>1, <2>4, BecomesTake, Zenon DEF Heeded
  <2>5. ASSUME Becomes(queue, "disconnected", "got_ip", ~hasIp)
        PROVE  Becomes(queue', "disconnected", "got_ip", ~hasIp')
    <3>1. CASE Head(queue).type = "disconnected"
      <4>1. Becomes(queue', "disconnected", "got_ip", TRUE) /\ (~hasIp') = TRUE
        BY <1>3, <2>1, <2>5, <3>1, BecomesTake DEF Heeded
      <4> QED BY <4>1
    <3>2. CASE Head(queue).type = "got_ip"
      <4>1. Becomes(queue', "disconnected", "got_ip", FALSE) /\ (~hasIp') = FALSE
        BY <1>3, <2>1, <2>5, <3>2, BecomesTake DEF Heeded
      <4> QED BY <4>1
    <3>3. CASE Head(queue).type \notin {"disconnected", "got_ip"}
      <4>1. Becomes(queue', "disconnected", "got_ip", ~hasIp)
        BY <2>1, <2>5, <3>3, BecomesTake
      <4>2. hasIp' = hasIp
        BY <1>3, <3>3 DEF Heeded
      <4> QED BY <4>1, <4>2
    <3> QED BY <3>1, <3>2, <3>3
  <2> QED BY <1>1, <2>2, <2>3, <2>4, <2>5 DEF FlagInv
<1> QED BY <1>2, <1>3

\* A message that reports nothing of the driver is taken, or none.
Reports == {"connected", "disconnected", "got_ip"}
Quiet == queue' = queue \/ (queue # <<>> /\ Head(queue).type \notin Reports /\ queue' = Tail(queue))

LEMMA QuietFacts ==
  ASSUME TypeInv, Quiet
  PROVE  /\ \A flag : \A on, off \in Reports : on # off /\ Becomes(queue, on, off, flag)
                => Becomes(queue', on, off, flag)
         /\ \A t \in Reports : At(queue, t) # {} => At(queue', t) # {}
<1>1. CASE queue' = queue
  BY <1>1
<1>2. CASE queue # <<>> /\ Head(queue).type \notin Reports /\ queue' = Tail(queue)
  <2>1. queue \in Seq(Message)
    BY DEF TypeInv
  <2>2. \A flag : \A on, off \in Reports : on # off /\ Becomes(queue, on, off, flag)
            => Becomes(queue', on, off, flag)
    BY <1>2, <2>1, BecomesTake
  <2>3. \A t \in Reports : At(queue, t) # {} => At(queue', t) # {}
    BY <1>2, <2>1, AtFacts
  <2> QED BY <2>2, <2>3
<1> QED BY <1>1, <1>2 DEF Quiet

\* HandleStationGotIp() has nothing to say to a station that is told to leave.
LEMMA FlagLeaves ==
  ASSUME TypeInv, ViewTypes, PlaceInv, FlagInv, LinkMoves, link'.phase \in {"off", "leaving"},
         Quiet, dropped' = dropped, assoc' = assoc, hasIp' = FALSE
  PROVE  FlagInv'
<1>1. link'.addr = 0 /\ (link'.phase = "off" => link.phase = "off" /\ link.addr = 0)
  BY DEF LinkMoves, PlaceInv
<1>2. Becomes(queue, "disconnected", "got_ip", ~hasIp) => Becomes(queue', "disconnected", "got_ip", TRUE)
  <2>1. ASSUME Becomes(queue, "disconnected", "got_ip", ~hasIp)
        PROVE  Becomes(queue, "disconnected", "got_ip", TRUE)
    BY <2>1, BecomesFacts
  <2> QED BY <2>1, QuietFacts DEF Reports
<1>3. (~hasIp') = TRUE
  OBVIOUS
<1>4. Becomes(queue, "disconnected", "connected", ~assoc) => Becomes(queue', "disconnected", "connected", ~assoc)
  BY QuietFacts DEF Reports
<1> QED BY <1>1, <1>2, <1>3, <1>4 DEF FlagInv

LEMMA DisconnectMoves ==
  ASSUME TypeInv, DisconnectWifiStation
  PROVE  LinkMoves /\ link'.phase \in {"off", "leaving"}
BY DEF TypeInv, Link, LinkMoves, DisconnectWifiStation

LEMMA ConnectMoves ==
  ASSUME TypeInv, NEW c, ConnectWifiStation(c)
  PROVE  link' = link \/ (link.phase = "off" /\ link'.phase = "trying" /\ link'.addr = 0)
BY DEF TypeInv, Link, ConnectWifiStation

\* A station that is told to leave has no view to keep.
LEMMA StateLeaves ==
  ASSUME PlaceInv, LinkMoves, link'.phase \in {"off", "leaving"}, state' # "CONNECTED",
         httpUp' => state' \in StationStates
  PROVE  PlaceInv' /\ StateInv'
<1>1. link'.addr = 0
  BY DEF LinkMoves, PlaceInv
<1>2. link'.phase \notin {"trying", "up"}
  OBVIOUS
<1> QED BY <1>1, <1>2 DEF PlaceInv, StateInv

\* A station that is told to connect, while no connection is expected or one is
\* awaited anyway.
LEMMA StateTries ==
  ASSUME TypeInv, PlaceInv, StateInv, Quiet, dropped' = dropped,
         link' = link \/ (link.phase = "off" /\ link'.phase = "trying" /\ link'.addr = 0),
         state \notin Linked, state' \in Trying, UNCHANGED <<httpUp, identity>>,
         httpUp => state' \in StationStates
  PROVE  PlaceInv' /\ StateInv'
<1>1. PlaceInv'
  BY DEF PlaceInv
<1>2. state' # "CONNECTED"
  BY DEF Trying
<1>3. link'.phase = "up" => link' = link
  OBVIOUS
<1>4. At(queue, "connected") # {} => At(queue', "connected") # {}
  BY QuietFacts DEF Reports
<1>5. link'.addr # 0 => link' = link
  OBVIOUS
<1>6. Becomes(queue, "got_ip", "connected", FALSE) => Becomes(queue', "got_ip", "connected", FALSE)
  BY QuietFacts DEF Reports
<1>7. StateInv'
  BY <1>2, <1>3, <1>4, <1>5, <1>6 DEF StateInv
<1> QED BY <1>1, <1>7

\* Nothing the view depends on changes, but for a message that reports nothing.
LEMMA SameView ==
  ASSUME TypeInv, ViewInv, Quiet, UNCHANGED <<state, assoc, hasIp, httpUp, identity, link, dropped>>
  PROVE  ViewInv'
<1>1. /\ At(queue, "connected") # {} => At(queue', "connected") # {}
      /\ At(queue, "disconnected") # {} => At(queue', "disconnected") # {}
  BY QuietFacts DEF Reports
<1>2. \A flag : \A on, off \in Reports : on # off /\ Becomes(queue, on, off, flag)
          => Becomes(queue', on, off, flag)
  BY QuietFacts
<1>3. ViewTypes' /\ PlaceInv'
  BY DEF ViewInv, ViewTypes, PlaceInv
<1>4. FlagInv'
  BY <1>2, Zenon DEF ViewInv, FlagInv, Reports
<1>5. StateInv'
  BY <1>1, <1>2 DEF ViewInv, StateInv, Reports
<1> QED BY <1>3, <1>4, <1>5 DEF ViewInv

\* EnterProvisioning() drops the station with the view of it.
LEMMA EnterView ==
  ASSUME TypeInv, ViewInv, Quiet, dropped' = dropped, assoc' = assoc, EnterProvisioning
  PROVE  ViewInv'
<1>1. LinkMoves /\ link'.phase \in {"off", "leaving"}
  BY DisconnectMoves DEF EnterProvisioning
<1>2. ~httpUp' /\ httpUp' \in BOOLEAN /\ hasIp' = FALSE /\ state' # "CONNECTED"
  BY DEF EnterProvisioning, StopStationServices, PortalStarts, PortalStartFails, SetState
<1>3. FlagInv'
  BY <1>1, <1>2, FlagLeaves DEF ViewInv
<1>4. PlaceInv' /\ StateInv'
  BY <1>1, <1>2, StateLeaves DEF ViewInv
<1>5. ViewTypes'
  BY <1>2 DEF ViewInv, ViewTypes
<1> QED BY <1>3, <1>4, <1>5 DEF ViewInv

\* HandleStationConnected()
LEMMA ConnectedView ==
  ASSUME TypeInv, ViewInv, OnConnected
  PROVE  ViewInv'
<1>1. /\ queue \in Seq(Message) /\ queue # <<>> /\ Head(queue).type = "connected"
      /\ queue' = Tail(queue) /\ assoc' = TRUE
      /\ UNCHANGED <<hasIp, httpUp, identity, dropped>>
  BY DEF OnConnected, Take, TypeInv, services
<1>2. Heeded
  BY <1>1 DEF Heeded
<1>3. LinkMoves /\ (link' = link \/ (state = "PORTAL_TRIAL" /\ FailTrial))
  BY DisconnectMoves DEF OnConnected, FailTrial, LinkMoves, driver
<1>4. FlagInv'
  BY <1>1, <1>2, <1>3, FlagFollows DEF ViewInv
<1>5. ViewTypes'
  BY <1>1 DEF ViewInv, ViewTypes
<1>6. CASE state = "PORTAL_TRIAL" /\ FailTrial
  <2>1. LinkMoves /\ link'.phase \in {"off", "leaving"} /\ state' = "PORTAL_IDLE" /\ ~httpUp'
    BY <1>1, <1>6, DisconnectMoves DEF FailTrial, SetState, ViewInv, PlaceInv, StationStates
  <2> QED BY <1>4, <1>5, <2>1, StateLeaves DEF ViewInv
<1>7. CASE /\ link' = link
           /\ \/ state \in Trying /\ state' = IF state = "PORTAL_TRIAL" THEN "PORTAL_SUCCESS" ELSE "CONNECTED"
              \/ state \notin Trying /\ state' = state
  <2>1. PlaceInv'
    BY <1>1, <1>7 DEF ViewInv, PlaceInv, Trying, Linked, StationStates
  <2>2. At(queue, "disconnected") # {} => At(queue', "disconnected") # {}
    BY <1>1, AtFacts
  <2>3. link.phase \in {"off", "trying"} /\ ~dropped /\ state' = "CONNECTED" => At(queue', "disconnected") # {}
    <3>1. CASE state = "CONNECTED"
      BY <1>7, <2>2, <3>1 DEF ViewInv, StateInv
    <3>2. ASSUME link.phase \in {"off", "trying"}, ~dropped PROVE At(queue', "disconnected") # {}
      BY <1>1, <3>2, BecomesTake, BecomesFacts DEF ViewInv, FlagInv
    <3> QED BY <3>2
  <2>4. Becomes(queue, "got_ip", "connected", FALSE) => Becomes(queue', "got_ip", "connected", FALSE)
    BY <1>1, BecomesTake
  <2>5. link.phase \in {"off", "trying", "up", "leaving"}
    BY DEF TypeInv, Link
  <2>6. StateInv'
    BY <1>1, <1>7, <2>3, <2>4, <2>5 DEF ViewInv, StateInv, Linked
  <2> QED BY <1>4, <1>5, <2>1, <2>6 DEF ViewInv
<1> QED BY <1>6, <1>7 DEF OnConnected, StoreTrial, SetState, driver, ExpectsConnection, Trying, Linked

\* HandleStationDisconnected()
LEMMA DisconnectedView ==
  ASSUME TypeInv, ViewInv, OnDisconnected
  PROVE  ViewInv'
<1>1. /\ queue \in Seq(Message) /\ queue # <<>> /\ Head(queue).type = "disconnected"
      /\ queue' = Tail(queue) /\ assoc' = FALSE /\ hasIp' = FALSE
      /\ UNCHANGED <<httpUp, identity, link, dropped>>
      /\ \/ state \in {"CONNECTED", "RECONNECT_TRY"} /\ state' = "RECONNECT_WAIT"
         \/ state \notin {"CONNECTED", "RECONNECT_TRY"} /\ state' = state
  BY DEF OnDisconnected, Take, TypeInv, services, driver, ReconnectAfter, SetState
<1>2. Heeded /\ LinkMoves
  BY <1>1 DEF Heeded, LinkMoves
<1>3. FlagInv'
  BY <1>1, <1>2, FlagFollows DEF ViewInv
<1>4. ViewTypes' /\ PlaceInv'
  BY <1>1 DEF ViewInv, ViewTypes, PlaceInv, Trying, Linked, StationStates
<1>5. link.phase = "up" /\ ~dropped => At(queue', "connected") # {}
  BY <1>1, BecomesTake, BecomesFacts DEF ViewInv, FlagInv
<1>6. Becomes(queue, "got_ip", "connected", FALSE) => Becomes(queue', "got_ip", "connected", FALSE)
  BY <1>1, BecomesTake
<1>7. StateInv'
  BY <1>1, <1>5, <1>6 DEF ViewInv, StateInv, Linked, Trying
<1> QED BY <1>3, <1>4, <1>7 DEF ViewInv

\* HandleStationGotIp()
LEMMA GotIpView ==
  ASSUME TypeInv, ViewInv, OnGotIp
  PROVE  ViewInv'
<1>1. /\ queue \in Seq(Message) /\ queue # <<>> /\ Head(queue).type = "got_ip"
      /\ queue' = Tail(queue) /\ hasIp' = TRUE
      /\ UNCHANGED <<state, assoc, link, dropped>> /\ httpUp' \in BOOLEAN
      /\ \/ state # "CONNECTED" /\ UNCHANGED <<httpUp, identity>>
         \/ state = "CONNECTED" /\ identity' = link.addr
  BY DEF OnGotIp, Take, TypeInv, StartMissing, HttpStarts, SetState, SetAddress, ViewInv, ViewTypes
<1>2. Heeded /\ LinkMoves
  BY <1>1 DEF Heeded, LinkMoves
<1>3. FlagInv'
  BY <1>1, <1>2, FlagFollows DEF ViewInv
<1>4. ViewTypes' /\ PlaceInv'
  BY <1>1 DEF ViewInv, ViewTypes, PlaceInv, StationStates
<1>5. /\ At(queue, "connected") # {} => At(queue', "connected") # {}
      /\ At(queue, "disconnected") # {} => At(queue', "disconnected") # {}
  BY <1>1, AtFacts
<1>6. CASE state = "CONNECTED"
  <2>1. StateInv'
    BY <1>1, <1>5, <1>6 DEF ViewInv, StateInv, Linked
  <2> QED BY <1>3, <1>4, <2>1 DEF ViewInv
<1>7. CASE state # "CONNECTED"
  <2>1. ASSUME ~dropped, httpUp, link.addr # 0, Becomes(queue, "got_ip", "connected", FALSE)
        PROVE  Becomes(queue', "got_ip", "connected", FALSE)
    <3>1. Becomes(queue', "got_ip", "connected", TRUE)
      BY <1>1, <2>1, BecomesTake
    <3>2. link.phase = "up" /\ state \in StationStates
      BY <2>1 DEF ViewInv, PlaceInv
    <3>3. At(queue', "connected") # {}
      BY <1>5, <1>7, <2>1, <3>2 DEF ViewInv, StateInv, Linked, StationStates
    <3> QED BY <3>1, <3>3, BecomesFacts
  <2>2. StateInv'
    BY <1>1, <1>5, <1>7, <2>1 DEF ViewInv, StateInv
  <2> QED BY <1>3, <1>4, <2>2 DEF ViewInv
<1> QED BY <1>6, <1>7

\* The messages that report nothing.
LEMMA OtherMessagesView ==
  ASSUME TypeInv, ViewInv, OnButton \/ OnSubmitted \/ OnTuner \/ OnUpdate
  PROVE  ViewInv'
<1>1. Quiet /\ dropped' = dropped
  BY DEF OnButton, OnSubmitted, OnTuner, OnUpdate, Take, Quiet, Reports
<1>2. CASE UNCHANGED <<state, assoc, hasIp, httpUp, identity, link>>
  BY <1>1, <1>2, SameView
<1>3. CASE OnButton /\ EnterProvisioning /\ assoc' = assoc
  BY <1>1, <1>3, EnterView
<1>4. CASE OnSubmitted /\ state = "PORTAL_IDLE"
  <2>1. /\ state' = "PORTAL_TRIAL" /\ UNCHANGED <<assoc, hasIp, httpUp, identity>>
        /\ link' = link \/ (link.phase = "off" /\ link'.phase = "trying" /\ link'.addr = 0)
    BY <1>4, ConnectMoves DEF OnSubmitted, SetState, services
  <2>2. LinkMoves
    BY <2>1 DEF LinkMoves
  <2>3. UNCHANGED <<assoc, hasIp>> /\ (UNCHANGED queue \/ Heeded)
    BY <1>4, <2>1 DEF OnSubmitted, Take, Heeded
  <2>4. FlagInv'
    BY <1>1, <2>2, <2>3, FlagFollows DEF ViewInv
  <2>5. state \notin Linked /\ state' \in Trying /\ ~httpUp
    BY <1>4, <2>1 DEF Linked, Trying, ViewInv, PlaceInv, StationStates
  <2>6. PlaceInv' /\ StateInv'
    BY <1>1, <2>1, <2>5, StateTries DEF ViewInv
  <2>7. ViewTypes'
    BY <2>1 DEF ViewInv, ViewTypes
  <2> QED BY <2>4, <2>6, <2>7 DEF ViewInv
<1>5. CASE OnUpdate /\ StopStationServices /\ DisconnectWifiStation /\ state' = "RESTARTED"
  <2>1. /\ LinkMoves /\ link'.phase \in {"off", "leaving"} /\ httpUp' = FALSE
        /\ UNCHANGED <<assoc, hasIp>>
    BY <1>5, DisconnectMoves DEF StopStationServices, OnUpdate, station
  <2>2. UNCHANGED queue \/ Heeded
    BY <1>5, <2>1 DEF OnUpdate, Take, Heeded
  <2>3. FlagInv'
    BY <1>1, <2>1, <2>2, FlagFollows DEF ViewInv
  <2>4. PlaceInv' /\ StateInv'
    BY <1>5, <2>1, StateLeaves DEF ViewInv
  <2>5. ViewTypes'
    BY <2>1 DEF ViewInv, ViewTypes
  <2> QED BY <2>3, <2>4, <2>5 DEF ViewInv
<1>6. CASE OnButton
  BY <1>2, <1>3, <1>6 DEF OnButton, station, services, driver
<1>7. CASE OnSubmitted
  BY <1>2, <1>4, <1>7 DEF OnSubmitted, services
<1>8. CASE OnTuner
  BY <1>2, <1>8 DEF OnTuner, station, services, driver
<1>9. CASE OnUpdate
  BY <1>2, <1>5, <1>9 DEF OnUpdate, station, services, SetState
<1> QED BY <1>6, <1>7, <1>8, <1>9

\* LeaveProvisioning(): what the flags say becomes the state.
LEMMA LeaveView ==
  ASSUME TypeInv, ViewInv, SuccessShown
  PROVE  ViewInv'
<1>1. /\ state = "PORTAL_SUCCESS" /\ UNCHANGED <<queue, assoc, hasIp, link, dropped>>
      /\ \/ assoc /\ StartStationServices
         \/ UNCHANGED httpUp /\ state' = IF assoc THEN "CONNECTED" ELSE "RECONNECT_WAIT"
  BY DEF SuccessShown, Expired, mailbox, LeaveProvisioning, SetState
<1>2. httpUp = FALSE
  BY <1>1 DEF ViewInv, ViewTypes, PlaceInv, StationStates
<1>3. /\ httpUp' \in BOOLEAN
      /\ \/ assoc /\ state' = "CONNECTED" /\ (identity' = link.addr \/ ~httpUp')
         \/ ~assoc /\ state' = "RECONNECT_WAIT" /\ ~httpUp'
  <2>1. CASE assoc /\ StartStationServices
    BY <1>2, <2>1 DEF StartStationServices, StartMissing, HttpStarts, SetState
  <2>2. CASE UNCHANGED httpUp /\ state' = IF assoc THEN "CONNECTED" ELSE "RECONNECT_WAIT"
    BY <1>2, <2>2
  <2> QED BY <1>1, <2>1, <2>2
<1>4. LinkMoves
  BY <1>1 DEF LinkMoves
<1>5. FlagInv'
  BY <1>1, <1>4, FlagFollows DEF ViewInv
<1>6. ViewTypes' /\ PlaceInv'
  BY <1>1, <1>3 DEF ViewInv, ViewTypes, PlaceInv, Trying, Linked, StationStates
<1>7. assoc /\ ~dropped /\ link.phase \in {"off", "trying"} => At(queue, "disconnected") # {}
  BY BecomesFacts DEF ViewInv, FlagInv
<1>8. ASSUME ~assoc, ~dropped, link.phase = "up" PROVE At(queue, "connected") # {}
  <2>1. assoc = FALSE /\ Becomes(queue, "connected", "disconnected", assoc)
    BY <1>8 DEF ViewInv, ViewTypes, FlagInv
  <2>2. Becomes(queue, "connected", "disconnected", FALSE)
    BY <2>1, Zenon
  <2> QED BY <2>2, BecomesFacts
<1>9. link.phase \in {"off", "trying", "up", "leaving"}
  BY DEF TypeInv, Link
<1>10. StateInv'
  BY <1>1, <1>2, <1>3, <1>7, <1>8, <1>9 DEF ViewInv, StateInv, Linked, Trying
<1> QED BY <1>5, <1>6, <1>10 DEF ViewInv

\* HandleTimeout() ends an attempt or begins one; a report may have come since
\* the timer ran out.
LEMMA TimeoutView ==
  ASSUME TypeInv, ViewInv, HandleTimeout
  PROVE  ViewInv'
<1>1. Quiet /\ UNCHANGED <<queue, assoc, dropped>>
  BY DEF HandleTimeout, BootWaitOver, AttemptOver, PauseOver, ReconnectWaitOver, ReconnectTryOver,
     TrialOver, SuccessShown, RetryPortal, LookAtServices, Expired, mailbox, Quiet
<1>2. CASE EnterProvisioning
  BY <1>1, <1>2, EnterView
<1>3. CASE /\ state \in {"BOOT_WAIT", "STA_PAUSE", "RECONNECT_WAIT"}
           /\ state' = IF state = "RECONNECT_WAIT" THEN "RECONNECT_TRY" ELSE "STA_ATTEMPT"
           /\ \E c \in {loaded, active} : ConnectWifiStation(c)
           /\ UNCHANGED <<hasIp, httpUp, identity>>
  <2>1. link' = link \/ (link.phase = "off" /\ link'.phase = "trying" /\ link'.addr = 0)
    BY <1>3, ConnectMoves
  <2>2. LinkMoves
    BY <2>1 DEF LinkMoves
  <2>3. FlagInv'
    BY <1>1, <1>3, <2>2, FlagFollows DEF ViewInv
  <2>4. state \notin Linked /\ state' \in Trying /\ (httpUp => state' \in StationStates)
    BY <1>3 DEF Linked, Trying, ViewInv, PlaceInv, StationStates
  <2>5. PlaceInv' /\ StateInv'
    BY <1>1, <1>3, <2>1, <2>4, StateTries DEF ViewInv
  <2>6. ViewTypes'
    BY <1>1, <1>3 DEF ViewInv, ViewTypes
  <2> QED BY <2>3, <2>5, <2>6 DEF ViewInv
<1>4. CASE /\ state \in Trying
           /\ state' = CASE state = "STA_ATTEMPT" -> "STA_PAUSE"
                         [] state = "RECONNECT_TRY" -> "RECONNECT_WAIT"
                         [] OTHER -> "PORTAL_IDLE"
           /\ state # "RECONNECT_WAIT"
           /\ DisconnectWifiStation /\ UNCHANGED <<hasIp, httpUp, identity>>
  <2>1. LinkMoves /\ link'.phase \in {"off", "leaving"}
    BY <1>4, DisconnectMoves
  <2>2. FlagInv'
    BY <1>1, <1>4, <2>1, FlagFollows DEF ViewInv
  <2>3. state' # "CONNECTED" /\ (httpUp' => state' \in StationStates)
    BY <1>4 DEF Trying, ViewInv, PlaceInv, StationStates
  <2>4. PlaceInv' /\ StateInv'
    BY <2>1, <2>3, StateLeaves DEF ViewInv
  <2>5. ViewTypes'
    BY <1>1, <1>4 DEF ViewInv, ViewTypes
  <2> QED BY <2>2, <2>4, <2>5 DEF ViewInv
<1>5. CASE LookAtServices
  <2>1. /\ state = "CONNECTED" /\ state' = "CONNECTED" /\ UNCHANGED <<hasIp, link>>
        /\ httpUp' \in BOOLEAN
        /\ \/ identity' = IF httpUp THEN identity ELSE link.addr
           \/ identity' \in {identity, link.addr} /\ httpUp' = httpUp
    BY <1>5 DEF LookAtServices, Expired, StartStationServices, StartMissing, HttpStarts, SetState,
       ViewInv, ViewTypes
  <2>2. LinkMoves
    BY <2>1 DEF LinkMoves
  <2>3. FlagInv'
    BY <1>1, <2>1, <2>2, FlagFollows DEF ViewInv
  <2>4. ViewTypes' /\ PlaceInv'
    BY <1>1, <2>1 DEF ViewInv, ViewTypes, PlaceInv, Linked, StationStates
  <2>5. StateInv'
    BY <1>1, <2>1 DEF ViewInv, ViewTypes, StateInv, Linked
  <2> QED BY <2>3, <2>4, <2>5 DEF ViewInv
<1>6. CASE BootWaitOver \/ PauseOver \/ ReconnectWaitOver
  BY <1>2, <1>3, <1>6 DEF BootWaitOver, PauseOver, ReconnectWaitOver, StartBootAttempt, Expired,
     SetState, services
<1>7. CASE AttemptOver \/ ReconnectTryOver \/ TrialOver
  BY <1>2, <1>4, <1>7 DEF AttemptOver, ReconnectTryOver, TrialOver, FailTrial, ReconnectAfter, Expired,
     SetState, services, Trying
<1> QED BY <1>2, <1>5, <1>6, <1>7, LeaveView DEF HandleTimeout, RetryPortal

\* What a post leaves: every flag its own report turns on is on, no other is off.
LEMMA PostView ==
  ASSUME TypeInv, NEW type \in MessageTypes, NEW of \in MaybeCreds, Post(type, of)
  PROVE  /\ ~dropped' => ~dropped
         /\ \A flag : \A on, off \in Reports :
                on # off /\ ~dropped' /\ (type = on \/ (type # off /\ Becomes(queue, on, off, flag)))
                    => Becomes(queue', on, off, flag)
         /\ \A t \in Reports : ~dropped' /\ (type = t \/ At(queue, t) # {}) => At(queue', t) # {}
<1> DEFINE m == [type |-> type, of |-> of]
<1>1. m \in Message /\ m.type = type /\ queue \in Seq(Message)
  BY DEF Message, TypeInv
<1>2. CASE queue' = Append(queue, m) /\ dropped' = dropped
  <2>1. Len(Append(queue, m)) \in Nat \ {0} /\ Append(queue, m)[Len(Append(queue, m))] = m
    BY <1>1
  <2>2. At(queue', type) # {}
    BY <1>1, <1>2, <2>1 DEF At
  <2>3. \A t : At(queue, t) # {} => At(queue', t) # {}
    BY <1>1, <1>2, AtFacts
  <2>4. \A flag : \A on, off \in Reports :
            on # off /\ (type = on \/ (type # off /\ Becomes(queue, on, off, flag)))
                => Becomes(queue', on, off, flag)
    BY <1>1, <1>2, BecomesPost
  <2> QED BY <1>2, <2>2, <2>3, <2>4
<1>3. CASE dropped' = TRUE
  BY <1>3
<1> QED BY <1>2, <1>3 DEF Post

\* Messages of the other actors.
LEMMA OthersPost ==
  ASSUME TypeInv, ViewInv, NEW type \in MessageTypes \ Reports, NEW of \in MaybeCreds, Post(type, of),
         UNCHANGED <<state, assoc, hasIp, httpUp, identity, link>>
  PROVE  ViewInv'
<1>1. ViewTypes' /\ PlaceInv'
  BY DEF ViewInv, ViewTypes, PlaceInv
<1>2. type \in MessageTypes /\ type \notin Reports
  OBVIOUS
<1>3. /\ ~dropped' => ~dropped
      /\ \A flag : \A on, off \in Reports :
            on # off /\ ~dropped' /\ Becomes(queue, on, off, flag) => Becomes(queue', on, off, flag)
      /\ \A t \in Reports : ~dropped' /\ At(queue, t) # {} => At(queue', t) # {}
  BY <1>2, PostView
<1>4. FlagInv'
  BY <1>3 DEF ViewInv, FlagInv, Reports
<1>5. StateInv'
  BY <1>3 DEF ViewInv, StateInv, Reports
<1> QED BY <1>1, <1>4, <1>5 DEF ViewInv

\* The driver lets the station in.
LEMMA UpView ==
  ASSUME TypeInv, ViewInv, LinkUp
  PROVE  ViewInv'
<1>1. /\ link.phase = "trying" /\ link'.phase = "up" /\ link'.addr = 0 /\ link.addr = 0
      /\ Post("connected", link.target) /\ UNCHANGED <<state, assoc, hasIp, httpUp, identity>>
  BY DEF LinkUp, Driver, machine, station, services, TypeInv, Link, ViewInv, PlaceInv
<1>2. "connected" \in MessageTypes /\ link.target \in MaybeCreds
  BY DEF MessageTypes, TypeInv, Link
<1>3. ~dropped' => ~dropped
  BY <1>1, <1>2, PostView
<1>4. ASSUME ~dropped'
      PROVE  /\ Becomes(queue', "connected", "disconnected", assoc)
             /\ Becomes(queue', "disconnected", "got_ip", ~hasIp)
             /\ At(queue', "connected") # {}
  <2>1. Becomes(queue, "disconnected", "got_ip", ~hasIp)
    BY <1>1, <1>3, <1>4 DEF ViewInv, FlagInv
  <2> QED BY <1>1, <1>2, <1>4, <2>1, PostView DEF Reports
<1>5. ViewTypes' /\ PlaceInv'
  BY <1>1 DEF ViewInv, ViewTypes, PlaceInv
<1>6. FlagInv'
  BY <1>1, <1>4 DEF FlagInv
<1>7. StateInv'
  BY <1>1, <1>4 DEF ViewInv, PlaceInv, StateInv
<1> QED BY <1>5, <1>6, <1>7 DEF ViewInv

\* The station is not let in, lost or gone.
LEMMA DownView ==
  ASSUME TypeInv, ViewInv, LinkFails \/ LinkLost \/ LinkLeft
  PROVE  ViewInv'
<1>1. /\ link'.phase = "off" /\ link'.addr = 0
      /\ Post("disconnected", link.target) /\ UNCHANGED <<state, assoc, hasIp, httpUp, identity>>
  BY DEF LinkFails, LinkLost, LinkLeft, Driver, machine, station, services, TypeInv, Link
<1>2. "disconnected" \in MessageTypes /\ link.target \in MaybeCreds
  BY DEF MessageTypes, TypeInv, Link
<1>3. ASSUME ~dropped'
      PROVE  /\ Becomes(queue', "disconnected", "connected", ~assoc)
             /\ Becomes(queue', "disconnected", "got_ip", ~hasIp)
             /\ At(queue', "disconnected") # {}
  BY <1>1, <1>2, <1>3, PostView DEF Reports
<1>4. ViewTypes' /\ PlaceInv'
  BY <1>1 DEF ViewInv, ViewTypes, PlaceInv
<1>5. FlagInv'
  BY <1>1, <1>3 DEF FlagInv
<1>6. StateInv'
  BY <1>1, <1>3 DEF StateInv
<1> QED BY <1>4, <1>5, <1>6 DEF ViewInv

\* The network assigns an address.
LEMMA AddressView ==
  ASSUME TypeInv, ViewInv, Assigns
  PROVE  ViewInv'
<1>1. PICK a \in Addresses : LinkAddress(a)
  BY DEF Assigns
<1>2. /\ link.phase = "up" /\ link'.phase = "up" /\ link'.addr = a /\ a # 0
      /\ Post("got_ip", NoCreds) /\ UNCHANGED <<state, assoc, hasIp, httpUp, identity>>
  BY <1>1, ProvisioningAssumption DEF LinkAddress, machine, station, services, TypeInv, Link
<1>3. "got_ip" \in MessageTypes /\ NoCreds \in MaybeCreds
  BY DEF MessageTypes, MaybeCreds
<1>4. ~dropped' => ~dropped
  BY <1>2, <1>3, PostView
<1>5. ASSUME ~dropped'
      PROVE  /\ Becomes(queue', "connected", "disconnected", assoc)
             /\ Becomes(queue', "got_ip", "disconnected", hasIp)
             /\ Becomes(queue', "got_ip", "connected", FALSE)
             /\ At(queue, "connected") # {} => At(queue', "connected") # {}
  <2>1. Becomes(queue, "connected", "disconnected", assoc)
    BY <1>2, <1>4, <1>5 DEF ViewInv, FlagInv
  <2> QED BY <1>2, <1>3, <1>5, <2>1, PostView DEF Reports
<1>6. ViewTypes' /\ PlaceInv'
  BY <1>2 DEF ViewInv, ViewTypes, PlaceInv
<1>7. FlagInv'
  BY <1>2, <1>5 DEF FlagInv
<1>8. StateInv'
  BY <1>2, <1>4, <1>5 DEF ViewInv, StateInv
<1> QED BY <1>6, <1>7, <1>8 DEF ViewInv

LEMMA ViewInit == Init => ViewInv
<1> SUFFICES ASSUME Init PROVE ViewInv
  OBVIOUS
<1>1. \A t : At(queue, t) = {}
  BY DEF Init, At
<1>2. (~assoc) = TRUE /\ (~hasIp) = TRUE
  BY DEF Init
<1>3. FlagInv
  BY <1>1, <1>2 DEF Init, FlagInv, Becomes
<1> QED BY <1>3 DEF Init, ViewInv, ViewTypes, PlaceInv, StateInv

\* What the messages, the pairs and the driver are, however slow the server task is.
LEMMA TypeNext ==
  ASSUME TypeInv, [Next]_vars
  PROVE  TypeInv'
<1>1. /\ queue \in Seq(Message) /\ link \in Link /\ NoCreds \in MaybeCreds /\ Creds \subseteq MaybeCreds
      /\ queue # <<>> => Tail(queue) \in Seq(Message) /\ Head(queue).of \in MaybeCreds
  BY TakeFacts DEF TypeInv, MaybeCreds, Message
<1>2. /\ \A type \in MessageTypes, of \in MaybeCreds : Post(type, of) => queue' \in Seq(Message)
      /\ \A c \in MaybeCreds : ConnectWifiStation(c) => link' \in Link
      /\ DisconnectWifiStation => link' \in Link
  <2>1. ASSUME NEW type \in MessageTypes, NEW of \in MaybeCreds, Post(type, of)
        PROVE  queue' \in Seq(Message)
    <3>1. [type |-> type, of |-> of] \in Message
      BY DEF Message
    <3> QED BY <1>1, <2>1, <3>1, PostFacts DEF Post
  <2>2. \A c \in MaybeCreds : ConnectWifiStation(c) => link' \in Link
    BY LinkTypes
  <2>3. DisconnectWifiStation => link' \in Link
    BY <1>1, Disconnected
  <2> QED BY <2>1, <2>2, <2>3
<1>3. CASE OnConnected
  <2>1. nvs' \in Store
    BY <1>3, ReplacedFacts DEF OnConnected, StoreTrial, TypeInv, driver
  <2> QED BY <1>1, <1>2, <1>3, <2>1 DEF OnConnected, Take, StoreTrial, FailTrial, SetState, TypeInv, States,
       StationStates, PortalStates, driver
<1>4. CASE OnSubmitted
  BY <1>1, <1>2, <1>4 DEF OnSubmitted, Take, SetState, TypeInv, States, PortalStates, server
<1>5. CASE OnButton \/ OnDisconnected \/ OnGotIp \/ OnTuner \/ OnUpdate
  BY <1>1, <1>2, <1>5 DEF OnButton, OnDisconnected, OnGotIp, OnTuner, OnUpdate, Take, EnterProvisioning,
     PortalStarts, PortalStartFails, ReconnectAfter, StartMissing, SetState, TypeInv, States, StationStates,
     PortalStates, server, driver, station
<1>6. CASE TimerExpires
  BY <1>6 DEF TimerExpires, TypeInv, station, server, mailbox
<1>7. CASE HandleTimeout
  <2>1. /\ fired' = FALSE
        /\ UNCHANGED <<queue, nvs, form, web, loaded>>
        /\ trial' \in {trial, NoCreds} /\ active' = active
    BY <1>7 DEF HandleTimeout, BootWaitOver, AttemptOver, PauseOver, ReconnectWaitOver, ReconnectTryOver,
       TrialOver, SuccessShown, RetryPortal, LookAtServices, Expired, StartBootAttempt, EnterProvisioning,
       LeaveProvisioning, FailTrial, server, mailbox
  <2>2. \/ link' = link \/ ConnectWifiStation(loaded) \/ ConnectWifiStation(active) \/ DisconnectWifiStation
    BY <1>7 DEF HandleTimeout, BootWaitOver, AttemptOver, PauseOver, ReconnectWaitOver, ReconnectTryOver,
       TrialOver, SuccessShown, RetryPortal, LookAtServices, StartBootAttempt, EnterProvisioning,
       LeaveProvisioning, FailTrial
  <2>3. state' \in States
    BY <1>7 DEF HandleTimeout, BootWaitOver, AttemptOver, PauseOver, ReconnectWaitOver, ReconnectTryOver,
       TrialOver, SuccessShown, RetryPortal, LookAtServices, StartBootAttempt, EnterProvisioning,
       LeaveProvisioning, FailTrial, PortalStarts, PortalStartFails, ReconnectAfter, StartStationServices,
       StartMissing, SetState, States, BootStates, StationStates, PortalStates
  <2> QED BY <1>1, <1>2, <2>1, <2>2, <2>3 DEF TypeInv
<1>8. CASE WebStep \/ ScanBegin \/ \E c \in Creds : SubmitCheck(c)
  <2>1. SubmitPost => queue' \in Seq(Message)
    BY <1>2 DEF SubmitPost, TypeInv, MessageTypes
  <2> QED BY <1>1, <1>8, <2>1 DEF WebStep, ScanEnd, SubmitPost, SubmitStatus, ScanBegin, SubmitCheck, TypeInv,
       machine, station, driver, mailbox
<1>9. CASE DriverReports \/ LinkLost \/ Assigns
  <2>1. PICK type \in {"connected", "disconnected", "got_ip"}, of \in MaybeCreds : Post(type, of)
    BY <1>1, <1>9 DEF DriverReports, LinkUp, LinkFails, LinkLeft, LinkLost, Assigns, LinkAddress, Driver, Link
  <2>2. link' \in Link
    BY <1>1, <1>9 DEF DriverReports, LinkUp, LinkFails, LinkLeft, LinkLost, Assigns, LinkAddress, Driver, Link
  <2>3. queue' \in Seq(Message)
    BY <1>2, <2>1 DEF MessageTypes
  <2> QED BY <1>9, <2>2, <2>3 DEF DriverReports, LinkUp, LinkFails, LinkLeft, LinkLost, Assigns, LinkAddress,
       Driver, TypeInv, machine, station, server
<1>10. CASE HandleButtonRequest \/ HandleUpdateGesture \/ PostTunerMessage
  <2>1. queue' \in Seq(Message)
    BY <1>1, <1>2, <1>10 DEF HandleButtonRequest, HandleUpdateGesture, PostTunerMessage, Request, MessageTypes
  <2> QED BY <1>10, <2>1 DEF HandleButtonRequest, HandleUpdateGesture, PostTunerMessage, Request, TypeInv,
       machine, station, server
<1>11. CASE UNCHANGED vars
  BY <1>11 DEF vars, TypeInv, machine, station, server, driver, mailbox
<1> QED BY <1>3, <1>4, <1>5, <1>6, <1>7, <1>8, <1>9, <1>10, <1>11 DEF Next, Orchestrate, HandleMessage

LEMMA ViewNext ==
  ASSUME TypeInv, ViewInv, [Next]_vars
  PROVE  ViewInv'
<1>1. TypeInv
  OBVIOUS
<1>2. CASE OnButton \/ OnSubmitted \/ OnTuner \/ OnUpdate
  BY <1>1, <1>2, OtherMessagesView
<1>3. CASE OnConnected
  BY <1>1, <1>3, ConnectedView
<1>4. CASE OnDisconnected
  BY <1>1, <1>4, DisconnectedView
<1>5. CASE OnGotIp
  BY <1>1, <1>5, GotIpView
<1>6. CASE HandleTimeout
  BY <1>1, <1>6, TimeoutView
<1>7. CASE TimerExpires \/ ScanBegin \/ ScanEnd \/ SubmitStatus \/ (\E c \in Creds : SubmitCheck(c))
           \/ UNCHANGED vars
  <2>1. Quiet /\ UNCHANGED <<state, assoc, hasIp, httpUp, identity, link, dropped>>
    BY <1>7 DEF TimerExpires, ScanBegin, ScanEnd, SubmitStatus, SubmitCheck, vars, machine, station,
       services, driver, mailbox, Quiet
  <2> QED BY <1>1, <2>1, SameView
<1>8. CASE LinkUp
  BY <1>1, <1>8, UpView
<1>9. CASE LinkFails \/ LinkLost \/ LinkLeft
  BY <1>1, <1>9, DownView
<1>10. CASE Assigns
  BY <1>1, <1>10, AddressView
<1>11. CASE SubmitPost
  <2>1. /\ Post("submitted", form) /\ UNCHANGED <<state, assoc, hasIp, httpUp, identity, link>>
        /\ form \in MaybeCreds
    BY <1>1, <1>11 DEF SubmitPost, machine, station, services, driver, TypeInv
  <2>2. "submitted" \in MessageTypes \ Reports
    BY DEF MessageTypes, Reports
  <2> QED BY <1>1, <2>1, <2>2, OthersPost
<1>12. CASE HandleButtonRequest \/ HandleUpdateGesture \/ PostTunerMessage
  <2>1. PICK type \in {"button", "update", "tuner"} : Request(type)
    BY <1>12 DEF HandleButtonRequest, HandleUpdateGesture, PostTunerMessage
  <2>2. /\ Post(type, NoCreds) /\ UNCHANGED <<state, assoc, hasIp, httpUp, identity, link>>
        /\ type \in MessageTypes \ Reports /\ NoCreds \in MaybeCreds
    BY <2>1 DEF Request, machine, station, services, MessageTypes, Reports, MaybeCreds
  <2> QED BY <1>1, <2>2, OthersPost
<1> QED BY <1>2, <1>3, <1>4, <1>5, <1>6, <1>7, <1>8, <1>9, <1>10, <1>11, <1>12
     DEF Next, Orchestrate, HandleMessage, WebStep, DriverReports

\* With an empty queue the flags, the state and the identity of the origin check
\* agree with the driver, whatever order reports and timeouts came in.
THEOREM ViewSafety == Spec => []ViewCatchesUp
<1>1. ASSUME TypeInv, ViewInv PROVE ViewCatchesUp
  <2> SUFFICES ASSUME queue = <<>>, ~dropped, link.phase # "leaving"
               PROVE  /\ assoc <=> link.phase = "up"
                      /\ hasIp <=> link.addr # 0
                      /\ state = "CONNECTED" => link.phase = "up"
                      /\ link.phase = "up" => state \in {"CONNECTED", "PORTAL_SUCCESS"}
                      /\ httpUp /\ link.addr # 0 => identity = link.addr
    BY DEF ViewCatchesUp
  <2>1. \A t : At(queue, t) = {}
    BY DEF At
  <2>2. \A on, off, flag : Becomes(queue, on, off, flag) => flag
    BY BecomesFacts
  <2>3. link.phase \in {"off", "trying", "up"}
    BY <1>1 DEF TypeInv, Link
  <2>4. assoc <=> link.phase = "up"
    BY <1>1, <2>2, <2>3 DEF ViewInv, ViewTypes, FlagInv
  <2>5. hasIp <=> link.addr # 0
    BY <1>1, <2>2 DEF ViewInv, ViewTypes, FlagInv
  <2>6. /\ state = "CONNECTED" => link.phase = "up"
        /\ link.phase = "up" => state \in {"CONNECTED", "PORTAL_SUCCESS"}
        /\ httpUp /\ link.addr # 0 => identity = link.addr
    BY <1>1, <2>1, <2>2 DEF ViewInv, StateInv, Linked
  <2> QED BY <2>4, <2>5, <2>6
<1>2. TypeInv /\ ViewInv /\ [Next]_vars => TypeInv' /\ ViewInv'
  BY TypeNext, ViewNext
<1>3. Init => TypeInv
  BY NetworkInit DEF NetworkInv
<1> QED BY <1>1, <1>2, <1>3, ViewInit, PTL DEF Spec
=============================================================================
