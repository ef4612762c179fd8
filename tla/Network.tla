------------------------------ MODULE Network ------------------------------
(***************************************************************************)
(* Switching the network on and off (src/main.cpp, lib/network).  A BLE    *)
(* command does it on the NimBLE host task and the console on the loop     *)
(* task, and nothing keeps the two apart but networkUp, which is read      *)
(* first and written last; joining a WiFi network takes up to 15 s.        *)
(*                                                                         *)
(* A switch is a list of steps still to be done by its task, one call of   *)
(* onEnableNetwork() or onDisableNetwork() each.  A service is what its    *)
(* begin() and end() leave behind.                                         *)
(***************************************************************************)
EXTENDS Naturals, Sequences, FiniteSets

CONSTANTS
  Tasks,       \* a subset of {"loop", "host"}
  Clients,     \* of the TCP server
  MaxSwitches, \* bound of the model: switches that are begun
  Configured   \* wifi.ssid is a subset of {"softap", "boat"}: what it may be

ASSUME NetworkAssumption ==
  Tasks \subseteq {"loop", "host"} /\ MaxSwitches \in Nat

VARIABLES
  networkUp,
  pending,    \* of each task: steps of the switch it is making
  running,    \* services that have been begun and not ended
  radio,      \* "off", "ap", "searching" or "station"
  softAP,     \* Wifi::softAP
  resolvedIP, \* DNSServer::_resolvedIP is set
  onClient,   \* AsyncServer has the handler of new clients
  clients,    \* AsyncTcpServer::clients
  switches,
  last        \* history: the switch made alone and completed last, if it was the last

wifiVars   == <<radio, softAP>>
tcpVars    == <<onClient, clients>>
stateVars  == <<networkUp, running, wifiVars, resolvedIP, tcpVars>>
networkVars == <<stateVars, pending, switches, last>>

Services == {"mdns", "echo", "tcp", "udp", "dns", "http"}

On(service)  == <<"on", service>>
Off(service) == <<"off", service>>

\* Mutant of Enable: the captive portal's DNS is started while WiFi is joined.
EnableDnsEarly ==
  <<On("wifi"), On("dns"), On("joined"), On("mdns"), On("echo"), On("tcp"), On("udp"),
    On("http"), On("flag")>>
\* Mutant of Disable: the echo server is left running.
DisableNoEcho ==
  <<Off("http"), Off("dns"), Off("udp"), Off("tcp"), Off("mdns"), Off("wifi"), Off("flag")>>

\* onEnableNetwork() and onDisableNetwork(), if networkUp allows.
Enable ==
  <<On("wifi"), On("joined"), On("mdns"), On("echo"), On("tcp"), On("udp"), On("dns"),
    On("http"), On("flag")>>
Disable ==
  <<Off("http"), Off("dns"), Off("udp"), Off("tcp"), Off("echo"), Off("mdns"), Off("wifi"),
    Off("flag")>>

\* CheckCommand(), case 'A'.
ToStation == <<Off("dns"), On("station"), On("waited")>>
ToAP      == <<On("ap"), On("dns")>>

Switching(t) == pending[t] # <<>>
Alone(t) == \A u \in Tasks \ {t} : ~Switching(u)

----------------------------------------------------------------------------
(* Commands. *)

Begin(t, steps) ==
  /\ ~Switching(t) /\ switches < MaxSwitches
  /\ pending' = [pending EXCEPT ![t] = steps]
  /\ switches' = switches + 1
  /\ last' = IF Alone(t) THEN <<"begun", Head(steps)>> ELSE <<"mixed">>
  /\ UNCHANGED stateVars

\* handleBleCommand(): BW_CMD_ENABLE_NETWORK, BW_CMD_DISABLE_NETWORK
BleCommand ==
  /\ "host" \in Tasks
  /\ \/ ~networkUp /\ Begin("host", Enable)
     \/ networkUp /\ Begin("host", Disable)

\* CheckCommand(): 'N' and 'A'
ConsoleN == "loop" \in Tasks /\ Begin("loop", IF networkUp THEN Disable ELSE Enable)
ConsoleA == "loop" \in Tasks /\ Begin("loop", IF softAP THEN ToStation ELSE ToAP)

----------------------------------------------------------------------------
(* The steps. *)

\* Mutant of StartAP: the access point is not marked.
StartAPUnmarked == radio' = "ap" /\ UNCHANGED softAP

\* Wifi::startAP() and Wifi::begin() without startSTA()
StartAP == radio' = "ap" /\ softAP' = TRUE

\* Wifi::begin(), as far as WiFi.begin(): an access point, or a network to join
StartWifi ==
  \/ "softap" \in Configured /\ StartAP
  \/ "boat" \in Configured /\ radio' = "searching" /\ UNCHANGED softAP

\* startSTA() has waited.  begin() falls back to the access point.
Joined ==
  \/ radio \in {"searching", "station"} /\ radio' = "station" /\ softAP' = FALSE
  \/ radio # "station" /\ StartAP

\* 'A' does not: the station goes on trying, and softAP stays.
Waited ==
  /\ radio' \in (IF radio = "searching" THEN {"searching", "station"} ELSE {radio})
  /\ UNCHANGED softAP

\* DNSServer::start(): an address of the access point is kept for good.
DnsCanStart == resolvedIP \/ radio = "ap"

\* begin() of each service, and of wifi in its parts.
BeginService(service) ==
  /\ running' = IF service \in Services /\ (service = "dns" => DnsCanStart)
                  THEN running \cup {service} ELSE running
  /\ resolvedIP' = (resolvedIP \/ (service = "dns" /\ DnsCanStart))
  /\ CASE service = "wifi"    -> StartWifi
       [] service = "joined"  -> Joined
       [] service = "waited"  -> Waited
       [] service = "station" -> radio' = "searching" /\ UNCHANGED softAP
       [] service = "ap"      -> StartAP
       [] OTHER               -> UNCHANGED wifiVars
  /\ networkUp' = (networkUp \/ service = "flag")
  /\ UNCHANGED tcpVars

\* end() of each service.  AsyncTcpServer::end() drops its clients and its handler.
EndService(service) ==
  /\ running' = running \ {service}
  /\ radio' = IF service = "wifi" THEN "off" ELSE radio
  /\ onClient' = (onClient /\ service # "tcp")
  /\ clients' = IF service = "tcp" THEN {} ELSE clients
  /\ networkUp' = (networkUp /\ service # "flag")
  /\ UNCHANGED <<softAP, resolvedIP>>

\* An access point has nothing to join.
After(steps) == IF Head(steps) = On("wifi") /\ radio' = "ap" THEN Tail(Tail(steps)) ELSE Tail(steps)

Step(t) ==
  LET step == Head(pending[t])
  IN
  /\ Switching(t)
  /\ IF step[1] = "on" THEN BeginService(step[2]) ELSE EndService(step[2])
  /\ pending' = [pending EXCEPT ![t] = After(@)]
  /\ last' = IF ~Alone(t) THEN <<"mixed">>
             ELSE IF last[1] = "begun" /\ pending'[t] = <<>> THEN <<"done", last[2]>>
             ELSE last
  /\ UNCHANGED switches

----------------------------------------------------------------------------
(* AsyncTCP: clients come and go. *)

Connect(c) ==
  /\ "tcp" \in running /\ onClient /\ c \notin clients
  /\ clients' = clients \cup {c}
  /\ UNCHANGED <<networkUp, running, wifiVars, resolvedIP, onClient, pending, switches, last>>

\* onDisconnect, onError or onTimeout: close() and deRegisterClient()
Close(c) ==
  /\ c \in clients
  /\ clients' = clients \ {c}
  /\ UNCHANGED <<networkUp, running, wifiVars, resolvedIP, onClient, pending, switches, last>>

NetworkInit ==
  /\ networkUp = FALSE
  /\ pending = [t \in Tasks |-> <<>>]
  /\ running = {}
  /\ radio = "off" /\ softAP = FALSE
  /\ resolvedIP = FALSE
  /\ onClient = TRUE /\ clients = {}
  /\ switches = 0
  /\ last = <<"none">>

NetworkStep ==
  \/ BleCommand
  \/ ConsoleN
  \/ ConsoleA
  \/ \E t \in Tasks : Step(t)
  \/ \E c \in Clients : Connect(c) \/ Close(c)

----------------------------------------------------------------------------
(* Properties.  Two switches at once can leave any mixture behind; what one *)
(* does that is made alone must hold whatever mixture it starts from.       *)

\* onEnableNetwork(), alone: every service runs, the captive portal's DNS among them
\* when there is an access point, and networkUp says so.
OnMeansOn ==
  last = <<"done", On("wifi")>> =>
    /\ networkUp
    /\ Services \ {"dns"} \subseteq running
    /\ radio = "ap" => "dns" \in running

\* onDisableNetwork(), alone: no service runs, no client is listed, and the radio is off.
OffMeansOff ==
  last = <<"done", Off("http")>> =>
    ~networkUp /\ running = {} /\ clients = {} /\ radio = "off"

\* After wifi.begin(), alone, softAP says which mode WiFi is in: getBroadcastIP()
\* and the console's 'A' go by it.
ModeKnown ==
  last = <<"done", On("wifi")>> => (softAP <=> radio = "ap")

\* A switch made alone leaves the services, the flag and softAP as it should.  Of the connections
\* that come later it says nothing: the TCP server does not list them any more (onClient).
SwitchHolds == OnMeansOn /\ OffMeansOff /\ ModeKnown
=============================================================================
