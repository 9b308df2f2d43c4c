--------------------------- MODULE DeviceRegistry ---------------------------
(***************************************************************************)
(* UsbCommunicationService's list of USB devices: how it follows the       *)
(* broadcasts that UsbCommunicationReceiver turns into calls, the two      *)
(* reads of UsbManager.deviceList in refreshDeviceInfo, permission         *)
(* requests and their answers, and the one client the list is sent to.     *)
(*                                                                         *)
(* The service runs on the main thread; UsbManager, the permission dialogs *)
(* and the clients are other processes and move between its steps.         *)
(***************************************************************************)
EXTENDS Naturals, FiniteSets

CONSTANTS
    Devices,       \* USB devices; a device id is not used again after unplug
    Clients,       \* client processes
    Compatible,    \* those that send this service's API_VERSION
    Requests,      \* bound: the permission requests of a behaviour
    None           \* no device, no client

ASSUME CompatibleAssumption == Compatible \subseteq Clients
ASSUME NoneAssumption == None \notin Devices \cup Clients

VARIABLES
    (* UsbManager and the user *)
    attached,      \* UsbManager.deviceList
    removed,       \* devices that were unplugged
    granted,       \* devices this app may use (hasPermission)
    requestState,  \* each request: "unused", "open", "granted" or "denied"
    requestDevice, \* the device it asks for
    (* on their way to the main thread *)
    broadcasts,
    inbox,         \* SERVICE_CONNECTION_COMMANDs, by sender
    (* the service *)
    service,       \* "down", "creating" or "up"
    refresh,       \* arguments of the refreshDeviceInfo in progress
    permission,    \* usbDeviceInfo: the permission shown, or "absent"
    connectedApp,
    (* the clients *)
    alive,
    told,          \* clients that were ever sent a list
    view           \* the last list sent to each client

usbVars == <<attached, removed, granted, requestState, requestDevice>>
clientVars == <<alive, told, view>>
vars == <<usbVars, broadcasts, inbox, service, refresh, permission,
          connectedApp, clientVars>>

Permissions == {"absent", "NEED_REQUEST", "ALLOWED", "DENIED_BY_USER"}
EmptyList == [d \in Devices |-> "absent"]

\* Arguments of refreshDeviceInfo; announce: sendDeviceStatusesForClient
\* follows.  Idle: the main thread is not inside a refresh.
Idle == [device |-> None, granted |-> FALSE, announce |-> FALSE,
         busy |-> FALSE]
Call(d, answer, announce) ==
    [device |-> d, granted |-> answer, announce |-> announce, busy |-> TRUE]

MainFree == service = "up" /\ ~refresh.busy

Change(kind, d) == [kind |-> kind, device |-> d]
Answer(r, answer) == [kind |-> "answer", request |-> r, granted |-> answer]

\* Only a registered receiver is sent a broadcast.
Broadcast(messages) ==
    broadcasts' = IF service = "down" THEN broadcasts
                  ELSE broadcasts \cup messages

Init ==
    /\ attached = {} /\ removed = {} /\ granted = {}
    /\ requestState = [r \in Requests |-> "unused"]
    /\ requestDevice = [r \in Requests |-> None]
    /\ broadcasts = {} /\ inbox = {}
    /\ service = "down" /\ refresh = Idle /\ permission = EmptyList
    /\ connectedApp = None
    /\ alive = Clients /\ told = {} /\ view = [c \in Clients |-> EmptyList]

-----------------------------------------------------------------------------
(* The USB system and the user.                                            *)

Attach(d) ==
    /\ d \notin attached \cup removed
    /\ attached' = attached \cup {d}
    /\ Broadcast({Change("attached", d)})
    /\ UNCHANGED <<removed, granted, requestState, requestDevice, inbox,
                   service, refresh, permission, connectedApp, clientVars>>

\* Unplugging takes the permission away and closes the dialogs of the device
\* as refused.
OpenFor(d) ==
    {r \in Requests : requestState[r] = "open" /\ requestDevice[r] = d}

Detach(d) ==
    /\ d \in attached
    /\ attached' = attached \ {d}
    /\ removed' = removed \cup {d}
    /\ granted' = granted \ {d}
    /\ requestState' = [r \in Requests |-> IF r \in OpenFor(d) THEN "denied"
                                           ELSE requestState[r]]
    /\ Broadcast({Change("detached", d)}
                 \cup {Answer(r, FALSE) : r \in OpenFor(d)})
    /\ UNCHANGED <<requestDevice, inbox, service, refresh, permission,
                   connectedApp, clientVars>>

\* The user answers a dialog.
UserAnswers(r, answer) ==
    /\ requestState[r] = "open"
    /\ requestState' = [requestState EXCEPT
                          ![r] = IF answer THEN "granted" ELSE "denied"]
    /\ granted' = IF answer THEN granted \cup {requestDevice[r]} ELSE granted
    /\ Broadcast({Answer(r, answer)})
    /\ UNCHANGED <<attached, removed, requestDevice, inbox, service, refresh,
                   permission, connectedApp, clientVars>>

-----------------------------------------------------------------------------
(* Clients.                                                                *)

ClientConnects(c) ==
    /\ c \in alive /\ service = "up"
    /\ inbox' = inbox \cup {c}
    /\ UNCHANGED <<usbVars, broadcasts, service, refresh, permission,
                   connectedApp, clientVars>>

\* The service is not notified: it never links to the client's death.
ClientDies(c) ==
    /\ c \in alive
    /\ alive' = alive \ {c}
    /\ UNCHANGED <<usbVars, broadcasts, inbox, service, refresh, permission,
                   connectedApp, told, view>>

-----------------------------------------------------------------------------
(* The service.                                                            *)

\* The service is gone: destroyed, or dead with its process.
GoDown ==
    /\ service' = "down" /\ refresh' = Idle /\ permission' = EmptyList
    /\ connectedApp' = None /\ broadcasts' = {} /\ inbox' = {}
    /\ UNCHANGED <<usbVars, clientVars>>

\* sendDeviceStatusesForClient with the list as it is now.
SendList(app, list) ==
    /\ told' = IF app = None THEN told ELSE told \cup {app}
    /\ view' = IF app = None THEN view ELSE [view EXCEPT ![app] = list]
    /\ UNCHANGED alive

\* Messenger.send to a dead client throws; nobody catches it.
Reachable(app) == app = None \/ app \in alive

\* Mutant: devices are never dropped from the list.
PruneNothing(list) == list

\* First read of deviceList: entries of devices that are gone are dropped.
Prune(list) == [d \in Devices |-> IF d \in attached THEN list[d] ELSE "absent"]

\* Mutants: a value that is no PERMISSION_STATE; hasPermission not asked.
AddNewUnknown(list) ==
    [d \in Devices |->
        IF list[d] # "absent" \/ d \notin attached THEN list[d] ELSE "UNKNOWN"]

AddNewAllowed(list) ==
    [d \in Devices |->
        IF list[d] # "absent" \/ d \notin attached THEN list[d] ELSE "ALLOWED"]

\* Mutant: only refusals are written over the entry.
OverrideRefusals(list, call) ==
    IF call.device # None /\ list[call.device] # "absent" /\ ~call.granted
    THEN [list EXCEPT ![call.device] = "DENIED_BY_USER"]
    ELSE list

\* Second read: new devices are added with what hasPermission says, then the
\* answer of a request, if there is one, is written over its device's entry.
AddNew(list) ==
    [d \in Devices |->
        IF list[d] # "absent" \/ d \notin attached THEN list[d]
        ELSE IF d \in granted THEN "ALLOWED" ELSE "NEED_REQUEST"]

Override(list, call) ==
    IF call.device # None /\ list[call.device] # "absent"
    THEN [list EXCEPT ![call.device] =
            IF call.granted THEN "ALLOWED" ELSE "DENIED_BY_USER"]
    ELSE list

\* onCreate: the receiver is registered before the first refresh.
Create ==
    /\ service = "down"
    /\ service' = "creating"
    /\ refresh' = Call(None, FALSE, FALSE)
    /\ permission' = Prune(permission)
    /\ UNCHANGED <<usbVars, broadcasts, inbox, connectedApp, clientVars>>

\* Mutants: plugging is told with the device's own id; it is not announced.
CallForWithId(message) ==
    IF message.kind = "answer"
    THEN Call(requestDevice[message.request], message.granted, TRUE)
    ELSE Call(message.device, FALSE, TRUE)

CallForSilent(message) ==
    IF message.kind = "answer"
    THEN Call(requestDevice[message.request], message.granted, TRUE)
    ELSE Call(None, FALSE, FALSE)

\* UsbCommunicationReceiver.onReceive: what connectedDevicesChanged is called
\* with.  Plugging and unplugging are told with device id 0.
CallFor(message) ==
    IF message.kind = "answer"
    THEN Call(requestDevice[message.request], message.granted, TRUE)
    ELSE Call(None, FALSE, TRUE)

Receive(message) ==
    /\ MainFree
    /\ message \in broadcasts
    /\ broadcasts' = broadcasts \ {message}
    /\ refresh' = CallFor(message)
    /\ permission' = Prune(permission)
    /\ UNCHANGED <<usbVars, inbox, service, connectedApp, clientVars>>

\* The rest of refreshDeviceInfo and of its caller.
Refreshed == Override(AddNew(permission), refresh)

\* Mutant: the list is sent before it is brought up to date.
FinishRefreshLate ==
    /\ refresh.busy
    /\ refresh.announce => Reachable(connectedApp)
    /\ permission' = Refreshed
    /\ IF refresh.announce THEN SendList(connectedApp, permission)
       ELSE UNCHANGED clientVars
    /\ refresh' = Idle
    /\ service' = "up"
    /\ UNCHANGED <<usbVars, broadcasts, inbox, connectedApp>>

FinishRefresh ==
    /\ refresh.busy
    /\ refresh.announce => Reachable(connectedApp)
    /\ permission' = Refreshed
    /\ IF refresh.announce THEN SendList(connectedApp, Refreshed)
       ELSE UNCHANGED clientVars
    /\ refresh' = Idle
    /\ service' = "up"
    /\ UNCHANGED <<usbVars, broadcasts, inbox, connectedApp>>

\* Mutant: the version is not compared.
AcceptAnyVersion(c) ==
    /\ MainFree
    /\ c \in inbox /\ c \in alive
    /\ connectedApp' = c
    /\ SendList(c, permission)
    /\ inbox' = inbox \ {c}
    /\ UNCHANGED <<usbVars, broadcasts, service, refresh, permission>>

\* SERVICE_CONNECTION_COMMAND.
AcceptClient(c) ==
    /\ MainFree
    /\ c \in inbox \cap Compatible /\ c \in alive
    /\ connectedApp' = c
    /\ SendList(c, permission)
    /\ inbox' = inbox \ {c}
    /\ UNCHANGED <<usbVars, broadcasts, service, refresh, permission>>

\* A client of another version is only told so.
RejectClient(c) ==
    /\ MainFree
    /\ c \in inbox \ Compatible /\ c \in alive
    /\ inbox' = inbox \ {c}
    /\ UNCHANGED <<usbVars, broadcasts, service, refresh, permission,
                   connectedApp, clientVars>>

\* The command came without a replyTo: the client before it is forgotten.
AcceptNobody(c) ==
    /\ MainFree
    /\ c \in inbox \cap Compatible
    /\ connectedApp' = None
    /\ inbox' = inbox \ {c}
    /\ UNCHANGED <<usbVars, broadcasts, service, refresh, permission,
                   clientVars>>

\* DEVICE_GRAND_PERMISSION_COMMAND: without effect if the device is gone;
\* answered at once if the permission is already there.
RequestPermission(r, d) ==
    /\ MainFree
    /\ d \in attached
    /\ requestState[r] = "unused"
    /\ requestState' = [requestState EXCEPT
                          ![r] = IF d \in granted THEN "granted" ELSE "open"]
    /\ requestDevice' = [requestDevice EXCEPT ![r] = d]
    /\ IF d \in granted THEN Broadcast({Answer(r, TRUE)})
       ELSE UNCHANGED broadcasts
    /\ UNCHANGED <<attached, removed, granted, inbox, service, refresh,
                   permission, connectedApp, clientVars>>

\* A send to a dead client, at the end of a refresh or in reply.
SendFails ==
    /\ \/ refresh.busy /\ refresh.announce /\ ~Reachable(connectedApp)
       \/ MainFree /\ \E c \in inbox : c \notin alive
    /\ GoDown

\* onDestroy.
Destroy == MainFree /\ GoDown

-----------------------------------------------------------------------------
Environment ==
    \/ \E d \in Devices : Attach(d) \/ Detach(d)
    \/ \E r \in Requests, answer \in BOOLEAN : UserAnswers(r, answer)
    \/ \E c \in Clients : ClientConnects(c) \/ ClientDies(c)

Serve ==
    \/ \E message \in broadcasts : Receive(message)
    \/ FinishRefresh
    \/ \E c \in Clients : AcceptClient(c) \/ RejectClient(c) \/ AcceptNobody(c)
    \/ SendFails

Next ==
    \/ Environment
    \/ Serve
    \/ \E r \in Requests, d \in Devices : RequestPermission(r, d)
    \/ Create
    \/ Destroy

Spec == Init /\ [][Next]_vars

\* The main thread works off what reaches it.
FairSpec ==
    /\ Spec
    /\ WF_vars(FinishRefresh \/ SendFails)
    /\ \A d \in Devices, kind \in {"attached", "detached"} :
          SF_vars(Receive(Change(kind, d)))

-----------------------------------------------------------------------------
Messages ==
    [kind : {"attached", "detached"}, device : Devices]
    \cup [kind : {"answer"}, request : Requests, granted : BOOLEAN]

TypeOK ==
    /\ attached \subseteq Devices /\ removed \subseteq Devices
    /\ granted \subseteq attached
    /\ requestState \in [Requests -> {"unused", "open", "granted", "denied"}]
    /\ requestDevice \in [Requests -> Devices \cup {None}]
    /\ broadcasts \subseteq Messages
    /\ inbox \subseteq Clients
    /\ service \in {"down", "creating", "up"}
    /\ refresh \in [device : Devices \cup {None}, granted : BOOLEAN,
                    announce : BOOLEAN, busy : BOOLEAN]
    /\ permission \in [Devices -> Permissions]
    /\ connectedApp \in Clients \cup {None}
    /\ alive \subseteq Clients /\ told \subseteq Clients
    /\ view \in [Clients -> [Devices -> Permissions]]

Listed(d) == permission[d] # "absent"

\* Whatever the two reads of deviceList saw, a device that is listed and gone,
\* or there and not listed, has a broadcast on its way that will correct it.
ListFollowsDevices ==
    MainFree =>
        \A d \in Devices :
            (Listed(d) <=> d \in attached)
            \/ \E kind \in {"attached", "detached"} :
                  Change(kind, d) \in broadcasts

\* A device shown as allowed can be opened, as long as it is there.
AllowedIsGranted ==
    \A d \in attached : permission[d] = "ALLOWED" => d \in granted

\* A permission the user gave is not asked for again once its answer arrived.
AnswerPending(d) ==
    \E message \in broadcasts :
        message.kind = "answer" /\ requestDevice[message.request] = d
GrantIsNoticed ==
    MainFree =>
        \A d \in granted :
            permission[d] = "NEED_REQUEST" => AnswerPending(d)

\* A device is shown as refused only if a request for that very device was
\* refused: plugging another one, or its late answer, never marks it.
DeniedByUserOnly ==
    \A d \in Devices :
        permission[d] = "DENIED_BY_USER" =>
            \E r \in Requests :
                requestDevice[r] = d /\ requestState[r] = "denied"

\* Between two messages the connected client's copy is the service's list; no
\* client of another API version is ever sent one.
ClientUpToDate ==
    /\ told \subseteq Compatible
    /\ MainFree /\ connectedApp # None => view[connectedApp] = permission

\* A device that is plugged in reaches the connected client, unless it is
\* unplugged or the client or the service changes first.
DeviceShown ==
    \A d \in Devices, c \in Clients :
        (d \in attached /\ connectedApp = c)
        ~> (view[c][d] # "absent" \/ d \notin attached \/ connectedApp # c)
=============================================================================
