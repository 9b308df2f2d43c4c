------------------------ MODULE DeviceRegistryProofs ------------------------
(***************************************************************************)
(* Proofs about DeviceRegistry, for all sets of devices, clients and       *)
(* permission requests: types, and every safety property of its runs, from *)
(* the inductive invariant RInv.                                           *)
(***************************************************************************)
EXTENDS DeviceRegistry, TLAPS

-----------------------------------------------------------------------------
(* The inductive invariant, in named parts.                                *)

\* A request asks for a device that was plugged in; it is open only while the
\* device is there, and what it granted stays granted that long.
RequestInv ==
    /\ attached \cap removed = {}
    /\ \A r \in Requests :
         /\ requestState[r] # "unused" => requestDevice[r] \in attached \cup removed
         /\ requestState[r] = "open" => requestDevice[r] \in attached
         /\ requestState[r] = "granted" => requestDevice[r] \in granted \cup removed

\* What is known of a request: the answer that is on its way, or worked on.
Answered(r, answer) == requestState[r] = IF answer THEN "granted" ELSE "denied"

MessageInv ==
    \A message \in broadcasts :
        message.kind = "answer" => Answered(message.request, message.granted)

RefreshInv ==
    /\ ~refresh.busy => refresh = Idle
    /\ refresh.device # None =>
         \E r \in Requests : /\ requestDevice[r] = refresh.device
                             /\ Answered(r, refresh.granted)

\* A service that is not up knows no client; a refresh that is not announced
\* is the one of onCreate.
ServiceInv ==
    /\ service = "down" => ~refresh.busy /\ permission = EmptyList
    /\ service = "creating" => refresh.busy
    /\ service # "up" => connectedApp = None
    /\ refresh.busy /\ ~refresh.announce => connectedApp = None
    /\ connectedApp \in Compatible \cup {None}

\* The first read of deviceList leaves nothing wrong but what has a broadcast
\* on its way; the second leaves nothing out.
ListInv ==
    \A d \in Devices :
        /\ Listed(d) => d \in attached \cup removed
        /\ Listed(d) /\ d \notin attached => Change("detached", d) \in broadcasts
        /\ MainFree /\ d \in attached =>
              Listed(d) \/ Change("attached", d) \in broadcasts

\* The answer a device that is shown without its permission waits for may be
\* worked on, too.
NoticeInv ==
    \A d \in granted :
        permission[d] = "NEED_REQUEST" => AnswerPending(d) \/ refresh.device = d

RInv ==
    /\ TypeOK
    /\ RequestInv
    /\ MessageInv
    /\ RefreshInv
    /\ ServiceInv
    /\ ListInv
    /\ AllowedIsGranted
    /\ NoticeInv
    /\ DeniedByUserOnly
    /\ ClientUpToDate

-----------------------------------------------------------------------------
LEMMA InitRInv == Init => RInv
<1> USE DEF Init, Idle, EmptyList
<1>1. Init => TypeOK
  BY DEF TypeOK, Permissions
<1>2. Init => RequestInv /\ MessageInv /\ RefreshInv /\ ServiceInv
  BY DEF RequestInv, MessageInv, RefreshInv, ServiceInv
<1>3. Init => ListInv /\ AllowedIsGranted /\ NoticeInv /\ DeniedByUserOnly
  BY DEF ListInv, Listed, MainFree, AllowedIsGranted, NoticeInv, DeniedByUserOnly
<1>4. Init => ClientUpToDate
  BY DEF ClientUpToDate, MainFree
<1> QED
  BY <1>1, <1>2, <1>3, <1>4 DEF RInv

\* Messages of the two kinds are told apart, and have their types.
LEMMA MessageFacts ==
  /\ \A kind, d, r, answer : Change(kind, d) = Answer(r, answer) => kind = "answer"
  /\ \A kind \in {"attached", "detached"}, d \in Devices : Change(kind, d) \in Messages
  /\ \A r \in Requests, answer \in BOOLEAN : Answer(r, answer) \in Messages
  /\ \A kind, d : Change(kind, d).kind = kind
  /\ \A r, answer : /\ Answer(r, answer).kind = "answer"
                    /\ Answer(r, answer).request = r
                    /\ Answer(r, answer).granted = answer
BY DEF Change, Answer, Messages

LEMMA MessageTypes ==
  ASSUME NEW message \in Messages
  PROVE  \/ message.kind \in {"attached", "detached"}
         \/ /\ message.kind = "answer" /\ message.request \in Requests
            /\ message.granted \in BOOLEAN
BY DEF Messages

-----------------------------------------------------------------------------
(* The USB system, the user and the clients.                               *)

\* A broadcast of the right messages keeps what is known of messages.
LEMMA BroadcastFacts ==
  ASSUME TypeOK, NEW new \in SUBSET Messages, Broadcast(new)
  PROVE  /\ broadcasts' \subseteq broadcasts \cup new
         /\ broadcasts' \subseteq Messages
         /\ service # "down" => broadcasts \cup new \subseteq broadcasts'
BY DEF TypeOK, Broadcast

LEMMA AttachRInv ==
  ASSUME RInv, NEW d \in Devices, Attach(d)
  PROVE  RInv'
<1> USE DEF Attach, clientVars
<1>1. /\ broadcasts' \subseteq broadcasts \cup {Change("attached", d)}
      /\ broadcasts' \subseteq Messages
      /\ service # "down" =>
           broadcasts \cup {Change("attached", d)} \subseteq broadcasts'
  BY BroadcastFacts, MessageFacts DEF RInv
<1>2. TypeOK'
  BY <1>1 DEF RInv, TypeOK
<1>3. RequestInv'
  BY DEF RInv, RequestInv
<1>4. MessageInv' /\ RefreshInv'
  BY <1>1, MessageFacts DEF RInv, MessageInv, RefreshInv, Answered
<1>5. ServiceInv'
  BY DEF RInv, ServiceInv
<1>6. ListInv'
  BY <1>1, MessageFacts DEF RInv, ListInv, Listed, MainFree, ServiceInv, EmptyList
<1>7. AllowedIsGranted'
  BY DEF RInv, AllowedIsGranted, ListInv, Listed
<1>8. NoticeInv'
  BY <1>1 DEF RInv, NoticeInv, AnswerPending, ServiceInv, EmptyList, TypeOK
<1>9. DeniedByUserOnly' /\ ClientUpToDate'
  BY DEF RInv, DeniedByUserOnly, ClientUpToDate, MainFree
<1> QED
  BY <1>2, <1>3, <1>4, <1>5, <1>6, <1>7, <1>8, <1>9 DEF RInv

LEMMA DetachRInv ==
  ASSUME RInv, NEW d \in Devices, Detach(d)
  PROVE  RInv'
<1> USE DEF Detach, clientVars
<1> DEFINE new == {Change("detached", d)} \cup {Answer(r, FALSE) : r \in OpenFor(d)}
<1>1. OpenFor(d) \subseteq Requests
  BY DEF OpenFor
<1>2. new \subseteq Messages
  BY <1>1, MessageFacts
<1>3. /\ broadcasts' \subseteq broadcasts \cup new
      /\ broadcasts' \subseteq Messages
      /\ service # "down" => broadcasts \cup new \subseteq broadcasts'
  BY <1>2, BroadcastFacts DEF RInv
<1>4. \A r \in Requests :
        /\ r \in OpenFor(d) => requestState[r] = "open" /\ requestState'[r] = "denied"
        /\ r \notin OpenFor(d) => requestState'[r] = requestState[r]
        /\ requestState[r] = "open" /\ requestDevice[r] = d => r \in OpenFor(d)
  BY DEF OpenFor
<1>5. TypeOK'
  BY <1>3, <1>4 DEF RInv, TypeOK
<1>6. RequestInv'
  BY <1>4 DEF RInv, RequestInv, TypeOK
<1>7. \A r \in Requests, answer \in BOOLEAN : Answered(r, answer) => Answered(r, answer)'
  BY <1>4 DEF Answered
<1>8. MessageInv'
  <2> SUFFICES ASSUME NEW message \in broadcasts', message.kind = "answer"
               PROVE  Answered(message.request, message.granted)'
    BY DEF MessageInv
  <2>1. CASE message \in broadcasts
    BY <2>1, <1>7, MessageTypes DEF RInv, MessageInv, TypeOK
  <2>2. CASE message \notin broadcasts
    <3>1. PICK r \in OpenFor(d) : message = Answer(r, FALSE)
      BY <2>2, <1>3, MessageFacts
    <3>2. message.request = r /\ message.granted = FALSE
      BY <3>1, MessageFacts
    <3>3. requestState'[r] = "denied"
      BY <1>1, <1>4
    <3> QED
      BY <3>2, <3>3 DEF Answered
  <2> QED
    BY <2>1, <2>2
<1>9. RefreshInv'
  BY <1>7 DEF RInv, RefreshInv, TypeOK
<1>10. ServiceInv'
  BY DEF RInv, ServiceInv
<1>11. ListInv'
  BY <1>3 DEF RInv, ListInv, Listed, MainFree, ServiceInv, EmptyList
<1>12. AllowedIsGranted'
  BY DEF RInv, AllowedIsGranted
<1>13. NoticeInv'
  BY <1>3 DEF RInv, NoticeInv, AnswerPending, ServiceInv, EmptyList, TypeOK
<1>14. DeniedByUserOnly'
  BY <1>4 DEF RInv, DeniedByUserOnly
<1>15. ClientUpToDate'
  BY DEF RInv, ClientUpToDate, MainFree
<1> QED
  BY <1>5, <1>6, <1>8, <1>9, <1>10, <1>11, <1>12, <1>13, <1>14, <1>15 DEF RInv

LEMMA UserAnswersRInv ==
  ASSUME RInv, NEW r \in Requests, NEW answer \in BOOLEAN, UserAnswers(r, answer)
  PROVE  RInv'
<1> USE DEF UserAnswers, clientVars
<1>1. /\ broadcasts' \subseteq broadcasts \cup {Answer(r, answer)}
      /\ broadcasts' \subseteq Messages
      /\ service # "down" => broadcasts \cup {Answer(r, answer)} \subseteq broadcasts'
  BY BroadcastFacts, MessageFacts DEF RInv
<1>2. /\ requestState'[r] = IF answer THEN "granted" ELSE "denied"
      /\ \A q \in Requests \ {r} : requestState'[q] = requestState[q]
      /\ requestDevice[r] \in attached
  BY DEF RInv, TypeOK, RequestInv
<1>3. TypeOK'
  BY <1>1, <1>2 DEF RInv, TypeOK
<1>4. RequestInv'
  BY <1>2 DEF RInv, RequestInv
<1>5. \A q \in Requests, a \in BOOLEAN : Answered(q, a) => Answered(q, a)'
  BY <1>2 DEF Answered
<1>6. MessageInv'
  <2> SUFFICES ASSUME NEW message \in broadcasts', message.kind = "answer"
               PROVE  Answered(message.request, message.granted)'
    BY DEF MessageInv
  <2>1. CASE message \in broadcasts
    BY <2>1, <1>5, MessageTypes DEF RInv, MessageInv, TypeOK
  <2>2. CASE message = Answer(r, answer)
    BY <2>2, <1>2, MessageFacts DEF Answered
  <2> QED
    BY <2>1, <2>2, <1>1
<1>7. RefreshInv'
  BY <1>5 DEF RInv, RefreshInv, TypeOK
<1>8. ServiceInv'
  BY DEF RInv, ServiceInv
<1>9. ListInv'
  BY <1>1 DEF RInv, ListInv, Listed, MainFree, ServiceInv, EmptyList
<1>10. AllowedIsGranted'
  BY DEF RInv, AllowedIsGranted
<1>11. NoticeInv'
  <2> SUFFICES ASSUME NEW d \in granted', permission[d] = "NEED_REQUEST"
               PROVE  AnswerPending(d)' \/ refresh.device = d
    BY DEF NoticeInv
  <2>1. d \in Devices /\ service # "down"
    BY <1>2 DEF RInv, TypeOK, ServiceInv, EmptyList
  <2>2. CASE d \in granted
    BY <2>1, <2>2, <1>1 DEF RInv, NoticeInv, AnswerPending
  <2>3. CASE d = requestDevice[r]
    BY <2>1, <2>3, <1>1, MessageFacts DEF AnswerPending
  <2> QED
    BY <2>2, <2>3
<1>12. DeniedByUserOnly'
  BY <1>2 DEF RInv, DeniedByUserOnly
<1>13. ClientUpToDate'
  BY DEF RInv, ClientUpToDate, MainFree
<1> QED
  BY <1>3, <1>4, <1>6, <1>7, <1>8, <1>9, <1>10, <1>11, <1>12, <1>13 DEF RInv

LEMMA ClientRInv ==
  ASSUME RInv, NEW c \in Clients, ClientConnects(c) \/ ClientDies(c)
  PROVE  RInv'
<1> USE DEF ClientConnects, ClientDies, usbVars, clientVars
<1>1. TypeOK'
  BY DEF RInv, TypeOK
<1>2. RequestInv' /\ MessageInv' /\ RefreshInv'
  BY DEF RInv, RequestInv, MessageInv, RefreshInv, Answered
<1>3. ServiceInv' /\ ListInv' /\ AllowedIsGranted' /\ NoticeInv'
  BY DEF RInv, ServiceInv, ListInv, Listed, MainFree, AllowedIsGranted,
         NoticeInv, AnswerPending
<1>4. DeniedByUserOnly' /\ ClientUpToDate'
  BY DEF RInv, DeniedByUserOnly, ClientUpToDate, MainFree
<1> QED
  BY <1>1, <1>2, <1>3, <1>4 DEF RInv

-----------------------------------------------------------------------------
(* The service: its end, its start, its messages.                          *)

LEMMA GoDownRInv ==
  ASSUME RInv, GoDown
  PROVE  RInv'
<1> USE DEF GoDown, usbVars, clientVars, Idle, EmptyList
<1>1. TypeOK'
  BY DEF RInv, TypeOK, Permissions
<1>2. RequestInv' /\ MessageInv' /\ RefreshInv' /\ ServiceInv'
  BY DEF RInv, RequestInv, MessageInv, RefreshInv, ServiceInv
<1>3. ListInv' /\ AllowedIsGranted' /\ NoticeInv' /\ DeniedByUserOnly'
  BY DEF RInv, TypeOK, ListInv, Listed, MainFree, AllowedIsGranted, NoticeInv,
         DeniedByUserOnly
<1>4. ClientUpToDate'
  BY DEF RInv, ClientUpToDate
<1> QED
  BY <1>1, <1>2, <1>3, <1>4 DEF RInv

\* The first half of a refresh: entries only disappear, and those that are
\* left are of devices that are there.
LEMMA PruneFacts ==
  ASSUME TypeOK, permission' = Prune(permission)
  PROVE  /\ permission' \in [Devices -> Permissions]
         /\ \A d \in attached \cap Devices : permission'[d] = permission[d]
         /\ \A d \in Devices \ attached : permission'[d] = "absent"
BY DEF TypeOK, Prune, Permissions

LEMMA CreateRInv ==
  ASSUME RInv, Create
  PROVE  RInv'
<1> USE DEF Create, usbVars, clientVars, Call
<1>1. /\ permission' \in [Devices -> Permissions]
      /\ \A d \in Devices : permission'[d] = "absent"
      /\ connectedApp = None
  <2>1. connectedApp = None /\ permission = EmptyList
    BY DEF RInv, ServiceInv
  <2>2. \A d \in Devices : permission[d] = "absent"
    BY <2>1 DEF EmptyList
  <2> QED
    BY <2>1, <2>2, PruneFacts DEF RInv
<1>2. TypeOK'
  BY <1>1 DEF RInv, TypeOK
<1>3. RequestInv' /\ MessageInv' /\ RefreshInv' /\ ServiceInv'
  BY <1>1 DEF RInv, RequestInv, MessageInv, RefreshInv, ServiceInv, Answered
<1>4. ListInv' /\ AllowedIsGranted' /\ NoticeInv' /\ DeniedByUserOnly'
  BY <1>1 DEF RInv, TypeOK, ListInv, Listed, MainFree, AllowedIsGranted,
              NoticeInv, DeniedByUserOnly
<1>5. ClientUpToDate'
  BY DEF RInv, ClientUpToDate, MainFree
<1> QED
  BY <1>2, <1>3, <1>4, <1>5 DEF RInv

LEMMA ReceiveRInv ==
  ASSUME RInv, NEW message \in broadcasts, Receive(message)
  PROVE  RInv'
<1> USE DEF Receive, usbVars, clientVars
<1>1. /\ permission' \in [Devices -> Permissions]
      /\ \A d \in attached \cap Devices : permission'[d] = permission[d]
      /\ \A d \in Devices \ attached : permission'[d] = "absent"
  BY PruneFacts DEF RInv
<1>2. /\ refresh'.busy /\ refresh'.announce /\ service = "up"
      /\ refresh' \in [device : Devices \cup {None}, granted : BOOLEAN,
                       announce : BOOLEAN, busy : BOOLEAN]
      /\ message.kind # "answer" => refresh'.device = None
      /\ message.kind = "answer" =>
           /\ message.request \in Requests
           /\ refresh'.device = requestDevice[message.request]
           /\ refresh'.granted = message.granted
  BY MessageTypes DEF RInv, TypeOK, CallFor, Call, MainFree
<1>3. TypeOK'
  BY <1>1, <1>2 DEF RInv, TypeOK
<1>4. RequestInv' /\ MessageInv'
  BY DEF RInv, RequestInv, MessageInv, Answered
<1>5. RefreshInv'
  BY <1>2 DEF RInv, RefreshInv, MessageInv, Answered
<1>6. ServiceInv'
  BY <1>2 DEF RInv, ServiceInv
<1>7. ListInv'
  <2>1. \A d \in Devices : permission'[d] # "absent" => d \in attached
    BY <1>1
  <2>2. ~MainFree'
    BY <1>2 DEF MainFree
  <2> QED
    BY <2>1, <2>2 DEF ListInv, Listed
<1>8. AllowedIsGranted' /\ DeniedByUserOnly'
  BY <1>1 DEF RInv, TypeOK, AllowedIsGranted, DeniedByUserOnly
<1>9. NoticeInv'
  <2> SUFFICES ASSUME NEW d \in granted, permission'[d] = "NEED_REQUEST"
               PROVE  AnswerPending(d)' \/ refresh'.device = d
    BY DEF NoticeInv
  <2>1. d \in Devices /\ d \in attached /\ d # None
    BY NoneAssumption DEF RInv, TypeOK
  <2>2. permission[d] = "NEED_REQUEST" /\ refresh = Idle
    BY <2>1, <1>1 DEF RInv, MainFree, RefreshInv
  <2>3. AnswerPending(d)
    BY <2>1, <2>2 DEF RInv, NoticeInv, Idle
  <2> QED
    BY <2>3, <1>2 DEF AnswerPending
<1>10. ClientUpToDate'
  BY <1>2 DEF RInv, ClientUpToDate, MainFree
<1> QED
  BY <1>3, <1>4, <1>5, <1>6, <1>7, <1>8, <1>9, <1>10 DEF RInv

\* The second half: what becomes of an entry.
LEMMA RefreshedFacts ==
  ASSUME TypeOK, permission' = Refreshed
  PROVE  /\ permission' \in [Devices -> Permissions]
         /\ \A d \in Devices :
              /\ permission'[d] = "absent" <=> permission[d] = "absent" /\ d \notin attached
              /\ d = refresh.device /\ permission'[d] # "absent" =>
                   permission'[d] = IF refresh.granted THEN "ALLOWED" ELSE "DENIED_BY_USER"
              /\ d # refresh.device /\ permission[d] # "absent" =>
                   permission'[d] = permission[d]
              /\ d # refresh.device /\ permission[d] = "absent" /\ d \in attached =>
                   permission'[d] = IF d \in granted THEN "ALLOWED" ELSE "NEED_REQUEST"
<1> DEFINE list == AddNew(permission)
<1>1. /\ list \in [Devices -> Permissions]
      /\ \A d \in Devices :
           /\ list[d] = "absent" <=> permission[d] = "absent" /\ d \notin attached
           /\ permission[d] # "absent" => list[d] = permission[d]
           /\ permission[d] = "absent" /\ d \in attached =>
                list[d] = IF d \in granted THEN "ALLOWED" ELSE "NEED_REQUEST"
  BY DEF AddNew, TypeOK, Permissions
<1>2. permission' = Override(list, refresh)
  BY DEF Refreshed
<1>3. refresh.device \in Devices \cup {None}
  BY DEF TypeOK
<1> HIDE DEF list
<1>4. permission' \in [Devices -> Permissions]
  BY <1>1, <1>2, <1>3, NoneAssumption DEF Override, Permissions
<1>5. ASSUME NEW d \in Devices
      PROVE  permission'[d] = IF d = refresh.device /\ list[d] # "absent"
                              THEN IF refresh.granted THEN "ALLOWED" ELSE "DENIED_BY_USER"
                              ELSE list[d]
  BY <1>1, <1>2, <1>3, NoneAssumption DEF Override
<1> QED
  BY <1>1, <1>4, <1>5

LEMMA FinishRefreshRInv ==
  ASSUME RInv, FinishRefresh
  PROVE  RInv'
<1> USE DEF FinishRefresh, usbVars
<1>1. permission' \in [Devices -> Permissions]
  BY RefreshedFacts DEF RInv
<1>2. /\ connectedApp \in Clients \cup {None} /\ alive' = alive
      /\ told' \subseteq told \cup (IF connectedApp = None THEN {} ELSE {connectedApp})
      /\ view' \in [Clients -> [Devices -> Permissions]]
      /\ refresh.announce /\ connectedApp # None => view'[connectedApp] = permission'
  <2>1. CASE refresh.announce /\ connectedApp # None
    BY <1>1, <2>1 DEF SendList, RInv, TypeOK
  <2>2. CASE ~(refresh.announce /\ connectedApp # None)
    BY <2>2 DEF SendList, RInv, TypeOK, clientVars
  <2> QED
    BY <2>1, <2>2
<1>3. TypeOK'
  BY <1>1, <1>2 DEF RInv, TypeOK, Idle
<1>4. RequestInv' /\ MessageInv' /\ RefreshInv' /\ ServiceInv'
  BY DEF RInv, RequestInv, MessageInv, RefreshInv, ServiceInv, Answered, Idle
<1>5. ListInv'
  BY RefreshedFacts DEF RInv, ListInv, Listed, MainFree
<1>6. \A d \in Devices, r \in Requests :
         d \in attached /\ requestDevice[r] = d /\ requestState[r] = "granted" => d \in granted
  BY DEF RInv, RequestInv, TypeOK
<1>7. AllowedIsGranted'
  <2> SUFFICES ASSUME NEW d \in attached, permission'[d] = "ALLOWED"
               PROVE  d \in granted
    BY DEF AllowedIsGranted
  <2>1. d \in Devices /\ d # None
    BY NoneAssumption DEF RInv, TypeOK
  <2>2. CASE d = refresh.device
    <3>1. refresh.granted
      BY <2>1, <2>2, RefreshedFacts DEF RInv
    <3> QED
      BY <2>1, <2>2, <3>1, <1>6 DEF RInv, RefreshInv, Answered
  <2>3. CASE d # refresh.device
    BY <2>1, <2>3, RefreshedFacts DEF RInv, AllowedIsGranted
  <2> QED
    BY <2>2, <2>3
<1>8. NoticeInv'
  <2> SUFFICES ASSUME NEW d \in granted, permission'[d] = "NEED_REQUEST"
               PROVE  AnswerPending(d)'
    BY DEF NoticeInv
  <2>1. d \in Devices /\ d \in attached
    BY DEF RInv, TypeOK
  <2>2. d # refresh.device /\ permission[d] = "NEED_REQUEST"
    BY <2>1, RefreshedFacts DEF RInv
  <2> QED
    BY <2>1, <2>2 DEF RInv, NoticeInv, AnswerPending
<1>9. DeniedByUserOnly'
  <2> SUFFICES ASSUME NEW d \in Devices, permission'[d] = "DENIED_BY_USER"
               PROVE  \E r \in Requests :
                         requestDevice[r] = d /\ requestState[r] = "denied"
    BY DEF DeniedByUserOnly
  <2>1. CASE d = refresh.device
    <3>1. ~refresh.granted /\ refresh.device # None
      BY <2>1, RefreshedFacts, NoneAssumption DEF RInv
    <3> QED
      BY <2>1, <3>1 DEF RInv, RefreshInv, Answered
  <2>2. CASE d # refresh.device
    BY <2>2, RefreshedFacts DEF RInv, DeniedByUserOnly, TypeOK
  <2> QED
    BY <2>1, <2>2
<1>10. ClientUpToDate'
  BY <1>2 DEF RInv, ClientUpToDate, ServiceInv
<1> QED
  BY <1>3, <1>4, <1>5, <1>7, <1>8, <1>9, <1>10 DEF RInv

LEMMA AcceptClientRInv ==
  ASSUME RInv, NEW c \in Clients, AcceptClient(c)
  PROVE  RInv'
<1> USE DEF AcceptClient, usbVars
<1>1. /\ connectedApp' = c /\ c \in Compatible /\ c # None
      /\ alive' = alive /\ told' = told \cup {c}
      /\ view' \in [Clients -> [Devices -> Permissions]]
      /\ view'[c] = permission
  BY NoneAssumption DEF SendList, RInv, TypeOK
<1>2. TypeOK'
  BY <1>1 DEF RInv, TypeOK
<1>3. RequestInv' /\ MessageInv' /\ RefreshInv' /\ ServiceInv'
  BY <1>1 DEF RInv, RequestInv, MessageInv, RefreshInv, ServiceInv, Answered, MainFree
<1>4. ListInv' /\ AllowedIsGranted' /\ NoticeInv' /\ DeniedByUserOnly'
  BY DEF RInv, ListInv, Listed, MainFree, AllowedIsGranted, NoticeInv,
         AnswerPending, DeniedByUserOnly
<1>5. ClientUpToDate'
  BY <1>1 DEF RInv, ClientUpToDate
<1> QED
  BY <1>2, <1>3, <1>4, <1>5 DEF RInv

LEMMA OtherConnectionRInv ==
  ASSUME RInv, NEW c \in Clients, RejectClient(c) \/ AcceptNobody(c)
  PROVE  RInv'
<1> USE DEF RejectClient, AcceptNobody, usbVars, clientVars
<1>1. TypeOK'
  BY DEF RInv, TypeOK
<1>2. RequestInv' /\ MessageInv' /\ RefreshInv' /\ ServiceInv'
  BY DEF RInv, RequestInv, MessageInv, RefreshInv, ServiceInv, Answered, MainFree
<1>3. ListInv' /\ AllowedIsGranted' /\ NoticeInv' /\ DeniedByUserOnly'
  BY DEF RInv, ListInv, Listed, MainFree, AllowedIsGranted, NoticeInv,
         AnswerPending, DeniedByUserOnly
<1>4. ClientUpToDate'
  BY DEF RInv, ClientUpToDate, MainFree
<1> QED
  BY <1>1, <1>2, <1>3, <1>4 DEF RInv

LEMMA RequestPermissionRInv ==
  ASSUME RInv, NEW r \in Requests, NEW d \in Devices, RequestPermission(r, d)
  PROVE  RInv'
<1> USE DEF RequestPermission, clientVars
<1>1. /\ broadcasts' \subseteq broadcasts \cup (IF d \in granted THEN {Answer(r, TRUE)} ELSE {})
      /\ broadcasts \subseteq broadcasts' /\ broadcasts' \subseteq Messages
  <2>1. CASE d \in granted
    <3>1. {Answer(r, TRUE)} \subseteq Messages
      BY MessageFacts
    <3> QED
      BY <2>1, <3>1, BroadcastFacts DEF RInv, MainFree
  <2>2. CASE d \notin granted
    BY <2>2 DEF RInv, TypeOK
  <2> QED
    BY <2>1, <2>2
<1>2. /\ requestState'[r] = IF d \in granted THEN "granted" ELSE "open"
      /\ requestDevice'[r] = d
      /\ \A q \in Requests \ {r} : /\ requestState'[q] = requestState[q]
                                   /\ requestDevice'[q] = requestDevice[q]
  BY DEF RInv, TypeOK
<1>3. TypeOK'
  BY <1>1, <1>2 DEF RInv, TypeOK
<1>4. RequestInv'
  BY <1>2 DEF RInv, RequestInv
<1>5. \A q \in Requests, answer \in BOOLEAN :
         Answered(q, answer) => q # r /\ Answered(q, answer)'
  BY <1>2 DEF Answered
<1>6. MessageInv'
  <2> SUFFICES ASSUME NEW message \in broadcasts', message.kind = "answer"
               PROVE  Answered(message.request, message.granted)'
    BY DEF MessageInv
  <2>1. CASE message \in broadcasts
    BY <2>1, <1>5, MessageTypes DEF RInv, MessageInv, TypeOK
  <2>2. CASE d \in granted /\ message = Answer(r, TRUE)
    <3>1. message.request = r /\ message.granted = TRUE
      BY <2>2, MessageFacts
    <3> QED
      BY <2>2, <3>1, <1>2 DEF Answered
  <2> QED
    BY <2>1, <2>2, <1>1
<1>7. RefreshInv'
  BY <1>2, <1>5 DEF RInv, RefreshInv, TypeOK
<1>8. ServiceInv'
  BY DEF RInv, ServiceInv
<1>9. ListInv' /\ AllowedIsGranted'
  BY <1>1 DEF RInv, ListInv, Listed, MainFree, AllowedIsGranted
<1>10. NoticeInv'
  <2> SUFFICES ASSUME NEW e \in granted, AnswerPending(e)
               PROVE  \E message \in broadcasts' :
                        message.kind = "answer" /\ requestDevice'[message.request] = e
    BY DEF RInv, NoticeInv, AnswerPending
  <2>1. PICK message \in broadcasts :
          message.kind = "answer" /\ requestDevice[message.request] = e
    BY DEF AnswerPending
  <2>2. /\ message.request \in Requests /\ message.granted \in BOOLEAN
        /\ Answered(message.request, message.granted)
    BY <2>1, MessageTypes DEF RInv, TypeOK, MessageInv
  <2>3. requestDevice'[message.request] = e
    BY <2>1, <2>2, <1>2, <1>5
  <2> QED
    BY <2>1, <2>3, <1>1
<1>11. DeniedByUserOnly'
  BY <1>2 DEF RInv, DeniedByUserOnly
<1>12. ClientUpToDate'
  BY DEF RInv, ClientUpToDate, MainFree
<1> QED
  BY <1>3, <1>4, <1>6, <1>7, <1>8, <1>9, <1>10, <1>11, <1>12 DEF RInv

-----------------------------------------------------------------------------
LEMMA StutterRInv == RInv /\ UNCHANGED vars => RInv'
BY DEF vars, usbVars, clientVars, RInv, TypeOK, RequestInv, MessageInv, RefreshInv,
       ServiceInv, ListInv, Listed, AllowedIsGranted, NoticeInv, AnswerPending,
       Answered, DeniedByUserOnly, ClientUpToDate, MainFree

LEMMA NextRInv == RInv /\ [Next]_vars => RInv'
<1> SUFFICES ASSUME RInv, [Next]_vars PROVE RInv'
  OBVIOUS
<1>1. CASE Environment
  BY <1>1, AttachRInv, DetachRInv, UserAnswersRInv, ClientRInv DEF Environment
<1>2. CASE Serve
  BY <1>2, ReceiveRInv, FinishRefreshRInv, AcceptClientRInv, OtherConnectionRInv,
     GoDownRInv DEF Serve, SendFails
<1>3. CASE \E r \in Requests, d \in Devices : RequestPermission(r, d)
  BY <1>3, RequestPermissionRInv
<1>4. CASE Create \/ Destroy
  BY <1>4, CreateRInv, GoDownRInv DEF Destroy
<1> QED
  BY <1>1, <1>2, <1>3, <1>4, StutterRInv DEF Next

\* The inductive invariant holds in every reachable state.
THEOREM RegistryInvariant == Spec => []RInv
BY InitRInv, NextRInv, PTL DEF Spec

\* Every variable keeps its type.
THEOREM RegistryTypes == Spec => []TypeOK
<1>1. RInv => TypeOK
  BY DEF RInv
<1> QED
  BY <1>1, RegistryInvariant, PTL

\* The list and the attached devices differ only by a broadcast on its way.
THEOREM ListIsCorrected == Spec => []ListFollowsDevices
<1>1. RInv => ListFollowsDevices
  BY DEF RInv, ListInv, ListFollowsDevices
<1> QED
  BY <1>1, RegistryInvariant, PTL

\* What is shown as allowed can be opened.
THEOREM AllowedCanBeOpened == Spec => []AllowedIsGranted
<1>1. RInv => AllowedIsGranted
  BY DEF RInv
<1> QED
  BY <1>1, RegistryInvariant, PTL

\* A permission that was given is shown as soon as its answer arrived.
THEOREM GrantsAreShown == Spec => []GrantIsNoticed
<1>1. RInv => GrantIsNoticed
  BY NoneAssumption DEF RInv, NoticeInv, GrantIsNoticed, MainFree, RefreshInv, Idle, TypeOK
<1> QED
  BY <1>1, RegistryInvariant, PTL

\* Only a refused request for a device shows it as refused.
THEOREM RefusalsAreReal == Spec => []DeniedByUserOnly
<1>1. RInv => DeniedByUserOnly
  BY DEF RInv
<1> QED
  BY <1>1, RegistryInvariant, PTL

\* The connected client's copy is the list, and no list goes to a client of
\* another API version.
THEOREM CopyIsCurrent == Spec => []ClientUpToDate
<1>1. RInv => ClientUpToDate
  BY DEF RInv
<1> QED
  BY <1>1, RegistryInvariant, PTL

-----------------------------------------------------------------------------
(* What the connected client sees.                                         *)

\* When no broadcast is on its way and the main thread is free, the client
\* sees the devices that are there, and of their permissions what is so.
QuietMeansRight ==
    MainFree /\ broadcasts = {} /\ connectedApp # None =>
        \A d \in Devices :
            /\ view[connectedApp][d] # "absent" <=> d \in attached
            /\ view[connectedApp][d] = "ALLOWED" => d \in granted
            /\ view[connectedApp][d] = "NEED_REQUEST" => d \notin granted

\* The list, the permissions and the client's copy are right together, whatever
\* devices, dialogs and clients did before they came to rest.
THEOREM RightAtRest == Spec => []QuietMeansRight
<1>1. RInv => QuietMeansRight
  <2> SUFFICES ASSUME RInv, MainFree, broadcasts = {}, connectedApp # None,
                      NEW d \in Devices
               PROVE  /\ permission[d] # "absent" <=> d \in attached
                      /\ permission[d] = "ALLOWED" => d \in granted
                      /\ permission[d] = "NEED_REQUEST" => d \notin granted
    BY DEF RInv, ClientUpToDate, QuietMeansRight
  <2>1. permission[d] # "absent" <=> d \in attached
    BY DEF RInv, ListInv, Listed
  <2>2. permission[d] = "ALLOWED" => d \in granted
    BY <2>1 DEF RInv, AllowedIsGranted
  <2>3. refresh.device # d
    BY NoneAssumption DEF MainFree, RInv, RefreshInv, Idle
  <2>4. permission[d] = "NEED_REQUEST" => d \notin granted
    BY <2>3 DEF RInv, NoticeInv, AnswerPending
  <2> QED
    BY <2>1, <2>2, <2>4
<1> QED
  BY <1>1, RegistryInvariant, PTL

\* A device that its client does not see yet is on its way to it: in a
\* broadcast that was not received, or in the refresh that is going on.
ShownOrOnItsWay ==
    connectedApp # None =>
        \A d \in attached :
            \/ view[connectedApp][d] # "absent"
            \/ Change("attached", d) \in broadcasts
            \/ refresh.busy /\ refresh.announce

\* The refresh that is going on shows it.
RefreshShows ==
    connectedApp # None /\ refresh.announce /\ FinishRefresh =>
        \A d \in attached : view'[connectedApp][d] # "absent"

\* Nothing that DeviceShown waits for is ever lost: only fairness is missing to
\* it.
THEOREM NoDeviceForgotten ==
  Spec => []ShownOrOnItsWay /\ [][RefreshShows]_vars
<1>1. RInv => ShownOrOnItsWay
  <2> SUFFICES ASSUME RInv, connectedApp # None, NEW d \in attached,
                      Change("attached", d) \notin broadcasts,
                      ~(refresh.busy /\ refresh.announce)
               PROVE  view[connectedApp][d] # "absent"
    BY DEF ShownOrOnItsWay
  <2>1. MainFree
    BY DEF RInv, TypeOK, ServiceInv, MainFree
  <2>2. Listed(d)
    BY <2>1 DEF RInv, TypeOK, ListInv
  <2> QED
    BY <2>1, <2>2 DEF RInv, ClientUpToDate, Listed
<1>2. RInv => RefreshShows
  <2> SUFFICES ASSUME RInv, connectedApp # None, refresh.announce, FinishRefresh,
                      NEW d \in attached
               PROVE  view'[connectedApp][d] # "absent"
    BY DEF RefreshShows
  <2>1. permission' = Refreshed /\ d \in Devices
    BY DEF FinishRefresh, RInv, TypeOK
  <2>2. permission'[d] # "absent"
    BY <2>1, RefreshedFacts DEF RInv
  <2>3. view'[connectedApp] = permission'
    BY <2>1 DEF FinishRefresh, SendList, RInv, TypeOK
  <2> QED
    BY <2>2, <2>3
<1> QED
  BY <1>1, <1>2, RegistryInvariant, PTL
=============================================================================
