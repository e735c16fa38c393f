----------------------------- MODULE UbusHttp_proofs -----------------------------
(***************************************************************************)
(* Proofs about UbusHttp, for every set of clients and of object ids, and  *)
(* any number of requests.                                                 *)
(***************************************************************************)
EXTENDS UbusHttp, TLAPS, FiniteSetTheorems, SequenceTheorems

(* What a request can still be once its body is looked at.                 *)
Handled == {"call", "unrouted", "get", "badbody"}

Stage ==
  /\ serving = NoOne <=> stage = "accept"
  /\ stage \in {"connect", "handle", "call"} => wants[serving] \in Handled

(* Where the connections are: the one being served is open and is not in   *)
(* the backlog, which holds open connections, each once; an open one is in *)
(* one of the two places.                                                  *)
ServedIsOpen  == serving # NoOne => client[serving] = "connected"
QueueIsOpen   == \A i \in 1 .. Len(backlog) :
                   client[backlog[i]] = "connected" /\ backlog[i] # serving
QueueIsSet    == \A i, j \in 1 .. Len(backlog) : backlog[i] = backlog[j] => i = j
OpenIsSomewhere ==
  \A c \in Clients : client[c] = "connected" =>
    serving = c \/ \E i \in 1 .. Len(backlog) : backlog[i] = c

Places == ServedIsOpen /\ QueueIsOpen /\ QueueIsSet /\ OpenIsSomewhere

IInv == TypeOK /\ Stage /\ Places

-----------------------------------------------------------------------------
(* The response to an outcome is one there is, whatever the outcome.       *)
LEMMA ResponseIs == \A o : Response(o) \in Responses
BY DEF Response, Verdict, Responses

LEMMA Initially == Init => IInv
<1> SUFFICES ASSUME Init PROVE IInv
  OBVIOUS
<1>1. DaemonTypeOK /\ outcome \in Outcomes
  BY DEF Init, CallInit, DaemonInit, DaemonTypeOK, Outcomes
<1>2. backlog \in Seq(Clients) /\ Len(backlog) = 0
  BY EmptySeq DEF Init
<1>3. TypeOK
  BY <1>1, <1>2 DEF Init, CallInit, TypeOK, Requests
<1>4. Stage /\ Places
  BY <1>2 DEF Init, Stage, Places, ServedIsOpen, QueueIsOpen, QueueIsSet, OpenIsSomewhere
<1>5. QED
  BY <1>3, <1>4 DEF IInv

(***************************************************************************)
(* The clients.                                                            *)
(***************************************************************************)

LEMMA ConnectKeeps ==
  ASSUME IInv, NEW c \in Clients, Connect(c)
  PROVE  IInv'
<1> USE DEF IInv, Connect
<1>1. PICK w \in Requests : wants' = [wants EXCEPT ![c] = w]
  OBVIOUS
<1>2. /\ backlog' \in Seq(Clients) /\ Len(backlog) \in Nat
      /\ Len(backlog') = Len(backlog) + 1 /\ backlog'[Len(backlog')] = c
      /\ \A i \in 1 .. Len(backlog) : backlog'[i] = backlog[i] /\ backlog[i] \in Clients
  BY AppendProperties, LenProperties, ElementOfSeq DEF TypeOK
<1>3. client \in [Clients -> {"away", "connected", "answered"}] /\ client[c] = "away"
  BY DEF TypeOK
<1>4. serving # c
  BY <1>3, AdapterNames DEF Places, ServedIsOpen
<1>5. TypeOK'
  BY <1>1, <1>2, <1>3 DEF TypeOK, DaemonTypeOK, callVars
<1>6. Stage'
  <2>1. serving' = serving /\ stage' = stage
    OBVIOUS
  <2>2. ASSUME stage \in {"connect", "handle", "call"}
        PROVE  wants'[serving] = wants[serving]
    <3>1. serving \in Clients /\ wants \in [Clients -> Requests]
      BY <2>2 DEF Stage, TypeOK
    <3>2. QED
      BY <1>1, <1>4, <3>1
  <2>3. QED
    BY <2>1, <2>2 DEF Stage
<1>7. ServedIsOpen'
  BY <1>3, <1>4 DEF Places, ServedIsOpen, TypeOK
<1>8. QueueIsOpen'
  <2> SUFFICES ASSUME NEW i \in 1 .. Len(backlog')
               PROVE  client'[backlog'[i]] = "connected" /\ backlog'[i] # serving'
    BY DEF QueueIsOpen
  <2>1. CASE i = Len(backlog')
    BY <1>2, <1>3, <1>4, <2>1
  <2>2. CASE i # Len(backlog')
    <3>1. i \in 1 .. Len(backlog)
      BY <1>2, <2>2
    <3>2. QED
      BY <1>2, <1>3, <3>1 DEF Places, QueueIsOpen
  <2>3. QED
    BY <2>1, <2>2
<1>9. QueueIsSet'
  <2>1. \A i \in 1 .. Len(backlog) : backlog[i] # c
    BY <1>3 DEF Places, QueueIsOpen
  <2>2. \A i, j \in 1 .. Len(backlog) : backlog[i] = backlog[j] => i = j
    BY DEF Places, QueueIsSet
  <2>3. \A i \in 1 .. Len(backlog') : i \in 1 .. Len(backlog) \/ i = Len(backlog')
    BY <1>2
  <2>4. QED
    BY <1>2, <2>1, <2>2, <2>3 DEF QueueIsSet
<1>10. OpenIsSomewhere'
  <2>1. \A i \in 1 .. Len(backlog) : i \in 1 .. Len(backlog')
    BY <1>2
  <2>2. Len(backlog') \in 1 .. Len(backlog')
    BY <1>2
  <2> SUFFICES ASSUME NEW d \in Clients, client'[d] = "connected"
               PROVE  serving' = d \/ \E i \in 1 .. Len(backlog') : backlog'[i] = d
    BY DEF OpenIsSomewhere
  <2>3. CASE d = c
    BY <1>2, <2>2, <2>3
  <2>4. CASE d # c
    BY <1>2, <1>3, <2>1, <2>4 DEF Places, OpenIsSomewhere
  <2>5. QED
    BY <2>3, <2>4
<1>11. QED
  BY <1>5, <1>6, <1>7, <1>8, <1>9, <1>10 DEF Places

(* The places depend on these three only.                                  *)
LEMMA PlacesStay ==
  ASSUME IInv, UNCHANGED <<client, serving, backlog>>
  PROVE  Places'
BY DEF IInv, Places, ServedIsOpen, QueueIsOpen, QueueIsSet, OpenIsSomewhere

LEMMA HangUpKeeps ==
  ASSUME IInv, NEW c \in Clients, HangUp(c)
  PROVE  IInv'
<1>1. TypeOK'
  BY DEF IInv, HangUp, TypeOK, DaemonTypeOK, callVars, Requests
<1>2. Stage'
  BY DEF IInv, HangUp, TypeOK, Stage, Handled
<1>3. Places'
  BY PlacesStay DEF HangUp
<1>4. QED
  BY <1>1, <1>2, <1>3 DEF IInv

LEMMA DepartKeeps ==
  ASSUME IInv, NEW c \in Clients, Depart(c)
  PROVE  IInv'
<1>1. /\ client \in [Clients -> {"away", "connected", "answered"}] /\ client[c] = "answered"
      /\ client' = [client EXCEPT ![c] = "away"]
      /\ backlog' = backlog /\ serving' = serving
  BY DEF IInv, TypeOK, Depart
<1>2. TypeOK'
  BY DEF IInv, Depart, TypeOK, DaemonTypeOK, callVars
<1>3. Stage'
  BY DEF IInv, Depart, Stage
<1>4. ServedIsOpen' /\ QueueIsOpen' /\ QueueIsSet'
  <2>1. \A i \in 1 .. Len(backlog) : backlog[i] \in Clients
    BY ElementOfSeq DEF IInv, TypeOK
  <2>2. QED
    BY <1>1, <2>1 DEF IInv, TypeOK, Places, ServedIsOpen, QueueIsOpen, QueueIsSet
<1>5. OpenIsSomewhere'
  BY <1>1 DEF IInv, Places, OpenIsSomewhere
<1>6. QED
  BY <1>2, <1>3, <1>4, <1>5 DEF IInv, Places

(***************************************************************************)
(* The server.                                                             *)
(***************************************************************************)

LEMMA AcceptKeeps ==
  ASSUME IInv, Accept
  PROVE  IInv'
<1>1. /\ backlog \in Seq(Clients) /\ backlog # <<>>
      /\ serving' = Head(backlog) /\ backlog' = Tail(backlog) /\ client' = client
  BY DEF IInv, TypeOK, Accept
<1>2. Len(backlog) \in Nat /\ 1 \in 1 .. Len(backlog) /\ serving' = backlog[1] /\ serving' \in Clients
  BY <1>1, EmptySeq, LenProperties, HeadTailProperties, ElementOfSeq
<1>3. /\ backlog' \in Seq(Clients) /\ Len(backlog') = Len(backlog) - 1
      /\ \A i \in 1 .. Len(backlog') : backlog'[i] = backlog[i + 1] /\ i + 1 \in 1 .. Len(backlog)
  BY <1>1, <1>2, HeadTailProperties
<1>4. TypeOK'
  BY <1>2, <1>3 DEF IInv, Accept, TypeOK, DaemonTypeOK, callVars, Stage
<1>5. Stage'
  BY <1>2, AdapterNames DEF Accept, Stage
<1>6. ServedIsOpen'
  BY <1>1, <1>2 DEF IInv, Places, QueueIsOpen, ServedIsOpen
<1>7. QueueIsOpen'
  <2> SUFFICES ASSUME NEW i \in 1 .. Len(backlog')
               PROVE  client'[backlog'[i]] = "connected" /\ backlog'[i] # serving'
    BY DEF QueueIsOpen
  <2>1. client[backlog[i + 1]] = "connected"
    BY <1>3 DEF IInv, Places, QueueIsOpen
  <2>2. backlog[i + 1] # backlog[1]
    <3>1. i + 1 # 1 /\ i + 1 \in 1 .. Len(backlog)
      BY <1>2, <1>3
    <3>2. QED
      BY <1>2, <3>1 DEF IInv, Places, QueueIsSet
  <2>3. QED
    BY <1>1, <1>2, <1>3, <2>1, <2>2
<1>8. QueueIsSet'
  <2> SUFFICES ASSUME NEW i \in 1 .. Len(backlog'), NEW j \in 1 .. Len(backlog'),
                      backlog'[i] = backlog'[j]
               PROVE  i = j
    BY DEF QueueIsSet
  <2>1. i + 1 = j + 1
    BY <1>3 DEF IInv, Places, QueueIsSet
  <2>2. QED
    BY <1>2, <1>3, <2>1
<1>9. OpenIsSomewhere'
  <2> SUFFICES ASSUME NEW c \in Clients, client'[c] = "connected", serving' # c
               PROVE  \E i \in 1 .. Len(backlog') : backlog'[i] = c
    BY DEF OpenIsSomewhere
  <2>1. PICK k \in 1 .. Len(backlog) : backlog[k] = c
    BY <1>1, AdapterNames DEF IInv, Places, OpenIsSomewhere, Accept, Stage
  <2>2. k # 1
    BY <1>2, <2>1
  <2>3. k - 1 \in 1 .. Len(backlog')
    BY <1>2, <1>3, <2>2
  <2>4. backlog'[k - 1] = c
    BY <1>3, <2>1, <2>3
  <2>5. QED
    BY <2>3, <2>4
<1>10. QED
  BY <1>4, <1>5, <1>6, <1>7, <1>8, <1>9 DEF IInv, Places

(* A response ends the service, and the client's connection with it.       *)
LEMMA RespondKeepsPlaces ==
  ASSUME IInv, NEW r, Respond(r), serving # NoOne
  PROVE  Places' /\ Stage'
<1>1. /\ serving \in Clients /\ client \in [Clients -> {"away", "connected", "answered"}]
      /\ client' = [client EXCEPT ![serving] = "answered"]
      /\ serving' = NoOne /\ backlog' = backlog /\ stage' = "accept"
  BY DEF IInv, TypeOK, Respond
<1>2. \A i \in 1 .. Len(backlog) : backlog[i] \in Clients
  BY ElementOfSeq DEF IInv, TypeOK
<1>3. Stage' /\ ServedIsOpen' /\ QueueIsSet'
  BY <1>1 DEF IInv, Places, Stage, ServedIsOpen, QueueIsSet
<1>4. QueueIsOpen'
  BY <1>1, <1>2, AdapterNames DEF IInv, Places, QueueIsOpen
<1>5. OpenIsSomewhere'
  BY <1>1 DEF IInv, Places, OpenIsSomewhere
<1>6. QED
  BY <1>3, <1>4, <1>5 DEF Places

LEMMA RespondKeepsTypes ==
  ASSUME IInv, NEW r \in Responses, Respond(r), serving # NoOne,
         DaemonTypeOK', pending' = NoCall, outcome' \in Outcomes,
         seen' \in SUBSET Ids, vacancy' \in BOOLEAN
  PROVE  TypeOK'
BY DEF IInv, TypeOK, Respond, Requests

(* A response without a call.                                              *)
LEMMA RespondKeeps ==
  ASSUME IInv, NEW r \in Responses, Respond(r), UNCHANGED callVars,
         stage \in {"read", "connect", "handle"}
  PROVE  IInv'
<1>1. serving # NoOne
  BY DEF IInv, Stage
<1>2. /\ DaemonTypeOK' /\ pending' = NoCall /\ outcome' \in Outcomes
      /\ seen' \in SUBSET Ids /\ vacancy' \in BOOLEAN
  BY DEF IInv, TypeOK, DaemonTypeOK, callVars
<1>3. QED
  BY <1>1, <1>2, RespondKeepsPlaces, RespondKeepsTypes DEF IInv

LEMMA ReadRequestKeeps ==
  ASSUME IInv, ReadRequest
  PROVE  IInv'
<1>1. /\ serving # NoOne /\ serving \in Clients
      /\ wants \in [Clients -> Requests]
  BY DEF IInv, TypeOK, Stage, ReadRequest
<1>2. wants' \in [Clients -> Requests] /\ wants'[serving] \in Handled
  <2>1. CASE wants[serving] = "manyheaders"
    BY <1>1, <2>1 DEF ReadRequest, Requests, Handled
  <2>2. CASE wants[serving] # "manyheaders"
    BY <1>1, <2>2 DEF ReadRequest, Requests, Handled
  <2>3. QED
    BY <2>1, <2>2
<1>3. TypeOK'
  BY <1>2 DEF IInv, ReadRequest, TypeOK, DaemonTypeOK, callVars
<1>4. Stage'
  BY <1>1, <1>2 DEF ReadRequest, Stage
<1>5. Places'
  BY PlacesStay DEF ReadRequest
<1>6. QED
  BY <1>3, <1>4, <1>5 DEF IInv

LEMMA UbusConnectedKeeps ==
  ASSUME IInv, UbusConnected
  PROVE  IInv'
<1>1. TypeOK'
  BY DEF IInv, UbusConnected, TypeOK, DaemonTypeOK, callVars
<1>2. Stage'
  BY DEF IInv, UbusConnected, Stage
<1>3. Places'
  BY PlacesStay DEF UbusConnected
<1>4. QED
  BY <1>1, <1>2, <1>3 DEF IInv

LEMMA StartCallKeeps ==
  ASSUME IInv, StartCall
  PROVE  IInv'
<1>1. TypeOK'
  BY Routing, AdapterNames
  DEF IInv, StartCall, Begin, TypeOK, DaemonTypeOK, daemonVars, At, Under, Outcomes
<1>2. Stage'
  BY DEF IInv, StartCall, Stage
<1>3. Places'
  BY PlacesStay DEF StartCall
<1>4. QED
  BY <1>1, <1>2, <1>3 DEF IInv

LEMMA FinishCallKeeps ==
  ASSUME IInv, FinishCall
  PROVE  IInv'
<1>1. serving # NoOne
  BY DEF IInv, Stage, FinishCall
<1>2. Respond(Response(outcome')) /\ Response(outcome') \in Responses
  BY ResponseIs DEF FinishCall
<1>3. /\ DaemonTypeOK' /\ pending' = NoCall /\ outcome' \in Outcomes
      /\ seen' \in SUBSET Ids /\ vacancy' \in BOOLEAN
  BY DEF IInv, TypeOK, DaemonTypeOK, FinishCall, End, daemonVars
<1>4. QED
  BY <1>1, <1>2, <1>3, RespondKeepsPlaces, RespondKeepsTypes DEF IInv

LEMMA ServerKeeps ==
  ASSUME IInv, Server
  PROVE  IInv'
<1>1. CASE Accept
  BY <1>1, AcceptKeeps
<1>2. CASE ReadMalformed
  <2>1. "400 request" \in Responses
    BY DEF Responses
  <2>2. QED
    BY <1>2, <2>1, RespondKeeps DEF ReadMalformed
<1>3. CASE ReadRequest
  BY <1>3, ReadRequestKeeps
<1>4. CASE UbusUnreachable
  <2>1. "502" \in Responses
    BY DEF Responses
  <2>2. QED
    BY <1>4, <2>1, RespondKeeps DEF UbusUnreachable
<1>5. CASE UbusConnected
  BY <1>5, UbusConnectedKeeps
<1>6. CASE Refuse
  <2> DEFINE r == CASE wants[serving] = "get"      -> "405"
                    [] wants[serving] = "unrouted" -> "404 no route"
                    [] wants[serving] = "badbody"  -> "400 request"
  <2>1. wants[serving] \in {"get", "unrouted", "badbody"}
    BY <1>6 DEF Refuse, IInv, Stage, Handled
  <2>2. r \in Responses
    BY <2>1 DEF Responses
  <2>3. Respond(r) /\ UNCHANGED callVars /\ stage = "handle"
    BY <1>6 DEF Refuse
  <2> HIDE DEF r
  <2>4. QED
    BY <2>2, <2>3, RespondKeeps
<1>7. CASE StartCall
  BY <1>7, StartCallKeeps
<1>8. CASE FinishCall
  BY <1>8, FinishCallKeeps
<1>9. QED
  BY <1>1, <1>2, <1>3, <1>4, <1>5, <1>6, <1>7, <1>8 DEF Server

(***************************************************************************)
(* The device.                                                             *)
(***************************************************************************)

LEMMA DeviceKeeps ==
  ASSUME IInv, SectionChanges \/ \E i \in Ids : ObjectArrives(i) \/ ObjectLeaves(i)
  PROVE  IInv'
<1>1. CASE SectionChanges
  <2>1. TypeOK' /\ Stage'
    BY <1>1 DEF IInv, SectionChanges, TypeOK, DaemonTypeOK, callVars, httpVars, Stage
  <2>2. Places'
    BY <1>1, PlacesStay DEF SectionChanges, httpVars
  <2>3. QED
    BY <2>1, <2>2 DEF IInv
<1>2. CASE \E i \in Ids : ObjectArrives(i) \/ ObjectLeaves(i)
  <2>1. PICK i \in Ids : ObjectArrives(i) \/ ObjectLeaves(i)
    BY <1>2
  <2>2. DaemonTypeOK'
    BY <2>1, Routing
    DEF IInv, TypeOK, DaemonTypeOK, ObjectArrives, ObjectLeaves, Arrive, Leave, Register, Unregister
  <2>3. Observe /\ UNCHANGED <<pending, outcome>> /\ UNCHANGED <<httpVars, section, missed>>
    BY <2>1 DEF ObjectArrives, ObjectLeaves, Arrive, Leave
  <2>4. seen' \in SUBSET Ids /\ vacancy' \in BOOLEAN
    BY <2>3 DEF IInv, TypeOK, Observe, Under
  <2>5. TypeOK' /\ Stage'
    BY <2>2, <2>3, <2>4 DEF IInv, TypeOK, httpVars, Stage
  <2>6. Places'
    BY <2>3, PlacesStay DEF httpVars
  <2>7. QED
    BY <2>5, <2>6 DEF IInv
<1>3. QED
  BY <1>1, <1>2

LEMMA EveryStepKeeps == IInv /\ [Next]_vars => IInv'
<1> SUFFICES ASSUME IInv, [Next]_vars PROVE IInv'
  OBVIOUS
<1>1. CASE Server
  BY <1>1, ServerKeeps
<1>2. CASE \E c \in Clients : Connect(c) \/ HangUp(c) \/ Depart(c)
  BY <1>2, ConnectKeeps, HangUpKeeps, DepartKeeps
<1>3. CASE SectionChanges \/ \E i \in Ids : ObjectArrives(i) \/ ObjectLeaves(i)
  BY <1>3, DeviceKeeps
<1>4. CASE UNCHANGED vars
  <2>1. TypeOK' /\ Stage'
    BY <1>4 DEF IInv, vars, TypeOK, DaemonTypeOK, Stage
  <2>2. Places'
    BY <1>4, PlacesStay DEF vars
  <2>3. QED
    BY <2>1, <2>2 DEF IInv
<1>5. QED
  BY <1>1, <1>2, <1>3, <1>4 DEF Next

-----------------------------------------------------------------------------
(***************************************************************************)
(* The theorems.                                                           *)
(***************************************************************************)

(* Every reachable state satisfies the inductive invariant.                *)
THEOREM Invariance == Spec => []IInv
<1>1. QED
  BY Initially, EveryStepKeeps, PTL DEF Spec

(* Every variable keeps its type; a call is pending exactly in its stage.  *)
THEOREM TypeCorrect == Spec => []TypeOK
<1>1. IInv => TypeOK
  BY DEF IInv
<1>2. QED
  BY <1>1, Invariance, PTL

(* Of all the connections that serve_one was not done with, none is lost   *)
(* and none is served twice.                                               *)
THEOREM NobodyLost == Spec => []NobodyIsLost
<1>1. IInv => NobodyIsLost
  <2> SUFFICES ASSUME IInv, NEW c \in Clients
               PROVE  client[c] = "connected" <=>
                        (serving = c) # (Cardinality({i \in DOMAIN backlog : backlog[i] = c}) = 1)
    BY DEF NobodyIsLost
  <2> DEFINE places == {i \in DOMAIN backlog : backlog[i] = c}
  <2>1. DOMAIN backlog = 1 .. Len(backlog)
    BY LenProperties DEF IInv, TypeOK
  <2>2. CASE places = {}
    <3>1. Cardinality(places) = 0
      BY <2>2, FS_EmptySet
    <3>2. client[c] = "connected" <=> serving = c
      BY <2>1, <2>2, AdapterNames DEF IInv, Places, ServedIsOpen, OpenIsSomewhere
    <3>3. QED
      BY <3>1, <3>2
  <2>3. CASE places # {}
    <3>1. PICK i \in places : TRUE
      BY <2>3
    <3>2. client[c] = "connected" /\ serving # c
      BY <2>1, <3>1 DEF IInv, Places, QueueIsOpen
    <3>3. places = {i}
      BY <2>1, <3>1 DEF IInv, Places, QueueIsSet
    <3>4. Cardinality(places) = 1
      BY <3>3, FS_Singleton
    <3>5. QED
      BY <3>2, <3>4
  <2>4. QED
    BY <2>2, <2>3
<1>2. QED
  BY <1>1, Invariance, PTL

(* A response to a call says what happened in that call: `handle' turns    *)
(* every outcome into one that claims no more.                             *)
THEOREM RepliesTruthful == Spec => RepliesAreTruthful
<1> DEFINE Truthful ==
      \A c \in Clients :
        serving = c /\ stage = "call" /\ reply'[c] # reply[c] =>
          /\ reply'[c] = "200 value" => seen # {}
          /\ reply'[c] = "404 no object" => vacancy
          /\ reply'[c] = "404 status 4" => missed \/ vacancy
          /\ reply'[c] \in {"400 status 2", "403 status 6"} => seen # {}
<1>1. IInv /\ [Next]_vars => [Truthful]_vars
  <2> SUFFICES ASSUME IInv, Next, NEW c \in Clients,
                      serving = c, stage = "call", reply'[c] # reply[c]
               PROVE  /\ reply'[c] = "200 value" => seen # {}
                      /\ reply'[c] = "404 no object" => vacancy
                      /\ reply'[c] = "404 status 4" => missed \/ vacancy
                      /\ reply'[c] \in {"400 status 2", "403 status 6"} => seen # {}
    BY DEF vars
  <2>1. FinishCall
    <3>1. ~ \E d \in Clients : Connect(d) \/ HangUp(d)
      BY DEF Connect, HangUp
    <3>2. ~ \E d \in Clients : Depart(d)
      <4>1. SUFFICES ASSUME NEW d \in Clients, Depart(d) PROVE FALSE
        OBVIOUS
      <4>2. client[c] = "connected" /\ client[d] = "answered" /\ reply' = [reply EXCEPT ![d] = NoReply]
        BY <4>1, AdapterNames DEF Depart, IInv, Places, ServedIsOpen
      <4>3. reply'[c] = reply[c]
        BY <4>2 DEF IInv, TypeOK
      <4>4. QED
        BY <4>3
    <3>3. ~ SectionChanges /\ ~ \E i \in Ids : ObjectArrives(i) \/ ObjectLeaves(i)
      BY DEF SectionChanges, ObjectArrives, ObjectLeaves, httpVars
    <3>4. QED
      BY <3>1, <3>2, <3>3 DEF Next, Server, Accept, ReadMalformed, ReadRequest, UbusUnreachable,
                              UbusConnected, Refuse, StartCall
  <2>2. reply'[c] = Response(outcome')
    BY <2>1 DEF FinishCall, Respond, IInv, TypeOK
  <2>3. Justified(outcome') /\ \A i \in Ids : outcome' = Status(NotFound, i) => missed
    BY <2>1 DEF FinishCall, End
  <2>4. seen \in SUBSET Ids
    BY DEF IInv, TypeOK
  <2>5. CASE outcome' = Failed
    BY <2>2, <2>5 DEF Failed, Response
  <2>6. CASE outcome' = NoSuchObject /\ vacancy
    BY <2>2, <2>6 DEF NoSuchObject, Response
  <2>7. CASE outcome' = Status(NotFound, Daemon) /\ vacancy
    BY <2>2, <2>7, AdapterCodes DEF Status, Response, Verdict
  <2>8. CASE \E i \in seen : outcome' = Ok(i) \/ \E d \in Codes : outcome' = Status(d, i)
    <3>1. PICK i \in seen : outcome' = Ok(i) \/ \E d \in Codes : outcome' = Status(d, i)
      BY <2>8
    <3>2. CASE outcome' = Ok(i)
      BY <2>2, <3>2 DEF Ok, Response
    <3>3. ASSUME NEW d \in Codes, outcome' = Status(d, i)
          PROVE  /\ reply'[c] # "200 value" /\ reply'[c] # "404 no object"
                 /\ reply'[c] = "404 status 4" => missed
      <4>1. reply'[c] = Verdict(d)
        BY <2>2, <3>3 DEF Status, Response
      <4>2. Verdict(d) = "404 status 4" => d = NotFound
        BY DEF Verdict
      <4>3. d = NotFound => missed
        BY <2>3, <2>4, <3>1, <3>3
      <4>4. QED
        BY <4>1, <4>2, <4>3 DEF Verdict
    <3>4. QED
      BY <3>1, <3>2, <3>3
  <2>9. QED
    BY <2>3, <2>5, <2>6, <2>7, <2>8 DEF Justified
<1>2. QED
  BY <1>1, Invariance, PTL DEF Spec, RepliesAreTruthful

=============================================================================
