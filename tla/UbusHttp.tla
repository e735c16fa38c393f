------------------------------- MODULE UbusHttp -------------------------------
(***************************************************************************)
(* crates/ubus-http: the adapter.  One loop accepts a connection, reads    *)
(* the request, opens a ubus connection, performs at most one call and     *)
(* answers, before it accepts the next connection.                         *)
(*                                                                         *)
(* The call itself is UbusCall's one-step call, which UbusConnection       *)
(* implements.  Every request asks about one UCI section through the       *)
(* object `uci'.                                                           *)
(***************************************************************************)
EXTENDS Naturals, Sequences, FiniteSets, UbusCall

CONSTANTS
  Clients,
  NoOne,            \* no client is being served
  NoReply,
  uci,              \* the path of the object the routes lead to
  Invalid, Denied   \* ubus statuses 2 and 6

ASSUME Routing == uci \in Paths
ASSUME AdapterCodes ==
  /\ {Invalid, NotFound, Denied} \subseteq Codes
  /\ NotFound \notin {Invalid, Denied}
ASSUME AdapterNames == NoOne \notin Clients /\ NoCall \notin Paths

VARIABLES
  client,   \* "away", "connected", or "answered"
  wants,    \* what the client sends
  backlog,  \* the connections waiting to be accepted, in order
  serving,  \* the client whose connection is being served
  stage,    \* how far serve_one is
  reply,    \* the response each client got
  section,  \* is the section there?
  missed    \* history: was it missing at some moment of the call?

httpVars == <<client, wants, backlog, serving, reply, stage>>
vars == <<registry, retired, pending, seen, vacancy, outcome,
          client, wants, backlog, serving, stage, reply, section, missed>>

(* What a client may send: an operation; a path or a method the adapter    *)
(* does not serve; a body it cannot convert; nothing it can parse; more    *)
(* headers than it reads; or nothing at all, on an open connection.        *)
Requests == {"call", "unrouted", "get", "badbody", "garbage", "manyheaders", "silent"}

Responses == {"200 value", "400 request", "400 status 2", "403 status 6",
              "404 no route", "404 no object", "404 status 4", "405", "502"}

TypeOK ==
  /\ DaemonTypeOK
  /\ pending \in {uci, NoCall} /\ (pending # NoCall <=> stage = "call")
  /\ outcome \in Outcomes
  /\ seen \in SUBSET Ids /\ vacancy \in BOOLEAN
  /\ client \in [Clients -> {"away", "connected", "answered"}]
  /\ wants \in [Clients -> Requests]
  /\ backlog \in Seq(Clients)
  /\ serving \in Clients \cup {NoOne}
  /\ stage \in {"accept", "read", "connect", "handle", "call"}
  /\ reply \in [Clients -> Responses \cup {NoReply}]
  /\ section \in BOOLEAN /\ missed \in BOOLEAN

Init ==
  /\ CallInit
  /\ client = [c \in Clients |-> "away"]
  /\ wants = [c \in Clients |-> "call"]
  /\ backlog = <<>> /\ serving = NoOne /\ stage = "accept"
  /\ reply = [c \in Clients |-> NoReply]
  /\ section \in BOOLEAN /\ missed = FALSE

-----------------------------------------------------------------------------
(***************************************************************************)
(* The clients.                                                            *)
(***************************************************************************)

Connect(c) ==
  /\ client[c] = "away"
  /\ client' = [client EXCEPT ![c] = "connected"]
  /\ \E w \in Requests : wants' = [wants EXCEPT ![c] = w]
  /\ backlog' = Append(backlog, c)
  /\ UNCHANGED <<callVars, serving, stage, reply, section, missed>>

(* A silent client gives up: what the server read of it is no request.     *)
HangUp(c) ==
  /\ client[c] = "connected" /\ wants[c] = "silent"
  /\ wants' = [wants EXCEPT ![c] = "garbage"]
  /\ UNCHANGED <<callVars, client, backlog, serving, stage, reply, section, missed>>

Depart(c) ==
  /\ client[c] = "answered"
  /\ client' = [client EXCEPT ![c] = "away"]
  /\ reply' = [reply EXCEPT ![c] = NoReply]
  /\ UNCHANGED <<callVars, wants, backlog, serving, stage, section, missed>>

-----------------------------------------------------------------------------
(***************************************************************************)
(* The server.                                                             *)
(***************************************************************************)

Respond(r) ==
  /\ client' = [client EXCEPT ![serving] = "answered"]
  /\ reply' = [reply EXCEPT ![serving] = r]
  /\ serving' = NoOne
  /\ stage' = "accept"
  /\ wants' = [wants EXCEPT ![serving] = "call"]
  /\ missed' = FALSE
  /\ UNCHANGED <<backlog, section>>

Accept ==
  /\ stage = "accept" /\ backlog # <<>>
  /\ serving' = Head(backlog)
  /\ backlog' = Tail(backlog)
  /\ stage' = "read"
  /\ UNCHANGED <<callVars, client, wants, reply, section, missed>>

(* read_request fails: answered without a ubus connection. *)
ReadMalformed ==
  /\ stage = "read" /\ wants[serving] = "garbage"
  /\ Respond("400 request")
  /\ UNCHANGED callVars

(* read_request returns.  The header loop ends after its cap whatever is   *)
(* left: a Content-Length beyond it was not seen, so the body is empty;    *)
(* one before it takes header lines for the body.                          *)
ReadRequest ==
  /\ stage = "read" /\ wants[serving] \notin {"garbage", "silent"}
  /\ IF wants[serving] = "manyheaders"
       THEN \E w \in {"call", "badbody"} : wants' = [wants EXCEPT ![serving] = w]
       ELSE UNCHANGED wants
  /\ stage' = "connect"
  /\ UNCHANGED <<callVars, client, backlog, serving, reply, section, missed>>

(* Mutant: without ubus the connection is dropped and nothing is said. *)
UbusUnreachableDropped ==
  /\ stage = "connect"
  /\ serving' = NoOne /\ stage' = "accept"
  /\ UNCHANGED <<callVars, client, wants, backlog, reply, section, missed>>

(* connect_unix fails, or no HELLO comes. *)
UbusUnreachable ==
  /\ stage = "connect"
  /\ Respond("502")
  /\ UNCHANGED callVars

UbusConnected ==
  /\ stage = "connect"
  /\ stage' = "handle"
  /\ UNCHANGED <<callVars, client, wants, backlog, serving, reply, section, missed>>

(* handle's refusals, in its order: the method, the path, the body. *)
Refuse ==
  /\ stage = "handle" /\ wants[serving] # "call"
  /\ Respond(CASE wants[serving] = "get"      -> "405"
               [] wants[serving] = "unrouted" -> "404 no route"
               [] wants[serving] = "badbody"  -> "400 request")
  /\ UNCHANGED callVars

StartCall ==
  /\ stage = "handle" /\ wants[serving] = "call"
  /\ Begin(uci)
  /\ missed' = ~section
  /\ stage' = "call"
  /\ UNCHANGED <<client, wants, backlog, serving, reply, section>>

(* A ubus status that has an HTTP status of the same meaning, and others. *)
Verdict(code) ==
  CASE code = Invalid  -> "400 status 2"
    [] code = NotFound -> "404 status 4"
    [] code = Denied   -> "403 status 6"
    [] OTHER           -> "502"

(* Mutant: a failed exchange is reported as a missing object. *)
ResponseDefaulted(o) ==
  CASE o.kind = "ok"     -> "200 value"
    [] o.kind = "status" -> Verdict(o.code)
    [] OTHER             -> "404 no object"

(* The match on the result of conn.call. *)
Response(o) ==
  CASE o.kind = "ok"           -> "200 value"
    [] o.kind = "nosuchobject" -> "404 no object"
    [] o.kind = "status"       -> Verdict(o.code)
    [] OTHER                   -> "502"

(* Mutant: the response is written while the call is still going on. *)
FinishCallEarly ==
  /\ stage = "call"
  /\ Respond("200 value")
  /\ UNCHANGED callVars

(* The call ends, and its outcome is the response.  The object says "not   *)
(* found" only of a section that is not there.                             *)
FinishCall ==
  /\ stage = "call"
  /\ End
  /\ \A i \in Ids : outcome' = Status(NotFound, i) => missed
  /\ Respond(Response(outcome'))

-----------------------------------------------------------------------------
(***************************************************************************)
(* The device.                                                             *)
(***************************************************************************)

SectionChanges ==
  /\ section' = ~section
  /\ missed' = (missed \/ (stage = "call" /\ ~section'))
  /\ UNCHANGED <<callVars, httpVars>>

ObjectArrives(i) == Arrive(i, uci) /\ UNCHANGED <<httpVars, section, missed>>
ObjectLeaves(i)  == Leave(i)       /\ UNCHANGED <<httpVars, section, missed>>

-----------------------------------------------------------------------------
Server == \/ Accept \/ ReadMalformed \/ ReadRequest
          \/ UbusUnreachable \/ UbusConnected
          \/ Refuse \/ StartCall \/ FinishCall

Next ==
  \/ Server
  \/ \E c \in Clients : Connect(c) \/ HangUp(c) \/ Depart(c)
  \/ SectionChanges
  \/ \E i \in Ids : ObjectArrives(i) \/ ObjectLeaves(i)

Spec == Init /\ [][Next]_vars

(* The server runs (every ubus call returns: UbusConnection!CallsReturn),  *)
(* and a silent client gives up some day: there is no read timeout, and    *)
(* without the second assumption one silent client blocks all others.      *)
FairSpec ==
  /\ Spec
  /\ WF_vars(Server)
  /\ \A c \in Clients : WF_vars(HangUp(c))

-----------------------------------------------------------------------------
(***************************************************************************)
(* Properties.                                                             *)
(***************************************************************************)

(* A connection is in exactly one place until it is answered: in the       *)
(* backlog, or being served.  None is lost, none is served twice.          *)
NobodyIsLost ==
  \A c \in Clients :
    LET places == {i \in DOMAIN backlog : backlog[i] = c}
    IN  client[c] = "connected" <=>
          (serving = c) # (Cardinality(places) = 1)

(* The response says what happened in the call of the same request: a      *)
(* value comes from an object registered as `uci' during it, "no object"   *)
(* and "status 4" are never said while the object and the section were     *)
(* there all along, and no response claims a verdict nobody gave.          *)
RepliesAreTruthful ==
  [][\A c \in Clients :
       serving = c /\ stage = "call" /\ reply'[c] # reply[c] =>
         /\ reply'[c] = "200 value" => seen # {}
         /\ reply'[c] = "404 no object" => vacancy
         /\ reply'[c] = "404 status 4" => missed \/ vacancy
         /\ reply'[c] \in {"400 status 2", "403 status 6"} => seen # {}]_vars

(* Whoever sends a request is answered, behind whatever queue.             *)
EveryoneIsAnswered ==
  \A c \in Clients : client[c] = "connected" ~> client[c] = "answered"

-----------------------------------------------------------------------------
(* main.go, at deviceSaysAbsent: it "is true only when the device itself   *)
(* answered `not found'", and the adapter's other 404s - "a device with no *)
(* `uci' object" among them - are not about the section.  So a reply       *)
(* "status 4" means the section was missing at some moment of the call.    *)
(* But the daemon answers an INVOKE of an object that left after the       *)
(* LOOKUP with the same status, and the reply reads the same.              *)
StatusFourIsAboutTheSection ==
  [][\A c \in Clients :
       serving = c /\ stage = "call" /\ reply'[c] = "404 status 4" => missed]_vars

=============================================================================
