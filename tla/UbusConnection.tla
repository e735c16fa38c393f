---------------------------- MODULE UbusConnection ----------------------------
(***************************************************************************)
(* crates/ubus-proto/src/client.rs: one Connection, message by message.    *)
(* call() resolves a path with a LOOKUP, picks the object registered under *)
(* exactly that path, and INVOKEs it; exchange() sends a request and reads *)
(* DATA messages until the one STATUS that ends the reply.                 *)
(*                                                                         *)
(* The daemon answers in its own time, objects come and go between the two *)
(* requests, a read or a write may fail in the middle of a reply, and the  *)
(* caller may go on using the connection after a call has failed.          *)
(***************************************************************************)
EXTENDS Naturals, Sequences, FiniteSets, SequencesExt, UbusDaemon

CONSTANTS
  Codes, NotFound, NoCall,
  Success,     \* status 0
  SeqSize,     \* how many sequence numbers there are: 2^16
  Patience,    \* the caller drops a connection this many requests behind
  MaxSent,     \* bounds the requests
  MaxFaults    \* bounds the failed reads and writes and the odd messages

ASSUME SequenceNumbers ==
  /\ SeqSize \in Nat /\ Patience \in Nat
  /\ Patience + 2 < SeqSize
ASSUME ConnectionBounds == MaxSent \in Nat /\ MaxFaults \in Nat
ASSUME StatusCodes == NotFound \in Codes /\ Success \notin Codes
ASSUME Idleness == NoCall \notin Paths
ASSUME FiniteIds == IsFiniteSet(Ids)

VARIABLES
  seq,      \* Connection.seq
  pc,       \* "idle", or the exchange call() is in
  path,     \* the path being called
  data,     \* the DATA messages of the exchange so far
  asked,    \* requests on their way to the daemon
  inbox,    \* messages on their way to the client
  answer,   \* what the last call returned
  sent,     \* history: how many requests were made; numbers each of them
  seen, vacancy,  \* history: what UbusCall sees of the registry
  faults    \* how many failures there were

connVars == <<seq, pc, path, data, asked, inbox, answer, sent, faults>>
vars == <<registry, retired, seen, vacancy, seq, pc, path, data, asked, inbox,
          answer, sent, faults>>

(* What a call promises. *)
Call == INSTANCE UbusCall WITH
          pending <- IF pc = "idle" THEN NoCall ELSE path,
          outcome <- answer

Request == [n : Nat, seq : 0 .. SeqSize - 1, kind : {"lookup", "invoke"}, to : Paths \cup Ids]
Message == [type : {"data", "status", "other"}, n : Nat, seq : 0 .. SeqSize - 1,
            by : Ids \cup {Daemon}, path : Paths \cup {Vacant},
            code : Codes \cup {Success}]

TypeOK ==
  /\ DaemonTypeOK
  /\ seq \in 0 .. SeqSize - 1
  /\ pc \in {"idle", "lookup", "invoke"}
  /\ path \in Paths
  /\ data \in Seq(Message) /\ inbox \in Seq(Message) /\ asked \in Seq(Request)
  /\ answer \in Call!Outcomes
  /\ sent \in Nat /\ faults \in Nat
  /\ seen \in SUBSET Ids /\ vacancy \in BOOLEAN

(* The HELLO was read: a Connection exists, and nothing was asked yet. *)
Init ==
  /\ DaemonInit
  /\ seq = 0 /\ sent = 0 /\ faults = 0
  /\ pc = "idle" /\ path \in Paths
  /\ data = <<>> /\ asked = <<>> /\ inbox = <<>>
  /\ answer = NoCall
  /\ seen = {} /\ vacancy = FALSE

-----------------------------------------------------------------------------
(***************************************************************************)
(* The client.                                                             *)
(***************************************************************************)

(* Mutant: the sequence number is not advanced. *)
SameSeq(s) == s

(* Mutant: it does not wrap. *)
UnboundedSeq(s) == s + 1

NextSeq(s) == (s + 1) % SeqSize

(* next_seq, the encoded request, write_all: one more request is under way. *)
Send(kind, to) ==
  /\ seq' = NextSeq(seq)
  /\ sent' = sent + 1
  /\ asked' = Append(asked, [n |-> sent + 1, seq |-> NextSeq(seq), kind |-> kind, to |-> to])
  /\ data' = <<>>
  /\ pc' = kind

Ended(o) ==
  /\ answer' = o
  /\ pc' = "idle"
  /\ data' = <<>>
  /\ seen' = {} /\ vacancy' = FALSE

Return(o) ==
  /\ Ended(o)
  /\ UNCHANGED <<seq, sent, asked>>

(* call() begins: LOOKUP the path. *)
StartCall(p) ==
  /\ pc = "idle"
  /\ sent + 2 <= MaxSent
  /\ \A i \in 1 .. Len(inbox) : sent - inbox[i].n < Patience
  /\ \A i \in 1 .. Len(asked) : sent - asked[i].n < Patience
  /\ path' = p
  /\ answer' = NoCall
  /\ seen' = At(p)
  /\ vacancy' = (At(p) = {})
  /\ Send("lookup", p)
  /\ UNCHANGED <<registry, retired, inbox, faults>>

(* read_message: the next message, if one arrived. *)
Arrived == {inbox[i] : i \in DOMAIN inbox \cap {1}}

Read ==
  /\ pc # "idle"
  /\ inbox' = Tail(inbox)
  /\ UNCHANGED <<registry, retired, path, faults>>

(* Mutant: whatever comes next is taken for the reply. *)
AnyReply(m) == TRUE

InSequence(m) == m.seq = seq

ReadStale ==
  \E m \in Arrived :
    /\ Read
    /\ ~InSequence(m)
    /\ Return(Call!Failed)

(* Mutant: the first DATA of an INVOKE is the reply; the STATUS is not read. *)
ReadDataAndStop ==
  \E m \in Arrived :
    /\ Read
    /\ InSequence(m) /\ m.type = "data"
    /\ IF pc = "invoke"
         THEN Return(Call!Ok(m.by))
         ELSE data' = Append(data, m) /\ UNCHANGED <<seq, sent, asked, pc, answer, seen, vacancy>>

ReadData ==
  \E m \in Arrived :
    /\ Read
    /\ InSequence(m) /\ m.type = "data"
    /\ data' = Append(data, m)
    /\ UNCHANGED <<seq, sent, asked, pc, answer, seen, vacancy>>

ReadUnexpected ==
  \E m \in Arrived :
    /\ Read
    /\ InSequence(m) /\ m.type = "other"
    /\ Return(Call!Failed)

(* A nonzero status is the verdict on the call, whichever exchange it ends. *)
ReadRefusal ==
  \E m \in Arrived :
    /\ Read
    /\ InSequence(m) /\ m.type = "status" /\ m.code # Success
    /\ Return(Call!Status(m.code, m.by))

(* Mutant: the first object of the reply, whatever its path. *)
FirstOf(p) == {data[i] : i \in DOMAIN data \cap {1}}

(* The objects of the reply that are registered under exactly this path. *)
Exact(p) == {data[i] : i \in {j \in DOMAIN data : data[j].path = p}}

(* The LOOKUP succeeded: INVOKE the object, if the reply names one. *)
LookupDone ==
  \E m \in Arrived :
    /\ Read
    /\ pc = "lookup"
    /\ InSequence(m) /\ m.type = "status" /\ m.code = Success
    /\ IF Exact(path) = {}
         THEN Return(Call!NoSuchObject)
         ELSE /\ \E d \in Exact(path) : Send("invoke", d.by)
              /\ UNCHANGED <<answer, seen, vacancy>>

(* Mutant: a method that returns nothing has not answered yet. *)
InvokeAwaitsData ==
  \E m \in Arrived :
    /\ Read
    /\ pc = "invoke"
    /\ InSequence(m) /\ m.type = "status" /\ m.code = Success
    /\ IF data # <<>> THEN Return(Call!Ok(m.by))
                      ELSE UNCHANGED <<seq, sent, asked, pc, data, answer, seen, vacancy>>

(* The INVOKE succeeded, with a DATA message or without one. *)
InvokeDone ==
  \E m \in Arrived :
    /\ Read
    /\ pc = "invoke"
    /\ InSequence(m) /\ m.type = "status" /\ m.code = Success
    /\ Return(Call!Ok(m.by))

Fault ==
  /\ faults < MaxFaults
  /\ faults' = faults + 1

(* The exchange succeeded, but a DATA of it does not decode. *)
Undecodable ==
  \E m \in Arrived :
    /\ pc # "idle" /\ data # <<>>
    /\ Fault
    /\ inbox' = Tail(inbox)
    /\ InSequence(m) /\ m.type = "status" /\ m.code = Success
    /\ Return(Call!Failed)
    /\ UNCHANGED <<registry, retired, path>>

(* A read fails in the middle of the exchange, and what was on its way     *)
(* arrives later; or the write failed, and the daemon never saw the        *)
(* request.                                                                *)
IoError ==
  /\ pc # "idle"
  /\ Fault
  /\ Ended(Call!Failed)
  /\ \/ UNCHANGED asked
     \/ asked # <<>> /\ Last(asked).n = sent /\ asked' = Front(asked)
  /\ UNCHANGED <<registry, retired, seq, path, inbox, sent>>

-----------------------------------------------------------------------------
(***************************************************************************)
(* The daemon and its objects.                                             *)
(***************************************************************************)

Reply(q, type, by, code) ==
  [type |-> type, n |-> q.n, seq |-> q.seq, by |-> by, code |-> code,
   path |-> IF by = Daemon THEN Vacant ELSE registry[by]]

(* A LOOKUP is answered with one DATA per object the daemon matched - the  *)
(* one registered under the path, possibly others - and a STATUS.          *)
LookupReplies(q) ==
  LET Found(ids) == [i \in 1 .. Len(ids) |-> Reply(q, "data", ids[i], Success)]
      Matches    == {S \in SUBSET Registered : At(q.to) \subseteq S}
  IN  {Append(Found(ids), Reply(q, "status", Daemon, Success)) :
         ids \in UNION {SetToSeqs(S) : S \in Matches}}
      \cup {<<Reply(q, "status", Daemon, NotFound)>> : p \in {p \in {q.to} : At(p) = {}}}

(* An INVOKE is answered by the object - unless its id names nothing now.  *)
InvokeReplies(q) ==
  IF registry[q.to] = Vacant THEN {<<Reply(q, "status", Daemon, NotFound)>>}
  ELSE {<<Reply(q, "data", q.to, Success), Reply(q, "status", q.to, Success)>>}
       \cup {<<Reply(q, "status", q.to, c)>> : c \in Codes \cup {Success}}

DaemonAnswers ==
  /\ asked # <<>>
  /\ LET q == Head(asked)
     IN \E reply \in IF q.kind = "lookup" THEN LookupReplies(q) ELSE InvokeReplies(q) :
          inbox' = inbox \o reply
  /\ asked' = Tail(asked)
  /\ UNCHANGED <<registry, retired, seen, vacancy, seq, pc, path, data, answer, sent, faults>>

(* A message of another type, or a STATUS without a code, takes the place  *)
(* of the next one.                                                        *)
OddMessage ==
  /\ inbox # <<>> /\ Head(inbox).type # "other"
  /\ Fault
  /\ inbox' = [inbox EXCEPT ![1].type = "other"]
  /\ UNCHANGED <<registry, retired, seen, vacancy, seq, pc, path, data, asked, answer, sent>>

(* What the history variables note of a registry change. *)
Observe ==
  IF pc = "idle" THEN UNCHANGED <<seen, vacancy>>
  ELSE /\ seen' = seen \cup Under(registry', path)
       /\ vacancy' = (vacancy \/ Under(registry', path) = {})

Arrive(i, p) == Register(i, p) /\ Observe /\ UNCHANGED connVars
Leave(i)     == Unregister(i)  /\ Observe /\ UNCHANGED connVars

-----------------------------------------------------------------------------
Client == ReadStale \/ ReadData \/ ReadUnexpected \/ ReadRefusal
          \/ LookupDone \/ InvokeDone

Next ==
  \/ Client
  \/ DaemonAnswers
  \/ Undecodable \/ IoError \/ OddMessage
  \/ \E p \in Paths : StartCall(p)
  \/ \E i \in Ids : Leave(i) \/ \E p \in Paths : Arrive(i, p)

Spec == Init /\ [][Next]_vars

(* A blocked read returns once there is something to read, and the daemon  *)
(* answers what it was asked.                                              *)
FairSpec == Spec /\ WF_vars(Client) /\ WF_vars(DaemonAnswers)

-----------------------------------------------------------------------------
(***************************************************************************)
(* Properties.                                                             *)
(***************************************************************************)

(* A call that ended with a value or a verdict was built from messages of  *)
(* its own exchange only, however many replies of failed calls were still  *)
(* queued and however often the 16-bit counter wrapped.                    *)
OnlyOwnReplies ==
  [][pc # "idle" /\ answer' \notin {Call!Failed, NoCall} =>
       \A m \in Arrived \cup {data[i] : i \in DOMAIN data} : m.n = sent]_vars

(* exchange drains: until something fails, nothing of a finished call is   *)
(* left for the next one to read.                                          *)
NothingLeftBehind ==
  faults = 0 /\ pc = "idle" => inbox = <<>> /\ asked = <<>>

(* Every call implements the one-step call of UbusCall: in particular it   *)
(* never runs a method of an object registered under another path.         *)
ImplementsCall == Call!CallSpec

(* Every call returns. *)
CallsReturn == pc # "idle" ~> pc = "idle"

=============================================================================
