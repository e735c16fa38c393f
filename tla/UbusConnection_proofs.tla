-------------------------- MODULE UbusConnection_proofs --------------------------
(***************************************************************************)
(* Proofs about UbusConnection, for every set of paths and ids, any number *)
(* of sequence numbers and any number of calls and failures.               *)
(***************************************************************************)
EXTENDS UbusConnection, TLAPS, FiniteSetTheorems, SequenceTheorems

(***************************************************************************)
(* The invariant.                                                          *)
(***************************************************************************)

(* The sequence number d requests after s.                                 *)
After(s, d) == IF s + d < SeqSize THEN s + d ELSE s + d - SeqSize

(* A request or message under way is of one of the last few requests, so   *)
(* that its sequence number tells it from all others that may be under way. *)
Window == IF pc = "lookup" THEN Patience + 1 ELSE Patience + 2
InStep(m) == /\ m.n \in 1 .. sent /\ sent - m.n < Window
             /\ seq = After(m.seq, sent - m.n)

Numbered ==
  /\ \A i \in 1 .. Len(asked) : InStep(asked[i])
  /\ \A i \in 1 .. Len(inbox) : InStep(inbox[i])

Own ==
  /\ \A i \in 1 .. Len(asked) : asked[i].to \in IF asked[i].kind = "lookup" THEN Paths ELSE Ids
  /\ \A i \in 1 .. Len(data) : data[i].n = sent
  /\ pc # "idle" => answer = NoCall

OnePerPath ==
  \A i, j \in Ids : registry[i] = registry[j] /\ registry[i] # Vacant => i = j

(* What the history variables know of the path being called.               *)
Watched ==
  pc # "idle" =>
    /\ At(path) \subseteq seen
    /\ At(path) = {} => vacancy
    /\ \A i \in seen : registry[i] = path \/ vacancy

(* What a message of the current exchange says is so.                      *)
Sound(m) ==
  /\ pc = "lookup" /\ m.type = "data" /\ m.path = path => m.by \in seen
  /\ m.type = "status" /\ m.code # Success =>
       IF m.by = Daemon THEN m.code = NotFound /\ vacancy ELSE m.by \in seen
  /\ pc = "invoke" /\ m.type = "status" /\ m.code = Success => m.by \in seen

(* A LOOKUP that succeeds without naming an object found none - unless one *)
(* of its messages was spoilt, which ends the call.                        *)
Complete ==
  \A k \in 1 .. Len(inbox) :
    inbox[k].n = sent /\ inbox[k].type = "status" /\ inbox[k].code = Success =>
      \/ vacancy
      \/ \E j \in 1 .. Len(data) : data[j].path = path
      \/ \E j \in 1 .. k - 1 :
           /\ inbox[j].n = sent
           /\ inbox[j].type = "other" \/ (inbox[j].type = "data" /\ inbox[j].path = path)

Asking ==
  \A i \in 1 .. Len(asked) : asked[i].n = sent =>
    /\ asked[i].kind = pc
    /\ asked[i].to \in IF pc = "lookup" THEN {path} ELSE seen

Told ==
  pc # "idle" =>
    /\ Asking
    /\ \A i \in 1 .. Len(inbox) : inbox[i].n = sent => Sound(inbox[i])
    /\ pc = "lookup" => /\ \A i \in 1 .. Len(data) : data[i].path = path => data[i].by \in seen
                        /\ Complete

(* Until something fails, there is the current request or its reply.       *)
Clean ==
  faults = 0 =>
    \/ pc = "idle" /\ inbox = <<>> /\ asked = <<>>
    \/ pc # "idle" /\ inbox = <<>> /\ Len(asked) = 1 /\ asked[1].n = sent
    \/ /\ pc # "idle" /\ asked = <<>> /\ Len(inbox) > 0
       /\ \A i \in 1 .. Len(inbox) : inbox[i].n = sent
       /\ \A i \in 1 .. Len(inbox) - 1 : inbox[i].type = "data"
       /\ inbox[Len(inbox)].type = "status"

IInv == TypeOK /\ Numbered /\ Own /\ OnePerPath /\ Watched /\ Told /\ Clean

(***************************************************************************)
(* The replies of the daemon.                                              *)
(***************************************************************************)

(* What the replies to a request have in common.                           *)
IsReply(r, q) ==
  /\ r \in Seq(Message) /\ Len(r) > 0
  /\ \A i \in 1 .. Len(r) : r[i].n = q.n /\ r[i].seq = q.seq
  /\ \A i \in 1 .. Len(r) - 1 : r[i].type = "data"
  /\ r[Len(r)].type = "status"

LEMMA ReplyIs ==
  ASSUME DaemonTypeOK, NEW q \in Request, NEW type \in {"data", "status", "other"},
         NEW by \in Ids \cup {Daemon}, NEW code \in Codes \cup {Success}
  PROVE  Reply(q, type, by, code) \in Message
BY RegistryNames DEF Reply, Message, Request, DaemonTypeOK

(* A set listed in some order: a sequence in which each element occurs.    *)
LEMMA ListingIs ==
  ASSUME NEW S, IsFiniteSet(S), NEW ids \in SetToSeqs(S)
  PROVE  /\ ids \in Seq(S)
         /\ \A x \in S : \E i \in 1 .. Len(ids) : ids[i] = x
<1> DEFINE D == 1 .. Cardinality(S)
<1>1. Cardinality(S) \in Nat
  BY FS_CardinalityType
<1>2. ids \in [D -> S] /\ \A i, j \in D : i # j => ids[i] # ids[j]
  BY DEF SetToSeqs
<1>3. ids \in Seq(S) /\ Len(ids) = Cardinality(S)
  BY <1>1, <1>2
<1>4. ids \in Injection(D, S)
  BY <1>2 DEF Injection, IsInjective
<1>5. IsFiniteSet(D) /\ Cardinality(D) = Cardinality(S)
  BY <1>1, FS_Interval
<1>6. ids \in Surjection(D, S)
  BY <1>4, <1>5, FS_Injection
<1>7. QED
  BY <1>3, <1>6 DEF Surjection

LEMMA LookupReplyIs ==
  ASSUME DaemonTypeOK, NEW q \in Request, q.kind = "lookup", NEW r \in LookupReplies(q)
  PROVE  /\ IsReply(r, q)
         /\ \A i \in 1 .. Len(r) - 1 : r[i].by \in Ids /\ r[i].path = registry[r[i].by]
         /\ r[Len(r)].by = Daemon /\ r[Len(r)].code \in {Success, NotFound}
         /\ r[Len(r)].code = NotFound => At(q.to) = {}
         /\ r[Len(r)].code = Success =>
              \A a \in At(q.to) : \E i \in 1 .. Len(r) - 1 : r[i].path = q.to
<1>1. CASE At(q.to) = {} /\ r = <<Reply(q, "status", Daemon, NotFound)>>
  <2>1. Reply(q, "status", Daemon, NotFound) \in Message
    BY StatusCodes, ReplyIs
  <2>2. r \in Seq(Message) /\ Len(r) = 1 /\ r[1] = Reply(q, "status", Daemon, NotFound)
    BY <1>1, <2>1
  <2>3. QED
    BY <1>1, <2>2 DEF IsReply, Reply
<1>2. CASE ~ (At(q.to) = {} /\ r = <<Reply(q, "status", Daemon, NotFound)>>)
  <2>0. PICK S \in SUBSET Registered :
          /\ At(q.to) \subseteq S
          /\ \E ids \in SetToSeqs(S) :
               r = Append([i \in 1 .. Len(ids) |-> Reply(q, "data", ids[i], Success)],
                          Reply(q, "status", Daemon, Success))
    BY <1>2 DEF LookupReplies
  <2>1. PICK ids \in SetToSeqs(S) :
          r = Append([i \in 1 .. Len(ids) |-> Reply(q, "data", ids[i], Success)],
                     Reply(q, "status", Daemon, Success))
    BY <2>0
  <2>2. S \subseteq Ids /\ IsFiniteSet(S)
    BY FiniteIds, FS_Subset DEF Registered
  <2>3. ids \in Seq(S) /\ \A x \in S : \E i \in 1 .. Len(ids) : ids[i] = x
    BY <2>2, ListingIs
  <2>4. Len(ids) \in Nat /\ \A i \in 1 .. Len(ids) : ids[i] \in Ids
    BY <2>2, <2>3, LenProperties, ElementOfSeq
  <2> DEFINE found == [i \in 1 .. Len(ids) |-> Reply(q, "data", ids[i], Success)]
             last  == Reply(q, "status", Daemon, Success)
  <2>5. \A i \in 1 .. Len(ids) : Reply(q, "data", ids[i], Success) \in Message
    BY <2>4, ReplyIs
  <2>6. found \in Seq(Message) /\ Len(found) = Len(ids)
    BY <2>4, <2>5
  <2>7. last \in Message
    BY ReplyIs
  <2>8. /\ r \in Seq(Message) /\ Len(r) = Len(ids) + 1 /\ r[Len(r)] = last
        /\ \A i \in 1 .. Len(ids) : r[i] = Reply(q, "data", ids[i], Success)
    <3> HIDE DEF last
    <3>1. r = Append(found, last)
      BY <2>1 DEF last
    <3>2. \A i \in 1 .. Len(ids) : found[i] = Reply(q, "data", ids[i], Success)
      OBVIOUS
    <3> HIDE DEF found
    <3>3. QED
      BY <2>4, <2>6, <2>7, <3>1, <3>2, AppendProperties
  <2> HIDE DEF found, last
  <2>9. 1 .. Len(r) - 1 = 1 .. Len(ids) /\ Len(r) > 0
        /\ \A i \in 1 .. Len(r) : i \in 1 .. Len(ids) \/ i = Len(r)
    BY <2>4, <2>8
  <2>10. \A i \in 1 .. Len(ids) :
           /\ r[i].n = q.n /\ r[i].seq = q.seq /\ r[i].type = "data"
           /\ r[i].by = ids[i] /\ r[i].path = registry[ids[i]] /\ ids[i] \in Ids
    <3> SUFFICES ASSUME NEW i \in 1 .. Len(ids)
                 PROVE  /\ r[i].n = q.n /\ r[i].seq = q.seq /\ r[i].type = "data"
                        /\ r[i].by = ids[i] /\ r[i].path = registry[ids[i]] /\ ids[i] \in Ids
      OBVIOUS
    <3>1. r[i] = Reply(q, "data", ids[i], Success)
      BY <2>8
    <3>2. ids[i] \in Ids /\ ids[i] # Daemon
      BY <2>4, RegistryNames
    <3>3. QED
      BY <3>1, <3>2 DEF Reply
  <2>13. /\ r[Len(r)].n = q.n /\ r[Len(r)].seq = q.seq /\ r[Len(r)].type = "status"
         /\ r[Len(r)].by = Daemon /\ r[Len(r)].code = Success
    BY <2>8 DEF Reply, last
  <2>14. IsReply(r, q)
    BY <2>8, <2>9, <2>10, <2>13 DEF IsReply
  <2>11. \A a \in At(q.to) : \E i \in 1 .. Len(r) - 1 : r[i].path = q.to
    <3> SUFFICES ASSUME NEW a \in At(q.to) PROVE \E i \in 1 .. Len(r) - 1 : r[i].path = q.to
      OBVIOUS
    <3>1. PICK i \in 1 .. Len(ids) : ids[i] = a
      BY <2>0, <2>3
    <3>2. registry[a] = q.to
      BY DEF At, Under
    <3>3. QED
      BY <2>9, <2>10, <3>1, <3>2
  <2>12. QED
    BY <2>9, <2>10, <2>11, <2>13, <2>14, StatusCodes
<1>3. QED
  BY <1>1, <1>2

LEMMA InvokeReplyIs ==
  ASSUME DaemonTypeOK, NEW q \in Request, q.to \in Ids, NEW r \in InvokeReplies(q)
  PROVE  /\ IsReply(r, q)
         /\ r[Len(r)].by \in {q.to, Daemon}
         /\ r[Len(r)].by = Daemon => r[Len(r)].code = NotFound /\ registry[q.to] = Vacant
<1>1. CASE registry[q.to] = Vacant /\ r = <<Reply(q, "status", Daemon, NotFound)>>
  <2>1. Reply(q, "status", Daemon, NotFound) \in Message
    BY StatusCodes, ReplyIs
  <2>2. QED
    BY <1>1, <2>1 DEF IsReply, Reply
<1>2. CASE r = <<Reply(q, "data", q.to, Success), Reply(q, "status", q.to, Success)>>
  <2>1. Reply(q, "data", q.to, Success) \in Message /\ Reply(q, "status", q.to, Success) \in Message
    BY ReplyIs
  <2>2. QED
    BY <1>2, <2>1, RegistryNames DEF IsReply, Reply
<1>3. CASE \E c \in Codes \cup {Success} : r = <<Reply(q, "status", q.to, c)>>
  <2>1. PICK c \in Codes \cup {Success} : r = <<Reply(q, "status", q.to, c)>>
    BY <1>3
  <2>2. Reply(q, "status", q.to, c) \in Message
    BY ReplyIs
  <2>3. QED
    BY <2>1, <2>2, RegistryNames DEF IsReply, Reply
<1>4. QED
  BY <1>1, <1>2, <1>3 DEF InvokeReplies

(***************************************************************************)
(* Sequence numbers.                                                       *)
(***************************************************************************)

LEMMA NextSeqIs ==
  ASSUME NEW s \in 0 .. SeqSize - 1
  PROVE  NextSeq(s) = IF s + 1 = SeqSize THEN 0 ELSE s + 1
BY SequenceNumbers DEF NextSeq

LEMMA AfterNext ==
  ASSUME NEW s \in 0 .. SeqSize - 1, NEW d \in Nat, d + 1 < SeqSize
  PROVE  NextSeq(After(s, d)) = After(s, d + 1)
<1>1. After(s, d) \in 0 .. SeqSize - 1
  BY SequenceNumbers DEF After
<1>2. QED
  BY <1>1, NextSeqIs, SequenceNumbers DEF After

LEMMA WindowIs ==
  Window \in Nat /\ Window <= Patience + 2 /\ (pc = "lookup" => Window = Patience + 1)
BY SequenceNumbers DEF Window

(* The head of the inbox, and what is behind it.                           *)
LEMMA ArrivedIs ==
  ASSUME TypeOK, NEW m \in Arrived
  PROVE  /\ Len(inbox) \in Nat \ {0} /\ 1 \in 1 .. Len(inbox)
         /\ m = inbox[1] /\ m \in Message
         /\ Tail(inbox) \in Seq(Message) /\ Len(Tail(inbox)) = Len(inbox) - 1
         /\ \A i \in 1 .. Len(Tail(inbox)) :
              i + 1 \in 1 .. Len(inbox) /\ Tail(inbox)[i] = inbox[i + 1]
<1>1. inbox \in Seq(Message)
  BY DEF TypeOK
<1>2. 1 \in DOMAIN inbox /\ m = inbox[1]
  BY DEF Arrived
<1>3. Len(inbox) \in Nat \ {0} /\ inbox # <<>>
  BY <1>1, <1>2, LenProperties, EmptySeq
<1>4. QED
  BY <1>1, <1>2, <1>3, HeadTailProperties, ElementOfSeq

(* What is in sequence is of the current request.                          *)
LEMMA InSequenceIsOwn ==
  ASSUME IInv, NEW m \in Arrived
  PROVE  InSequence(m) <=> m.n = sent
<1>1. m = inbox[1] /\ 1 \in 1 .. Len(inbox) /\ m \in Message
  BY ArrivedIs DEF IInv
<1>2. InStep(m)
  BY <1>1 DEF IInv, Numbered
<1>3. m.seq \in 0 .. SeqSize - 1 /\ m.n \in Nat
  BY <1>1 DEF Message
<1>4. sent \in Nat /\ seq \in 0 .. SeqSize - 1
  BY DEF IInv, TypeOK
<1>5. QED
  BY <1>2, <1>3, <1>4, SequenceNumbers DEF InStep, After, Window, InSequence

(***************************************************************************)
(* A call ends.                                                            *)
(***************************************************************************)

(* Whatever ends a call leaves of the queues what was there before.        *)
LEMMA EndedKeeps ==
  ASSUME IInv, pc # "idle", NEW o \in Call!Outcomes, Ended(o),
         UNCHANGED <<registry, retired, path, seq, sent>>,
         faults' \in Nat, inbox' \in Seq(Message), asked' \in Seq(Request),
         \A i \in 1 .. Len(inbox') : \E j \in 1 .. Len(inbox) : inbox'[i] = inbox[j],
         \A i \in 1 .. Len(asked') : \E j \in 1 .. Len(asked) : asked'[i] = asked[j],
         faults' = 0 => inbox' = <<>> /\ asked' = <<>>
  PROVE  IInv'
<1> USE DEF IInv, Ended
<1>1. TypeOK'
  <2>1. <<>> \in Seq(Message)
    BY EmptySeq
  <2>2. QED
    BY <2>1 DEF TypeOK, DaemonTypeOK
<1>2. Numbered'
  <2>1. ASSUME NEW i \in 1 .. Len(asked') PROVE InStep(asked[i])'
    <3>1. PICK j \in 1 .. Len(asked) : asked'[i] = asked[j]
      OBVIOUS
    <3>2. asked[j] \in Request
      BY ElementOfSeq DEF TypeOK
    <3>3. InStep(asked[j]) /\ asked[j].n \in Nat
      BY <3>2 DEF Numbered, Request
    <3>4. asked[j].n \in 1 .. sent /\ sent - asked[j].n < Patience + 2
      <4>1. sent \in Nat
        BY DEF TypeOK
      <4>2. QED
        BY <3>3, <4>1, WindowIs, SequenceNumbers DEF InStep
    <3>5. QED
      BY <3>1, <3>3, <3>4 DEF InStep, Window
  <2>2. ASSUME NEW i \in 1 .. Len(inbox') PROVE InStep(inbox[i])'
    <3>1. PICK j \in 1 .. Len(inbox) : inbox'[i] = inbox[j]
      OBVIOUS
    <3>2. inbox[j] \in Message
      BY ElementOfSeq DEF TypeOK
    <3>3. InStep(inbox[j]) /\ inbox[j].n \in Nat
      BY <3>2 DEF Numbered, Message
    <3>4. inbox[j].n \in 1 .. sent /\ sent - inbox[j].n < Patience + 2
      <4>1. sent \in Nat
        BY DEF TypeOK
      <4>2. QED
        BY <3>3, <4>1, WindowIs, SequenceNumbers DEF InStep
    <3>5. QED
      BY <3>1, <3>3, <3>4 DEF InStep, Window
  <2>3. QED
    BY <2>1, <2>2 DEF Numbered
<1>3. Own'
  <2>1. Len(<<>>) = 0
    BY EmptySeq
  <2>2. QED
    BY <2>1 DEF Own
<1>4. OnePerPath' /\ Watched' /\ Told'
  BY DEF OnePerPath, Watched, Told
<1>5. Clean'
  BY DEF Clean
<1>6. QED
  BY <1>1, <1>2, <1>3, <1>4, <1>5

LEMMA EmptyIs ==
  ASSUME NEW S, NEW t \in Seq(S), Len(t) = 0
  PROVE  t = <<>>
BY EmptySeq

(* Until something fails, nothing follows the status of a reply.           *)
LEMMA StatusIsLast ==
  ASSUME IInv, NEW m \in Arrived, m.type # "data", faults = 0
  PROVE  Tail(inbox) = <<>> /\ asked = <<>>
<1>1. /\ Len(inbox) \in Nat \ {0} /\ m = inbox[1]
      /\ Tail(inbox) \in Seq(Message) /\ Len(Tail(inbox)) = Len(inbox) - 1
  BY ArrivedIs DEF IInv
<1>2. inbox # <<>>
  BY <1>1, EmptySeq
<1>3. asked = <<>> /\ \A i \in 1 .. Len(inbox) - 1 : inbox[i].type = "data"
  BY <1>2 DEF IInv, Clean
<1>4. Len(inbox) = 1
  BY <1>1, <1>3
<1>5. Len(Tail(inbox)) = 0
  BY <1>1, <1>4
<1>6. QED
  BY <1>1, <1>3, <1>5, EmptyIs

(* The same for a call that ends when it reads a message.                  *)
LEMMA ReturnKeeps ==
  ASSUME IInv, pc # "idle", NEW m \in Arrived, inbox' = Tail(inbox),
         NEW o \in Call!Outcomes, Return(o), UNCHANGED <<registry, retired, path>>,
         faults' \in Nat, faults' = 0 => faults = 0 /\ m.type # "data"
  PROVE  IInv'
<1>1. /\ Len(inbox) \in Nat \ {0} /\ m = inbox[1]
      /\ inbox' \in Seq(Message) /\ Len(inbox') = Len(inbox) - 1
      /\ \A i \in 1 .. Len(inbox') : i + 1 \in 1 .. Len(inbox) /\ inbox'[i] = inbox[i + 1]
  BY ArrivedIs DEF IInv
<1>2. asked' = asked /\ asked \in Seq(Request)
  BY DEF IInv, TypeOK, Return
<1>3. ASSUME faults' = 0 PROVE inbox' = <<>> /\ asked' = <<>>
  BY <1>2, <1>3, StatusIsLast
<1>4. \A i \in 1 .. Len(inbox') : \E j \in 1 .. Len(inbox) : inbox'[i] = inbox[j]
  BY <1>1
<1>5. Ended(o) /\ UNCHANGED <<seq, sent>>
  BY DEF Return
<1>6. \A i \in 1 .. Len(asked') : \E j \in 1 .. Len(asked) : asked'[i] = asked[j]
  BY <1>2
<1>7. QED
  BY <1>1, <1>2, <1>3, <1>4, <1>5, <1>6, EndedKeeps

LEMMA OutcomesAre ==
  /\ Call!Failed \in Call!Outcomes /\ Call!NoSuchObject \in Call!Outcomes
  /\ NoCall \in Call!Outcomes
  /\ \A i \in Ids : Call!Ok(i) \in Call!Outcomes
  /\ \A c \in Codes, i \in Ids \cup {Daemon} : Call!Status(c, i) \in Call!Outcomes
BY DEF Call!Outcomes

LEMMA ReadStaleKeeps ==
  ASSUME IInv, ReadStale
  PROVE  IInv'
<1>1. PICK m \in Arrived : /\ Read /\ ~InSequence(m)
                          /\ Return(Call!Failed)
  BY DEF ReadStale
<1>2. ~ faults = 0
  <2>1. m = inbox[1] /\ 1 \in 1 .. Len(inbox) /\ m.n # sent /\ inbox # <<>>
    BY <1>1, ArrivedIs, InSequenceIsOwn, EmptySeq DEF IInv
  <2>2. QED
    BY <2>1 DEF IInv, Clean
<1>3. QED
  BY <1>1, <1>2, ReturnKeeps, OutcomesAre DEF Read, IInv, TypeOK

LEMMA ReadUnexpectedKeeps ==
  ASSUME IInv, ReadUnexpected
  PROVE  IInv'
<1>1. PICK m \in Arrived : /\ Read /\ m.type = "other"
                          /\ Return(Call!Failed)
  BY DEF ReadUnexpected
<1>2. QED
  BY <1>1, ReturnKeeps, OutcomesAre DEF Read, IInv, TypeOK

(* A verdict is that of the object called, or the daemon's that the path   *)
(* was vacant.                                                             *)
LEMMA RefusalIsJustified ==
  ASSUME IInv, pc # "idle", NEW m \in Arrived,
         InSequence(m), m.type = "status", m.code # Success
  PROVE  Call!Status(m.code, m.by) \in Call!Outcomes /\ Call!Justified(Call!Status(m.code, m.by))
<1>1. m = inbox[1] /\ 1 \in 1 .. Len(inbox) /\ m \in Message
  BY ArrivedIs DEF IInv
<1>2. Sound(m)
  BY <1>1, InSequenceIsOwn DEF IInv, Told
<1>3. m.code \in Codes /\ m.by \in Ids \cup {Daemon}
  BY <1>1 DEF Message
<1>4. QED
  BY <1>2, <1>3, OutcomesAre DEF Sound, Call!Justified

LEMMA ReadRefusalKeeps ==
  ASSUME IInv, ReadRefusal
  PROVE  IInv'
<1>1. PICK m \in Arrived : /\ Read
                          /\ InSequence(m) /\ m.type = "status" /\ m.code # Success
                          /\ Return(Call!Status(m.code, m.by))
  BY DEF ReadRefusal
<1>2. QED
  BY <1>1, ReturnKeeps, RefusalIsJustified DEF Read, IInv, TypeOK

(* A value comes from an object the path was registered for.               *)
LEMMA ValueIsJustified ==
  ASSUME IInv, pc = "invoke", NEW m \in Arrived,
         InSequence(m), m.type = "status", m.code = Success
  PROVE  Call!Ok(m.by) \in Call!Outcomes /\ Call!Justified(Call!Ok(m.by))
<1>1. m = inbox[1] /\ 1 \in 1 .. Len(inbox) /\ m \in Message
  BY ArrivedIs DEF IInv
<1>2. m.by \in seen
  BY <1>1, InSequenceIsOwn DEF IInv, Told, Sound
<1>3. m.by \in Ids
  BY <1>2 DEF IInv, TypeOK
<1>4. QED
  BY <1>2, <1>3, OutcomesAre DEF Call!Justified

LEMMA InvokeDoneKeeps ==
  ASSUME IInv, InvokeDone
  PROVE  IInv'
<1>1. PICK m \in Arrived : /\ Read /\ pc = "invoke"
                          /\ InSequence(m) /\ m.type = "status" /\ m.code = Success
                          /\ Return(Call!Ok(m.by))
  BY DEF InvokeDone
<1>2. QED
  BY <1>1, ReturnKeeps, ValueIsJustified DEF Read, IInv, TypeOK

LEMMA UndecodableKeeps ==
  ASSUME IInv, Undecodable
  PROVE  IInv'
<1>1. PICK m \in Arrived : /\ pc # "idle" /\ Fault /\ inbox' = Tail(inbox)
                          /\ Return(Call!Failed)
                          /\ UNCHANGED <<registry, retired, path>>
  BY DEF Undecodable
<1>2. faults' \in Nat /\ faults' # 0
  BY <1>1 DEF Fault, IInv, TypeOK
<1>3. QED
  BY <1>1, <1>2, ReturnKeeps, OutcomesAre

LEMMA IoErrorKeeps ==
  ASSUME IInv, IoError
  PROVE  IInv'
<1>1. /\ pc # "idle" /\ Ended(Call!Failed)
      /\ UNCHANGED <<registry, retired, seq, path, inbox, sent>>
  BY DEF IoError
<1>2. faults' \in Nat /\ faults' # 0
  BY DEF IoError, Fault, IInv, TypeOK
<1>3. /\ inbox' \in Seq(Message)
      /\ \A i \in 1 .. Len(inbox') : \E j \in 1 .. Len(inbox) : inbox'[i] = inbox[j]
  BY <1>1 DEF IInv, TypeOK
<1>4. /\ asked' \in Seq(Request)
      /\ \A i \in 1 .. Len(asked') : \E j \in 1 .. Len(asked) : asked'[i] = asked[j]
  <2>1. asked \in Seq(Request) /\ Len(asked) \in Nat
    BY LenProperties DEF IInv, TypeOK
  <2>2. CASE asked' = asked
    BY <2>1, <2>2
  <2>3. CASE asked # <<>> /\ asked' = Front(asked)
    <3>1. \A i \in 1 .. Len(asked) - 1 : asked[i] \in Request
      BY <2>1, ElementOfSeq
    <3>2. /\ asked' \in Seq(Request)
          /\ Len(asked') = IF 1 <= Len(asked) - 1 THEN Len(asked) - 1 - 1 + 1 ELSE 0
          /\ \A i \in 1 .. Len(asked) - 1 - 1 + 1 : asked'[i] = asked[1 + i - 1]
      BY <2>1, <2>3, <3>1, SubSeqProperties DEF Front
    <3>3. \A i \in 1 .. Len(asked') : i \in 1 .. Len(asked) /\ asked'[i] = asked[i]
      BY <2>1, <3>2
    <3>4. QED
      BY <3>2, <3>3
  <2>4. QED
    BY <2>2, <2>3 DEF IoError
<1>5. QED
  BY <1>1, <1>2, <1>3, <1>4, EndedKeeps, OutcomesAre

(***************************************************************************)
(* A request is sent.                                                      *)
(***************************************************************************)

(* One request more: what is under way moves one number back.              *)
LEMMA OneBack ==
  ASSUME sent \in Nat, NextSeq(seq) = seq', sent' = sent + 1, pc' \in {"lookup", "invoke"},
         NEW m, m.seq \in 0 .. SeqSize - 1, m.n \in 1 .. sent, seq = After(m.seq, sent - m.n),
         sent - m.n < IF pc' = "lookup" THEN Patience ELSE Patience + 1
  PROVE  /\ m.n \in 1 .. sent' /\ sent' - m.n < Window' /\ m.n # sent'
         /\ seq' = After(m.seq, sent' - m.n)
<1> DEFINE d == sent - m.n
<1>1. d \in Nat /\ d + 1 = sent' - m.n
  OBVIOUS
<1>2. d + 1 < IF pc' = "lookup" THEN Patience + 1 ELSE Patience + 2
  BY <1>1, SequenceNumbers
<1>3. d + 1 < Window' /\ d + 1 < SeqSize
  BY <1>1, <1>2, SequenceNumbers DEF Window
<1>4. seq' = After(m.seq, d + 1)
  BY <1>1, <1>3, AfterNext
<1>5. QED
  BY <1>1, <1>3, <1>4

LEMMA SendKeeps ==
  ASSUME IInv, NEW kind \in {"lookup", "invoke"}, NEW to, Send(kind, to),
         to \in IF kind = "lookup" THEN {path'} ELSE seen', path' \in Paths,
         UNCHANGED <<registry, retired, faults>>,
         answer' = NoCall, seen' \in SUBSET Ids, vacancy' \in BOOLEAN,
         inbox' \in Seq(Message),
         \A i \in 1 .. Len(inbox') : \E j \in 1 .. Len(inbox) : inbox'[i] = inbox[j],
         \A i \in 1 .. Len(inbox) : kind = "lookup" => sent - inbox[i].n < Patience,
         \A i \in 1 .. Len(asked) : kind = "lookup" => sent - asked[i].n < Patience,
         kind = "invoke" => pc = "lookup",
         Watched', faults = 0 => inbox' = <<>> /\ asked = <<>>
  PROVE  IInv'
<1> DEFINE q == [n |-> sent + 1, seq |-> NextSeq(seq), kind |-> kind, to |-> to]
<1>1. /\ seq' = NextSeq(seq) /\ sent' = sent + 1 /\ asked' = Append(asked, q)
      /\ data' = <<>> /\ pc' = kind
  BY DEF Send
<1>2. /\ sent \in Nat /\ seq \in 0 .. SeqSize - 1 /\ faults \in Nat
      /\ inbox \in Seq(Message) /\ asked \in Seq(Request)
  BY DEF IInv, TypeOK
<1>3. seq' \in 0 .. SeqSize - 1
  BY <1>1, <1>2, NextSeqIs, SequenceNumbers
<1>4. q \in Request /\ q.n = sent' /\ q.seq = seq' /\ q.kind = kind /\ q.to = to
      /\ q.to \in (IF q.kind = "lookup" THEN Paths ELSE Ids)
  BY <1>1, <1>2, <1>3 DEF Request
<1> HIDE DEF q
<1>5. /\ Len(asked) \in Nat /\ asked' \in Seq(Request) /\ Len(asked') = Len(asked) + 1
      /\ \A i \in 1 .. Len(asked) : asked'[i] = asked[i] /\ asked[i] \in Request
      /\ asked'[Len(asked')] = q
      /\ \A i \in 1 .. Len(asked') : i \in 1 .. Len(asked) \/ i = Len(asked')
  BY <1>1, <1>2, <1>4, AppendProperties, LenProperties, ElementOfSeq
<1>6. TypeOK'
  <2>1. data' \in Seq(Message)
    BY <1>1, EmptySeq
  <2>2. NoCall \in Call!Outcomes
    BY OutcomesAre
  <2>3. DaemonTypeOK'
    BY DEF IInv, TypeOK, DaemonTypeOK
  <2>4. pc' \in {"idle", "lookup", "invoke"} /\ sent' \in Nat /\ faults' \in Nat
    BY <1>1, <1>2
  <2>5. QED
    BY <1>3, <1>5, <2>1, <2>2, <2>3, <2>4 DEF TypeOK
<1>7. \A i \in 1 .. Len(asked) :
        /\ asked[i].n \in 1 .. sent' /\ sent' - asked[i].n < Window' /\ asked[i].n # sent'
        /\ seq' = After(asked[i].seq, sent' - asked[i].n)
  <2> SUFFICES ASSUME NEW i \in 1 .. Len(asked)
               PROVE  /\ asked[i].n \in 1 .. sent' /\ sent' - asked[i].n < Window' /\ asked[i].n # sent'
                      /\ seq' = After(asked[i].seq, sent' - asked[i].n)
    OBVIOUS
  <2> DEFINE m == asked[i]
  <2>1. m.seq \in 0 .. SeqSize - 1 /\ m.n \in Nat
    BY <1>5 DEF Request
  <2>2. m.n \in 1 .. sent /\ sent - m.n < Window /\ seq = After(m.seq, sent - m.n)
    BY DEF IInv, Numbered, InStep
  <2>3. sent - m.n < IF pc' = "lookup" THEN Patience ELSE Patience + 1
    BY <1>1, <2>2, WindowIs
  <2> HIDE DEF m
  <2>4. m.n \in 1 .. sent' /\ sent' - m.n < Window' /\ m.n # sent' /\ seq' = After(m.seq, sent' - m.n)
    BY <1>1, <1>2, <2>1, <2>2, <2>3, OneBack
  <2>5. QED
    BY <2>4 DEF m
<1>8. \A i \in 1 .. Len(inbox) :
        /\ inbox[i].n \in 1 .. sent' /\ sent' - inbox[i].n < Window' /\ inbox[i].n # sent'
        /\ seq' = After(inbox[i].seq, sent' - inbox[i].n)
  <2> SUFFICES ASSUME NEW i \in 1 .. Len(inbox)
               PROVE  /\ inbox[i].n \in 1 .. sent' /\ sent' - inbox[i].n < Window' /\ inbox[i].n # sent'
                      /\ seq' = After(inbox[i].seq, sent' - inbox[i].n)
    OBVIOUS
  <2> DEFINE m == inbox[i]
  <2>0. m \in Message
    BY <1>2, ElementOfSeq
  <2>1. m.seq \in 0 .. SeqSize - 1 /\ m.n \in Nat
    BY <2>0 DEF Message
  <2>2. m.n \in 1 .. sent /\ sent - m.n < Window /\ seq = After(m.seq, sent - m.n)
    BY DEF IInv, Numbered, InStep
  <2>3. sent - m.n < IF pc' = "lookup" THEN Patience ELSE Patience + 1
    BY <1>1, <2>2, WindowIs
  <2> HIDE DEF m
  <2>4. m.n \in 1 .. sent' /\ sent' - m.n < Window' /\ m.n # sent' /\ seq' = After(m.seq, sent' - m.n)
    BY <1>1, <1>2, <2>1, <2>2, <2>3, OneBack
  <2>5. QED
    BY <2>4 DEF m
<1>9. Numbered'
  <2>1. ASSUME NEW i \in 1 .. Len(asked') PROVE InStep(asked[i])'
    <3>1. CASE i \in 1 .. Len(asked)
      BY <1>5, <1>7, <3>1 DEF InStep
    <3>2. CASE i = Len(asked')
      <4>1. q.n \in 1 .. sent' /\ sent' - q.n = 0 /\ 0 < Window' /\ seq' = After(q.seq, 0)
        BY <1>1, <1>2, <1>3, <1>4, SequenceNumbers DEF After, Window
      <4>2. QED
        BY <1>5, <3>2, <4>1 DEF InStep
    <3>3. QED
      BY <1>5, <3>1, <3>2
  <2>2. ASSUME NEW i \in 1 .. Len(inbox') PROVE InStep(inbox[i])'
    BY <1>8 DEF InStep
  <2>3. QED
    BY <2>1, <2>2 DEF Numbered
<1>10. Own'
  <2>1. \A i \in 1 .. Len(data') : FALSE
    BY <1>1, EmptySeq
  <2>2. \A i \in 1 .. Len(asked') : asked'[i].to \in IF asked'[i].kind = "lookup" THEN Paths ELSE Ids
    BY <1>4, <1>5 DEF IInv, Own
  <2>3. QED
    BY <2>1, <2>2 DEF Own
<1>11. OnePerPath'
  BY DEF IInv, OnePerPath
<1>12. Told'
  <2>1. Asking'
    BY <1>1, <1>4, <1>5, <1>7 DEF Asking
  <2>2. \A i \in 1 .. Len(inbox') : inbox'[i].n # sent'
    BY <1>8
  <2>3. \A i \in 1 .. Len(data') : FALSE
    BY <1>1, EmptySeq
  <2>4. QED
    BY <2>1, <2>2, <2>3 DEF Told, Complete
<1>13. Clean'
  <2> SUFFICES ASSUME faults = 0 PROVE inbox' = <<>> /\ Len(asked') = 1 /\ asked'[1].n = sent'
    BY <1>1 DEF Clean
  <2>1. Len(asked) = 0
    BY EmptySeq
  <2>2. QED
    BY <1>4, <1>5, <2>1
<1>14. QED
  BY <1>6, <1>9, <1>10, <1>11, <1>12, <1>13 DEF IInv

LEMMA StartCallKeeps ==
  ASSUME IInv, NEW p \in Paths, StartCall(p)
  PROVE  IInv'
<1>1. /\ pc = "idle" /\ path' = p /\ answer' = NoCall /\ Send("lookup", p)
      /\ seen' = At(p) /\ vacancy' = (At(p) = {})
      /\ UNCHANGED <<registry, retired, inbox, faults>>
      /\ \A i \in 1 .. Len(inbox) : sent - inbox[i].n < Patience
      /\ \A i \in 1 .. Len(asked) : sent - asked[i].n < Patience
  BY DEF StartCall
<1>2. Watched'
  BY <1>1 DEF Watched, At, Under
<1>3. faults = 0 => inbox' = <<>> /\ asked = <<>>
  BY <1>1 DEF IInv, Clean
<1>4. seen' \in SUBSET Ids /\ vacancy' \in BOOLEAN
  BY <1>1 DEF At, Under
<1>5. inbox' \in Seq(Message) /\ \A i \in 1 .. Len(inbox') : \E j \in 1 .. Len(inbox) : inbox'[i] = inbox[j]
  BY <1>1 DEF IInv, TypeOK
<1>6. QED
  BY <1>1, <1>2, <1>3, <1>4, <1>5, SendKeeps

(* A LOOKUP that names no object of the path: it was vacant.               *)
LEMMA NothingFoundIsJustified ==
  ASSUME IInv, pc = "lookup", NEW m \in Arrived,
         InSequence(m), m.type = "status", m.code = Success, Exact(path) = {}
  PROVE  Call!Justified(Call!NoSuchObject)
<1>1. m = inbox[1] /\ 1 \in 1 .. Len(inbox) /\ m.n = sent
  BY ArrivedIs, InSequenceIsOwn DEF IInv
<1>2. DOMAIN data = 1 .. Len(data)
  BY LenProperties DEF IInv, TypeOK
<1>3. ~ \E j \in 1 .. Len(data) : data[j].path = path
  BY <1>2 DEF Exact
<1>4. \A j \in 1 .. 1 - 1 : FALSE
  OBVIOUS
<1>5. vacancy
  BY <1>1, <1>3, <1>4 DEF IInv, Told, Complete
<1>6. QED
  BY <1>5 DEF Call!Justified

(* The object found was registered under the path.                         *)
LEMMA FoundWasSeen ==
  ASSUME IInv, pc = "lookup", NEW d \in Exact(path)
  PROVE  d.by \in seen
<1>1. DOMAIN data = 1 .. Len(data)
  BY LenProperties DEF IInv, TypeOK
<1>2. PICK i \in 1 .. Len(data) : d = data[i] /\ data[i].path = path
  BY <1>1 DEF Exact
<1>3. QED
  BY <1>2 DEF IInv, Told

LEMMA LookupDoneKeeps ==
  ASSUME IInv, LookupDone
  PROVE  IInv'
<1>1. PICK m \in Arrived :
        /\ Read /\ pc = "lookup"
        /\ InSequence(m) /\ m.type = "status" /\ m.code = Success
        /\ IF Exact(path) = {} THEN Return(Call!NoSuchObject)
           ELSE (\E d \in Exact(path) : Send("invoke", d.by)) /\ UNCHANGED <<answer, seen, vacancy>>
  BY DEF LookupDone
<1>2. inbox' = Tail(inbox) /\ UNCHANGED <<registry, retired, path, faults>>
  BY <1>1 DEF Read
<1>3. CASE Exact(path) = {}
  BY <1>1, <1>2, <1>3, ReturnKeeps, OutcomesAre DEF IInv, TypeOK
<1>4. CASE Exact(path) # {}
  <2>1. PICK d \in Exact(path) : Send("invoke", d.by)
    BY <1>1, <1>4
  <2>2. UNCHANGED <<answer, seen, vacancy>> /\ answer = NoCall /\ d.by \in seen'
    BY <1>1, <1>4, FoundWasSeen DEF IInv, Own
  <2>3. Watched'
    BY <1>1, <1>2, <2>2 DEF IInv, Watched, At, Under
  <2>4. faults = 0 => inbox' = <<>> /\ asked = <<>>
    BY <1>1, <1>2, StatusIsLast
  <2>5. inbox' \in Seq(Message) /\ \A i \in 1 .. Len(inbox') : \E j \in 1 .. Len(inbox) : inbox'[i] = inbox[j]
    BY <1>2, ArrivedIs DEF IInv
  <2>6. seen' \in SUBSET Ids /\ vacancy' \in BOOLEAN /\ path' \in Paths
    BY <1>2, <2>2 DEF IInv, TypeOK
  <2>7. QED
    BY <1>1, <1>2, <2>1, <2>2, <2>3, <2>4, <2>5, <2>6, SendKeeps
<1>5. QED
  BY <1>3, <1>4

(***************************************************************************)
(* A call goes on.                                                         *)
(***************************************************************************)

LEMMA ReadDataKeeps ==
  ASSUME IInv, ReadData
  PROVE  IInv'
<1>1. PICK m \in Arrived : /\ Read /\ InSequence(m) /\ m.type = "data"
                          /\ data' = Append(data, m)
                          /\ UNCHANGED <<seq, sent, asked, pc, answer, seen, vacancy>>
  BY DEF ReadData
<1>2. inbox' = Tail(inbox) /\ pc # "idle" /\ UNCHANGED <<registry, retired, path, faults>>
  BY <1>1 DEF Read
<1>3. /\ Len(inbox) \in Nat \ {0} /\ 1 \in 1 .. Len(inbox) /\ m = inbox[1] /\ m \in Message
      /\ inbox' \in Seq(Message) /\ Len(inbox') = Len(inbox) - 1
      /\ \A i \in 1 .. Len(inbox') : i + 1 \in 1 .. Len(inbox) /\ inbox'[i] = inbox[i + 1]
  BY <1>2, ArrivedIs DEF IInv
<1>4. m.n = sent
  BY <1>1, InSequenceIsOwn
<1>5. /\ data' \in Seq(Message) /\ Len(data') = Len(data) + 1 /\ Len(data) \in Nat
      /\ \A i \in 1 .. Len(data) : data'[i] = data[i]
      /\ data'[Len(data')] = m
      /\ \A i \in 1 .. Len(data') : i \in 1 .. Len(data) \/ i = Len(data')
  BY <1>1, <1>3, AppendProperties, LenProperties DEF IInv, TypeOK
<1>6. TypeOK'
  BY <1>1, <1>2, <1>3, <1>5 DEF IInv, TypeOK, DaemonTypeOK
<1>7. Numbered'
  BY <1>1, <1>2, <1>3 DEF IInv, Numbered, InStep, Window
<1>8. Own'
  BY <1>1, <1>4, <1>5 DEF IInv, Own
<1>9. OnePerPath' /\ Watched'
  BY <1>1, <1>2 DEF IInv, OnePerPath, Watched, At, Under
<1>10. Told'
  <2>1. Asking'
    BY <1>1, <1>2 DEF IInv, Told, Asking
  <2>2. \A i \in 1 .. Len(inbox') : inbox'[i].n = sent' => Sound(inbox[i])'
    BY <1>1, <1>2, <1>3 DEF IInv, Told, Sound
  <2>3. ASSUME pc = "lookup" PROVE \A i \in 1 .. Len(data') : data'[i].path = path' => data'[i].by \in seen'
    <3>1. m.path = path => m.by \in seen
      BY <1>1, <1>2, <1>3, <1>4, <2>3 DEF IInv, Told, Sound
    <3>2. QED
      BY <1>1, <1>2, <1>5, <2>3, <3>1 DEF IInv, Told
  <2>4. ASSUME pc = "lookup" PROVE Complete'
    <3> SUFFICES ASSUME NEW k \in 1 .. Len(inbox'),
                        inbox'[k].n = sent, inbox'[k].type = "status", inbox'[k].code = Success
                 PROVE  \/ vacancy
                        \/ \E j \in 1 .. Len(data') : data'[j].path = path
                        \/ \E j \in 1 .. k - 1 :
                             /\ inbox'[j].n = sent
                             /\ inbox'[j].type = "other" \/ (inbox'[j].type = "data" /\ inbox'[j].path = path)
      BY <1>1, <1>2 DEF Complete
    <3>1. \/ vacancy
          \/ \E j \in 1 .. Len(data) : data[j].path = path
          \/ \E j \in 1 .. k + 1 - 1 :
               /\ inbox[j].n = sent
               /\ inbox[j].type = "other" \/ (inbox[j].type = "data" /\ inbox[j].path = path)
      BY <1>2, <1>3, <2>4 DEF IInv, Told, Complete
    <3>2. ASSUME NEW j \in 1 .. Len(data), data[j].path = path
          PROVE  \E i \in 1 .. Len(data') : data'[i].path = path
      BY <1>5, <3>2
    <3>3. ASSUME NEW j \in 1 .. k + 1 - 1, inbox[j].n = sent,
                 inbox[j].type = "other" \/ (inbox[j].type = "data" /\ inbox[j].path = path)
          PROVE  \/ \E i \in 1 .. Len(data') : data'[i].path = path
                 \/ \E i \in 1 .. k - 1 :
                      /\ inbox'[i].n = sent
                      /\ inbox'[i].type = "other" \/ (inbox'[i].type = "data" /\ inbox'[i].path = path)
      <4>1. CASE j = 1
        BY <1>1, <1>3, <1>5, <3>3, <4>1
      <4>2. CASE j # 1
        <5>1. j - 1 \in 1 .. k - 1 /\ j - 1 \in 1 .. Len(inbox') /\ j - 1 + 1 = j
          BY <1>3, <4>2
        <5>2. inbox'[j - 1] = inbox[j]
          BY <1>3, <5>1
        <5>3. QED
          BY <3>3, <5>1, <5>2
      <4>3. QED
        BY <4>1, <4>2
    <3>4. QED
      BY <3>1, <3>2, <3>3
  <2>5. QED
    BY <1>1, <2>1, <2>2, <2>3, <2>4 DEF Told
<1>11. Clean'
  <2> SUFFICES ASSUME faults = 0
               PROVE  /\ asked' = <<>> /\ Len(inbox') > 0
                      /\ \A i \in 1 .. Len(inbox') : inbox'[i].n = sent'
                      /\ \A i \in 1 .. Len(inbox') - 1 : inbox'[i].type = "data"
                      /\ inbox'[Len(inbox')].type = "status"
    BY <1>1, <1>2 DEF Clean
  <2>1. inbox # <<>>
    BY <1>3, EmptySeq
  <2>2. /\ asked = <<>> /\ inbox[Len(inbox)].type = "status"
        /\ \A i \in 1 .. Len(inbox) : inbox[i].n = sent
        /\ \A i \in 1 .. Len(inbox) - 1 : inbox[i].type = "data"
    BY <2>1 DEF IInv, Clean
  <2>3. Len(inbox) # 1
    BY <1>1, <1>3, <2>2
  <2>4. Len(inbox') \in 1 .. Len(inbox') /\ Len(inbox') + 1 = Len(inbox)
    BY <1>3, <2>3
  <2>5. \A i \in 1 .. Len(inbox') : inbox'[i].n = sent'
    BY <1>1, <1>3, <2>2
  <2>6. \A i \in 1 .. Len(inbox') - 1 : inbox'[i].type = "data"
    <3> SUFFICES ASSUME NEW i \in 1 .. Len(inbox') - 1 PROVE inbox'[i].type = "data"
      OBVIOUS
    <3>1. i + 1 \in 1 .. Len(inbox) - 1 /\ i \in 1 .. Len(inbox')
      BY <1>3
    <3>2. QED
      BY <1>3, <2>2, <3>1
  <2>7. inbox'[Len(inbox')].type = "status"
    BY <1>3, <2>2, <2>4
  <2>8. QED
    BY <1>1, <2>2, <2>4, <2>5, <2>6, <2>7
<1>12. QED
  BY <1>6, <1>7, <1>8, <1>9, <1>10, <1>11 DEF IInv

(***************************************************************************)
(* The daemon answers.                                                     *)
(***************************************************************************)

(* What a reply to the current request says is so.                         *)
LEMMA ReplyIsSound ==
  ASSUME IInv, pc # "idle", asked # <<>>, NEW q, q = Head(asked), q \in Request, q.n = sent,
         q.kind = "invoke" => q.to \in Ids,
         NEW r \in IF q.kind = "lookup" THEN LookupReplies(q) ELSE InvokeReplies(q)
  PROVE  /\ \A i \in 1 .. Len(r) : Sound(r[i])
         /\ pc = "lookup" /\ r[Len(r)].code = Success =>
              vacancy \/ \E j \in 1 .. Len(r) - 1 : r[j].path = path
<1>1. DaemonTypeOK /\ pc \in {"lookup", "invoke"} /\ seen \subseteq Ids
  BY DEF IInv, TypeOK
<1>2. q = asked[1] /\ 1 \in 1 .. Len(asked)
  BY EmptySeq, HeadTailProperties, LenProperties DEF IInv, TypeOK
<1>3. q.kind = pc /\ q.to \in IF pc = "lookup" THEN {path} ELSE seen
  BY <1>2 DEF IInv, Told, Asking
<1>4. CASE pc = "lookup"
  <2>1. /\ IsReply(r, q)
        /\ \A i \in 1 .. Len(r) - 1 : r[i].by \in Ids /\ r[i].path = registry[r[i].by]
        /\ r[Len(r)].by = Daemon /\ r[Len(r)].code \in {Success, NotFound}
        /\ r[Len(r)].code = NotFound => At(q.to) = {}
        /\ r[Len(r)].code = Success =>
             \A a \in At(q.to) : \E i \in 1 .. Len(r) - 1 : r[i].path = q.to
    BY <1>1, <1>3, <1>4, LookupReplyIs
  <2>2. q.to = path /\ At(path) \subseteq seen /\ (At(path) = {} => vacancy)
    BY <1>3, <1>4 DEF IInv, Watched
  <2>3. Len(r) \in Nat /\ \A i \in 1 .. Len(r) : i \in 1 .. Len(r) - 1 \/ i = Len(r)
    BY <2>1, LenProperties DEF IsReply
  <2>4. \A i \in 1 .. Len(r) - 1 : Sound(r[i])
    <3> SUFFICES ASSUME NEW i \in 1 .. Len(r) - 1 PROVE Sound(r[i])
      OBVIOUS
    <3>1. r[i].type = "data" /\ r[i].by \in Ids /\ r[i].path = registry[r[i].by]
      BY <2>1 DEF IsReply
    <3>2. r[i].path = path => r[i].by \in seen
      BY <2>2, <3>1 DEF At, Under
    <3>3. QED
      BY <1>4, <3>1, <3>2 DEF Sound
  <2>5. Sound(r[Len(r)])
    <3>1. r[Len(r)].type = "status"
      BY <2>1 DEF IsReply
    <3>2. QED
      BY <1>4, <2>1, <2>2, <3>1 DEF Sound
  <2>6. QED
    BY <2>1, <2>2, <2>3, <2>4, <2>5
<1>5. CASE pc = "invoke"
  <2>1. /\ IsReply(r, q)
        /\ r[Len(r)].by \in {q.to, Daemon}
        /\ r[Len(r)].by = Daemon => r[Len(r)].code = NotFound /\ registry[q.to] = Vacant
    BY <1>1, <1>3, <1>5, InvokeReplyIs
  <2>2. q.to \in seen /\ (registry[q.to] = path \/ vacancy) /\ path \in Paths
    BY <1>3, <1>5 DEF IInv, Watched, TypeOK
  <2>3. Len(r) \in Nat /\ \A i \in 1 .. Len(r) : i \in 1 .. Len(r) - 1 \/ i = Len(r)
    BY <2>1, LenProperties DEF IsReply
  <2>4. \A i \in 1 .. Len(r) - 1 : Sound(r[i])
    BY <1>5, <2>1 DEF IsReply, Sound
  <2>5. Sound(r[Len(r)])
    <3>1. r[Len(r)].type = "status"
      BY <2>1 DEF IsReply
    <3>2. r[Len(r)].by = Daemon => r[Len(r)].code = NotFound /\ vacancy
      BY <2>1, <2>2, RegistryNames
    <3>3. r[Len(r)].by # Daemon => r[Len(r)].by \in seen
      BY <2>1, <2>2
    <3>4. QED
      BY <1>5, <3>1, <3>2, <3>3, StatusCodes DEF Sound
  <2>6. QED
    BY <1>5, <2>3, <2>4, <2>5
<1>6. QED
  BY <1>1, <1>4, <1>5

LEMMA DaemonAnswersKeeps ==
  ASSUME IInv, DaemonAnswers
  PROVE  IInv'
<1> DEFINE q == Head(asked)
<1>1. PICK r \in IF q.kind = "lookup" THEN LookupReplies(q) ELSE InvokeReplies(q) :
        inbox' = inbox \o r
  BY DEF DaemonAnswers
<1>2. /\ asked # <<>> /\ asked' = Tail(asked)
      /\ UNCHANGED <<registry, retired, seen, vacancy, seq, pc, path, data, answer, sent, faults>>
  BY DEF DaemonAnswers
<1>3. /\ Len(asked) \in Nat \ {0} /\ 1 \in 1 .. Len(asked) /\ q = asked[1] /\ q \in Request
      /\ asked' \in Seq(Request) /\ Len(asked') = Len(asked) - 1
      /\ \A i \in 1 .. Len(asked') : i + 1 \in 1 .. Len(asked) /\ asked'[i] = asked[i + 1]
  BY <1>2, EmptySeq, HeadTailProperties, LenProperties DEF IInv, TypeOK
<1>4. (q.kind = "invoke" => q.to \in Ids) /\ InStep(q)
  BY <1>3 DEF IInv, Own, Numbered
<1>5. IsReply(r, q)
  <2>1. q.kind \in {"lookup", "invoke"} /\ DaemonTypeOK
    BY <1>3 DEF Request, IInv, TypeOK
  <2>2. CASE q.kind = "lookup"
    BY <1>1, <1>3, <2>1, <2>2, LookupReplyIs
  <2>3. CASE q.kind # "lookup"
    BY <1>1, <1>3, <1>4, <2>1, <2>3, InvokeReplyIs
  <2>4. QED
    BY <2>2, <2>3
<1>6. q.n = sent /\ pc # "idle" =>
        /\ \A i \in 1 .. Len(r) : Sound(r[i])
        /\ pc = "lookup" /\ r[Len(r)].code = Success =>
             vacancy \/ \E j \in 1 .. Len(r) - 1 : r[j].path = path
  BY <1>2, <1>3, <1>4, ReplyIsSound
<1> HIDE DEF q
<1> DEFINE L == Len(inbox)
<1>7. /\ L \in Nat /\ Len(r) \in Nat /\ Len(r) > 0
      /\ inbox' \in Seq(Message) /\ Len(inbox') = L + Len(r)
      /\ \A i \in 1 .. L : inbox'[i] = inbox[i] /\ i \in 1 .. Len(inbox')
      /\ \A i \in 1 .. Len(r) : inbox'[L + i] = r[i] /\ L + i \in 1 .. Len(inbox')
  BY <1>1, <1>5, ConcatProperties, LenProperties DEF IsReply, IInv, TypeOK
<1>8. \A i \in 1 .. Len(inbox') : i \in 1 .. L \/ \E j \in 1 .. Len(r) : i = L + j
  <2> SUFFICES ASSUME NEW i \in 1 .. Len(inbox'), ~ i \in 1 .. L
               PROVE  \E j \in 1 .. Len(r) : i = L + j
    OBVIOUS
  <2>1. i - L \in 1 .. Len(r) /\ i = L + (i - L)
    BY <1>7
  <2>2. QED
    BY <2>1
<1>9. \A i \in 1 .. Len(r) : r[i].n = q.n /\ r[i].seq = q.seq
  BY <1>5 DEF IsReply
<1>10. TypeOK'
  BY <1>2, <1>3, <1>7 DEF IInv, TypeOK, DaemonTypeOK
<1>11. Numbered'
  <2>1. ASSUME NEW i \in 1 .. Len(asked') PROVE InStep(asked[i])'
    BY <1>2, <1>3 DEF IInv, Numbered, InStep, Window
  <2>2. ASSUME NEW i \in 1 .. Len(inbox') PROVE InStep(inbox[i])'
    <3>1. CASE i \in 1 .. L
      BY <1>2, <1>7, <3>1 DEF IInv, Numbered, InStep, Window
    <3>2. CASE \E j \in 1 .. Len(r) : i = L + j
      <4>1. inbox'[i].n = q.n /\ inbox'[i].seq = q.seq
        BY <1>7, <1>9, <3>2
      <4>2. QED
        BY <1>2, <1>4, <4>1 DEF InStep, Window
    <3>3. QED
      BY <1>8, <3>1, <3>2
  <2>3. QED
    BY <2>1, <2>2 DEF Numbered
<1>12. Own' /\ OnePerPath' /\ Watched'
  BY <1>2, <1>3 DEF IInv, Own, OnePerPath, Watched, At, Under
<1>13. Told'
  <2> SUFFICES ASSUME pc # "idle" PROVE Told'
    BY <1>2 DEF Told
  <2>1. Asking'
    BY <1>2, <1>3 DEF IInv, Told, Asking
  <2>2. ASSUME NEW i \in 1 .. Len(inbox'), inbox'[i].n = sent PROVE Sound(inbox[i])'
    <3>1. CASE i \in 1 .. L
      BY <1>2, <1>7, <2>2, <3>1 DEF IInv, Told, Sound
    <3>2. CASE \E j \in 1 .. Len(r) : i = L + j
      <4>1. PICK j \in 1 .. Len(r) : i = L + j
        BY <3>2
      <4>2. inbox'[i] = r[j] /\ Sound(r[j])
        BY <1>6, <1>7, <1>9, <2>2, <4>1
      <4>3. QED
        BY <1>2, <4>2 DEF Sound
    <3>3. QED
      BY <1>8, <3>1, <3>2
  <2>3. ASSUME pc = "lookup" PROVE Complete'
    <3> SUFFICES ASSUME NEW k \in 1 .. Len(inbox'),
                        inbox'[k].n = sent, inbox'[k].type = "status", inbox'[k].code = Success
                 PROVE  \/ vacancy
                        \/ \E j \in 1 .. Len(data) : data[j].path = path
                        \/ \E j \in 1 .. k - 1 :
                             /\ inbox'[j].n = sent
                             /\ inbox'[j].type = "other" \/ (inbox'[j].type = "data" /\ inbox'[j].path = path)
      BY <1>2 DEF Complete
    <3>1. CASE k \in 1 .. L
      <4>1. \/ vacancy
            \/ \E j \in 1 .. Len(data) : data[j].path = path
            \/ \E j \in 1 .. k - 1 :
                 /\ inbox[j].n = sent
                 /\ inbox[j].type = "other" \/ (inbox[j].type = "data" /\ inbox[j].path = path)
        BY <1>7, <2>3, <3>1 DEF IInv, Told, Complete
      <4>2. \A j \in 1 .. k - 1 : inbox'[j] = inbox[j]
        BY <1>7, <3>1
      <4>3. QED
        BY <4>1, <4>2
    <3>2. CASE \E j \in 1 .. Len(r) : k = L + j
      <4>1. PICK l \in 1 .. Len(r) : k = L + l
        BY <3>2
      <4>2. q.n = sent /\ r[l].type = "status" /\ r[l].code = Success
        BY <1>7, <1>9, <4>1
      <4>3. l = Len(r)
        BY <1>5, <1>7, <4>2 DEF IsReply
      <4>4. vacancy \/ \E j \in 1 .. Len(r) - 1 : r[j].path = path
        BY <1>6, <2>3, <4>2, <4>3
      <4>5. ASSUME NEW j \in 1 .. Len(r) - 1, r[j].path = path
            PROVE  \E i \in 1 .. k - 1 :
                     inbox'[i].n = sent /\ inbox'[i].type = "data" /\ inbox'[i].path = path
        <5>1. L + j \in 1 .. k - 1 /\ j \in 1 .. Len(r)
          BY <1>7, <4>1, <4>3
        <5>2. inbox'[L + j] = r[j] /\ r[j].n = sent /\ r[j].type = "data"
          BY <1>5, <1>7, <1>9, <4>2, <5>1 DEF IsReply
        <5>3. QED
          BY <4>5, <5>1, <5>2
      <4>6. QED
        BY <4>4, <4>5
    <3>3. QED
      BY <1>8, <3>1, <3>2
  <2>4. QED
    BY <1>2, <2>1, <2>2, <2>3 DEF IInv, Told
<1>14. Clean'
  <2> SUFFICES ASSUME faults = 0
               PROVE  /\ pc # "idle" /\ asked' = <<>> /\ Len(inbox') > 0
                      /\ \A i \in 1 .. Len(inbox') : inbox'[i].n = sent
                      /\ \A i \in 1 .. Len(inbox') - 1 : inbox'[i].type = "data"
                      /\ inbox'[Len(inbox')].type = "status"
    BY <1>2 DEF Clean
  <2>1. pc # "idle" /\ inbox = <<>> /\ Len(asked) = 1 /\ q.n = sent
    BY <1>2, <1>3 DEF IInv, Clean
  <2>2. L = 0 /\ Len(asked') = 0
    BY <1>3, <2>1, EmptySeq
  <2>3. asked' = <<>>
    BY <1>3, <2>2, EmptyIs
  <2>4. Len(inbox') = Len(r) /\ \A i \in 1 .. Len(r) : inbox'[i] = r[i]
    BY <1>7, <2>2
  <2>5. QED
    BY <1>5, <1>7, <1>9, <2>1, <2>3, <2>4 DEF IsReply
<1>15. QED
  BY <1>10, <1>11, <1>12, <1>13, <1>14 DEF IInv

LEMMA OddMessageKeeps ==
  ASSUME IInv, OddMessage
  PROVE  IInv'
<1>1. /\ inbox # <<>> /\ Fault /\ inbox' = [inbox EXCEPT ![1].type = "other"]
      /\ UNCHANGED <<registry, retired, seen, vacancy, seq, pc, path, data, asked, answer, sent>>
  BY DEF OddMessage
<1>2. inbox \in Seq(Message) /\ Len(inbox) \in Nat \ {0} /\ 1 \in 1 .. Len(inbox)
  BY <1>1, EmptySeq, LenProperties DEF IInv, TypeOK
<1>3. inbox[1] \in Message
  BY <1>2, ElementOfSeq
<1> DEFINE odd == [inbox[1] EXCEPT !.type = "other"]
<1>4. odd \in Message /\ odd.type = "other" /\ odd.n = inbox[1].n /\ odd.seq = inbox[1].seq
  BY <1>3 DEF Message
<1>5. inbox' = [inbox EXCEPT ![1] = odd]
  BY <1>1
<1> HIDE DEF odd
<1>6. /\ inbox' \in Seq(Message) /\ Len(inbox') = Len(inbox) /\ inbox'[1] = odd
      /\ \A i \in 1 .. Len(inbox) : i # 1 => inbox'[i] = inbox[i]
  BY <1>2, <1>4, <1>5, ExceptSeq
<1>7. faults' \in Nat /\ faults' # 0
  BY <1>1 DEF Fault, IInv, TypeOK
<1>8. TypeOK'
  BY <1>1, <1>6, <1>7 DEF IInv, TypeOK, DaemonTypeOK
<1>9. \A i \in 1 .. Len(inbox) : inbox'[i].n = inbox[i].n /\ inbox'[i].seq = inbox[i].seq
  BY <1>4, <1>6
<1>10. Numbered'
  BY <1>1, <1>6, <1>9 DEF IInv, Numbered, InStep, Window
<1>11. Own' /\ OnePerPath' /\ Watched'
  BY <1>1 DEF IInv, Own, OnePerPath, Watched, At, Under
<1>12. Told'
  <2> SUFFICES ASSUME pc # "idle" PROVE Told'
    BY <1>1 DEF Told
  <2>1. Asking'
    BY <1>1 DEF IInv, Told, Asking
  <2>2. ASSUME NEW i \in 1 .. Len(inbox'), inbox'[i].n = sent PROVE Sound(inbox[i])'
    <3>1. CASE i = 1
      BY <1>4, <1>6, <3>1 DEF Sound
    <3>2. CASE i # 1
      <4>1. inbox'[i] = inbox[i] /\ Sound(inbox[i])
        BY <1>6, <2>2, <3>2 DEF IInv, Told
      <4>2. QED
        BY <1>1, <4>1 DEF Sound
    <3>3. QED
      BY <3>1, <3>2
  <2>3. ASSUME pc = "lookup" PROVE Complete'
    <3> SUFFICES ASSUME NEW k \in 1 .. Len(inbox),
                        inbox'[k].n = sent, inbox'[k].type = "status", inbox'[k].code = Success
                 PROVE  \/ vacancy
                        \/ \E j \in 1 .. Len(data) : data[j].path = path
                        \/ \E j \in 1 .. k - 1 :
                             /\ inbox'[j].n = sent
                             /\ inbox'[j].type = "other" \/ (inbox'[j].type = "data" /\ inbox'[j].path = path)
      BY <1>1, <1>6 DEF Complete
    <3>1. k # 1 /\ inbox'[k] = inbox[k]
      BY <1>4, <1>6
    <3>2. \/ vacancy
          \/ \E j \in 1 .. Len(data) : data[j].path = path
          \/ \E j \in 1 .. k - 1 :
               /\ inbox[j].n = sent
               /\ inbox[j].type = "other" \/ (inbox[j].type = "data" /\ inbox[j].path = path)
      BY <2>3, <3>1 DEF IInv, Told, Complete
    <3>3. \A j \in 1 .. k - 1 : j \in 1 .. Len(inbox) /\ (j = 1 \/ inbox'[j] = inbox[j])
      BY <1>2, <1>6
    <3>4. QED
      BY <1>4, <1>6, <3>2, <3>3
  <2>4. QED
    BY <1>1, <2>1, <2>2, <2>3 DEF IInv, Told
<1>13. Clean'
  BY <1>7 DEF Clean
<1>14. QED
  BY <1>8, <1>10, <1>11, <1>12, <1>13 DEF IInv

(***************************************************************************)
(* Objects come and go.                                                    *)
(***************************************************************************)

(* What the history variables learn only adds to what they knew.           *)
LEMMA RegistryKeeps ==
  ASSUME IInv, UNCHANGED connVars, Observe, DaemonTypeOK', OnePerPath', Watched'
  PROVE  IInv'
<1>1. UNCHANGED <<seq, pc, path, data, asked, inbox, answer, sent, faults>>
  BY DEF connVars
<1>2. /\ seen' \in SUBSET Ids /\ vacancy' \in BOOLEAN
      /\ pc # "idle" => seen \subseteq seen' /\ (vacancy => vacancy')
  BY DEF Observe, Under, IInv, TypeOK
<1>3. TypeOK'
  BY <1>1, <1>2 DEF IInv, TypeOK
<1>4. Numbered' /\ Own' /\ Clean'
  BY <1>1 DEF IInv, Numbered, InStep, Window, Own, Clean
<1>5. Told'
  <2> SUFFICES ASSUME pc # "idle" PROVE Told'
    BY <1>1 DEF Told
  <2>1. Asking'
    BY <1>1, <1>2 DEF IInv, Told, Asking
  <2>2. \A i \in 1 .. Len(inbox') : inbox'[i].n = sent' => Sound(inbox[i])'
    BY <1>1, <1>2 DEF IInv, Told, Sound
  <2>3. pc = "lookup" => (\A i \in 1 .. Len(data) : data[i].path = path => data[i].by \in seen') /\ Complete'
    BY <1>1, <1>2 DEF IInv, Told, Complete
  <2>4. QED
    BY <1>1, <2>1, <2>2, <2>3 DEF Told
<1>6. QED
  BY <1>3, <1>4, <1>5 DEF IInv

LEMMA ArriveKeeps ==
  ASSUME IInv, NEW i \in Ids, NEW p \in Paths, Arrive(i, p)
  PROVE  IInv'
<1>1. /\ registry[i] = Vacant /\ At(p) = {} /\ retired' = retired
      /\ registry' = [registry EXCEPT ![i] = p]
      /\ Observe /\ UNCHANGED connVars
  BY DEF Arrive, Register
<1>2. registry \in [Ids -> Paths \cup {Vacant}] /\ path \in Paths
  BY DEF IInv, TypeOK, DaemonTypeOK
<1>3. DaemonTypeOK'
  BY <1>1, <1>2 DEF IInv, TypeOK, DaemonTypeOK
<1>4. OnePerPath'
  BY <1>1, <1>2 DEF IInv, OnePerPath, At, Under
<1>5. Watched'
  <2> SUFFICES ASSUME pc # "idle"
               PROVE  /\ At(path)' \subseteq seen'
                      /\ At(path)' = {} => vacancy'
                      /\ \A j \in seen' : registry'[j] = path \/ vacancy'
    BY <1>1 DEF Watched, connVars
  <2>1. /\ seen' = seen \cup Under(registry', path)
        /\ vacancy' = (vacancy \/ Under(registry', path) = {})
        /\ At(path)' = Under(registry', path)
    BY <1>1 DEF Observe, At, Under, connVars
  <2>2. \A j \in seen : registry[j] = path \/ vacancy
    BY DEF IInv, Watched
  <2>3. \A j \in seen : registry[j] = path => registry'[j] = path
    BY <1>1, <1>2, RegistryNames DEF IInv, TypeOK
  <2>4. \A j \in Under(registry', path) : registry'[j] = path
    BY DEF Under
  <2>5. QED
    BY <2>1, <2>2, <2>3, <2>4
<1>6. QED
  BY <1>1, <1>3, <1>4, <1>5, RegistryKeeps

LEMMA LeaveKeeps ==
  ASSUME IInv, NEW i \in Ids, Leave(i)
  PROVE  IInv'
<1>1. /\ registry[i] # Vacant /\ retired' = retired \cup {i}
      /\ registry' = [registry EXCEPT ![i] = Vacant]
      /\ Observe /\ UNCHANGED connVars
  BY DEF Leave, Unregister
<1>2. registry \in [Ids -> Paths \cup {Vacant}] /\ path \in Paths
  BY DEF IInv, TypeOK, DaemonTypeOK
<1>3. DaemonTypeOK'
  BY <1>1, <1>2 DEF IInv, TypeOK, DaemonTypeOK
<1>4. OnePerPath'
  BY <1>1, <1>2 DEF IInv, OnePerPath
<1>5. Watched'
  <2> SUFFICES ASSUME pc # "idle"
               PROVE  /\ At(path)' \subseteq seen'
                      /\ At(path)' = {} => vacancy'
                      /\ \A j \in seen' : registry'[j] = path \/ vacancy'
    BY <1>1 DEF Watched, connVars
  <2>1. /\ seen' = seen \cup Under(registry', path)
        /\ vacancy' = (vacancy \/ Under(registry', path) = {})
        /\ At(path)' = Under(registry', path)
    BY <1>1 DEF Observe, At, Under, connVars
  <2>2. seen \subseteq Ids /\ \A j \in seen : registry[j] = path \/ vacancy
    BY DEF IInv, TypeOK, Watched
  <2>3. CASE registry[i] = path
    <3>1. \A j \in Ids : registry[j] = path => j = i
      BY <1>2, <2>3, RegistryNames DEF IInv, OnePerPath
    <3>2. Under(registry', path) = {}
      BY <1>1, <1>2, <3>1, RegistryNames DEF Under
    <3>3. QED
      BY <2>1, <3>2
  <2>4. CASE registry[i] # path
    <3>1. \A j \in seen : registry[j] = path => registry'[j] = path
      BY <1>1, <1>2, <2>2, <2>4
    <3>2. \A j \in Under(registry', path) : registry'[j] = path
      BY DEF Under
    <3>3. QED
      BY <2>1, <2>2, <3>1, <3>2
  <2>5. QED
    BY <2>3, <2>4
<1>6. QED
  BY <1>1, <1>3, <1>4, <1>5, RegistryKeeps

(***************************************************************************)
(* The theorems.                                                           *)
(***************************************************************************)

LEMMA Initially == Init => IInv
<1> SUFFICES ASSUME Init PROVE IInv
  OBVIOUS
<1>1. /\ inbox = <<>> /\ asked = <<>> /\ data = <<>> /\ pc = "idle"
      /\ <<>> \in Seq(Message) /\ <<>> \in Seq(Request) /\ Len(<<>>) = 0
  BY EmptySeq DEF Init
<1>2. TypeOK
  <2>1. DaemonTypeOK
    BY DEF Init, DaemonInit, DaemonTypeOK
  <2>2. seq \in 0 .. SeqSize - 1 /\ sent \in Nat /\ faults \in Nat
    BY SequenceNumbers DEF Init
  <2>3. answer \in Call!Outcomes
    BY OutcomesAre DEF Init
  <2>4. path \in Paths /\ seen \in SUBSET Ids /\ vacancy \in BOOLEAN
    BY DEF Init
  <2>5. QED
    BY <1>1, <2>1, <2>2, <2>3, <2>4 DEF TypeOK
<1>3. Numbered /\ Own
  BY <1>1 DEF Numbered, Own
<1>4. OnePerPath
  BY DEF Init, DaemonInit, OnePerPath
<1>5. Watched /\ Told /\ Clean
  BY <1>1 DEF Watched, Told, Clean
<1>6. QED
  BY <1>2, <1>3, <1>4, <1>5 DEF IInv

LEMMA EveryStepKeeps == IInv /\ [Next]_vars => IInv'
<1> SUFFICES ASSUME IInv, [Next]_vars PROVE IInv'
  OBVIOUS
<1>1. CASE ReadStale
  BY <1>1, ReadStaleKeeps
<1>2. CASE ReadData
  BY <1>2, ReadDataKeeps
<1>3. CASE ReadUnexpected
  BY <1>3, ReadUnexpectedKeeps
<1>4. CASE ReadRefusal
  BY <1>4, ReadRefusalKeeps
<1>5. CASE LookupDone
  BY <1>5, LookupDoneKeeps
<1>6. CASE InvokeDone
  BY <1>6, InvokeDoneKeeps
<1>7. CASE DaemonAnswers
  BY <1>7, DaemonAnswersKeeps
<1>8. CASE Undecodable
  BY <1>8, UndecodableKeeps
<1>9. CASE IoError
  BY <1>9, IoErrorKeeps
<1>10. CASE OddMessage
  BY <1>10, OddMessageKeeps
<1>11. CASE \E p \in Paths : StartCall(p)
  BY <1>11, StartCallKeeps
<1>12. CASE \E i \in Ids : Leave(i) \/ \E p \in Paths : Arrive(i, p)
  BY <1>12, ArriveKeeps, LeaveKeeps
<1>13. CASE UNCHANGED vars
  <2>1. UNCHANGED <<registry, retired, seen, vacancy, seq, pc, path, data, asked, inbox, answer, sent, faults>>
    BY <1>13 DEF vars
  <2>2. TypeOK' /\ Numbered' /\ Own' /\ OnePerPath' /\ Clean'
    BY <2>1 DEF IInv, TypeOK, DaemonTypeOK, Numbered, InStep, Window, Own, OnePerPath, Clean
  <2>3. Watched' /\ Told'
    BY <2>1 DEF IInv, Watched, At, Under, Told, Asking, Sound, Complete
  <2>4. QED
    BY <2>2, <2>3 DEF IInv
<1>14. QED
  BY <1>1, <1>2, <1>3, <1>4, <1>5, <1>6, <1>7, <1>8, <1>9, <1>10, <1>11, <1>12, <1>13
  DEF Next, Client

(* The inductive invariant: how far behind a message may be, that those of *)
(* the current exchange say what is so, and what is under way before       *)
(* anything failed.                                                        *)
THEOREM Invariance == Spec => []IInv
BY Initially, EveryStepKeeps, PTL DEF Spec

(* Every variable of a Connection keeps its type.                          *)
THEOREM TypeCorrect == Spec => []TypeOK
<1>1. IInv => TypeOK
  BY DEF IInv
<1>2. QED
  BY <1>1, Invariance, PTL

(* exchange drains its reply: without a failure, nothing of a call is left *)
(* on the socket for the next.                                             *)
THEOREM NothingLeft == Spec => []NothingLeftBehind
<1>1. IInv => NothingLeftBehind
  BY DEF IInv, Clean, NothingLeftBehind
<1>2. QED
  BY <1>1, Invariance, PTL

(* A call is answered from messages of its own exchange, whatever is still *)
(* queued of earlier ones, for any width of the sequence number that       *)
(* exceeds the requests the caller may fall behind.                        *)
THEOREM RepliesAreOwn == Spec => OnlyOwnReplies
<1> DEFINE Own1 == pc # "idle" /\ answer' \notin {Call!Failed, NoCall} =>
                     \A m \in Arrived \cup {data[i] : i \in DOMAIN data} : m.n = sent
<1>1. IInv /\ [Next]_vars => [Own1]_vars
  <2> SUFFICES ASSUME IInv, Next, pc # "idle", answer' \notin {Call!Failed, NoCall},
                      NEW m \in Arrived \cup {data[i] : i \in DOMAIN data}
               PROVE  m.n = sent
    BY DEF vars
  <2>1. \A i \in DOMAIN data : data[i].n = sent
    BY LenProperties DEF IInv, TypeOK, Own
  <2>2. answer = NoCall
    BY DEF IInv, Own
  <2>3. PICK a \in Arrived : InSequence(a)
    <3>1. ~ (\/ ReadStale \/ ReadUnexpected \/ Undecodable \/ IoError)
      BY DEF ReadStale, ReadUnexpected, Undecodable, IoError, Return, Ended
    <3>2. ~ (DaemonAnswers \/ OddMessage \/ \E p \in Paths : StartCall(p))
      BY <2>2 DEF DaemonAnswers, OddMessage, StartCall
    <3>3. ~ \E i \in Ids : Leave(i) \/ \E p \in Paths : Arrive(i, p)
      BY <2>2 DEF Leave, Arrive, connVars
    <3>4. ReadData \/ ReadRefusal \/ LookupDone \/ InvokeDone
      BY <3>1, <3>2, <3>3 DEF Next, Client
    <3>5. QED
      BY <3>4 DEF ReadData, ReadRefusal, LookupDone, InvokeDone
  <2>4. \A b \in Arrived : b = a
    BY <2>3, ArrivedIs DEF IInv
  <2>5. a.n = sent
    BY <2>3, InSequenceIsOwn
  <2>6. QED
    BY <2>1, <2>4, <2>5
<1>2. QED
  BY <1>1, Invariance, PTL DEF Spec, OnlyOwnReplies

(***************************************************************************)
(* The refinement: a call is over when it returns, and its outcome is its  *)
(* answer.                                                                 *)
(***************************************************************************)

(* Whatever ends a call with an outcome that is justified ends the call.   *)
LEMMA EndedIsEnd ==
  ASSUME IInv, pc # "idle", NEW o \in Call!Outcomes, Call!Justified(o), Ended(o),
         UNCHANGED <<registry, retired>>
  PROVE  Call!End
BY Idleness DEF IInv, TypeOK, Ended, Call!End, Call!daemonVars

LEMMA FailureIsEnd ==
  ASSUME IInv, pc # "idle", Ended(Call!Failed), UNCHANGED <<registry, retired>>
  PROVE  Call!End
<1>1. Call!Justified(Call!Failed)
  BY DEF Call!Justified
<1>2. QED
  BY <1>1, EndedIsEnd, OutcomesAre

LEMMA StepImplements == IInv /\ [Next]_vars => [Call!CallNext]_Call!callVars
<1> SUFFICES ASSUME IInv, Next PROVE Call!CallNext \/ UNCHANGED Call!callVars
  BY DEF vars, Call!callVars
<1>1. CASE ReadStale \/ ReadUnexpected \/ Undecodable \/ IoError
  <2>1. pc # "idle" /\ Ended(Call!Failed) /\ UNCHANGED <<registry, retired>>
    BY <1>1 DEF ReadStale, ReadUnexpected, Undecodable, IoError, Read, Return
  <2>2. QED
    BY <2>1, FailureIsEnd DEF Call!CallNext
<1>2. CASE ReadData
  <2>1. UNCHANGED <<registry, retired, path, pc, answer, seen, vacancy>>
    BY <1>2 DEF ReadData, Read
  <2>2. QED
    BY <2>1 DEF Call!callVars
<1>3. CASE ReadRefusal
  <2>1. PICK m \in Arrived : /\ Read
                            /\ InSequence(m) /\ m.type = "status" /\ m.code # Success
                            /\ Return(Call!Status(m.code, m.by))
    BY <1>3 DEF ReadRefusal
  <2>2. QED
    BY <2>1, RefusalIsJustified, EndedIsEnd DEF Read, Return, Call!CallNext
<1>4. CASE LookupDone
  <2>1. PICK m \in Arrived :
          /\ Read /\ pc = "lookup"
          /\ InSequence(m) /\ m.type = "status" /\ m.code = Success
          /\ IF Exact(path) = {} THEN Return(Call!NoSuchObject)
             ELSE (\E d \in Exact(path) : Send("invoke", d.by)) /\ UNCHANGED <<answer, seen, vacancy>>
    BY <1>4 DEF LookupDone
  <2>2. CASE Exact(path) = {}
    BY <2>1, <2>2, NothingFoundIsJustified, OutcomesAre, EndedIsEnd DEF Read, Return, Call!CallNext
  <2>3. CASE Exact(path) # {}
    <3>1. pc # "idle" /\ pc' # "idle" /\ UNCHANGED <<registry, retired, path, answer, seen, vacancy>>
      BY <2>1, <2>3 DEF Read, Send
    <3>2. QED
      BY <3>1 DEF Call!callVars
  <2>4. QED
    BY <2>2, <2>3
<1>5. CASE InvokeDone
  <2>1. PICK m \in Arrived : /\ Read /\ pc = "invoke"
                            /\ InSequence(m) /\ m.type = "status" /\ m.code = Success
                            /\ Return(Call!Ok(m.by))
    BY <1>5 DEF InvokeDone
  <2>2. QED
    BY <2>1, ValueIsJustified, EndedIsEnd DEF Read, Return, Call!CallNext
<1>6. CASE DaemonAnswers
  BY <1>6 DEF DaemonAnswers, Call!callVars
<1>7. CASE OddMessage
  BY <1>7 DEF OddMessage, Call!callVars
<1>8. CASE \E p \in Paths : StartCall(p)
  <2>1. PICK p \in Paths : StartCall(p)
    BY <1>8
  <2>2. /\ pc = "idle" /\ pc' = "lookup" /\ path' = p /\ answer' = NoCall
        /\ seen' = At(p) /\ vacancy' = (At(p) = {}) /\ UNCHANGED <<registry, retired>>
    BY <2>1 DEF StartCall, Send
  <2>3. Call!Begin(p)
    BY <2>2 DEF Call!Begin, Call!At, Call!Under, Call!daemonVars, At, Under
  <2>4. QED
    BY <2>3 DEF Call!CallNext
<1>9. CASE \E i \in Ids : Leave(i) \/ \E p \in Paths : Arrive(i, p)
  <2>1. PICK i \in Ids : Leave(i) \/ \E p \in Paths : Arrive(i, p)
    BY <1>9
  <2>2. Observe /\ UNCHANGED <<pc, path, answer>>
    BY <2>1 DEF Leave, Arrive, connVars
  <2>3. Call!Observe
    BY <2>2, Idleness DEF IInv, TypeOK, Observe, Under, Call!Observe, Call!Under
  <2>4. CASE Leave(i)
    BY <2>2, <2>3, <2>4 DEF Leave, Unregister, Call!Leave, Call!Unregister, Call!CallNext
  <2>5. CASE \E p \in Paths : Arrive(i, p)
    <3>1. PICK p \in Paths : Arrive(i, p)
      BY <2>5
    <3>2. Call!Arrive(i, p)
      BY <2>2, <2>3, <3>1
      DEF Arrive, Register, At, Under, Call!Arrive, Call!Register, Call!At, Call!Under
    <3>3. QED
      BY <3>2 DEF Call!CallNext
  <2>6. QED
    BY <2>1, <2>4, <2>5
<1>10. QED
  BY <1>1, <1>2, <1>3, <1>4, <1>5, <1>6, <1>7, <1>8, <1>9 DEF Next, Client

(* Connection::call, message by message, implements the call of UbusCall:  *)
(* its value or verdict is that of ONE object registered under exactly the *)
(* path during the call, or the daemon's word that there was none.         *)
THEOREM CallImplemented == Spec => ImplementsCall
<1>1. Init => Call!CallInit
  BY DEF Init, DaemonInit, Call!CallInit, Call!DaemonInit
<1>2. QED
  BY <1>1, StepImplements, Invariance, PTL DEF Spec, ImplementsCall, Call!CallSpec

=============================================================================
