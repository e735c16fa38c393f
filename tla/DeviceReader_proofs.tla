-------------------------- MODULE DeviceReader_proofs --------------------------
(***************************************************************************)
(* Proofs about DeviceReader: what becomes of the known_hosts file, for    *)
(* every finite set of callers, all routers and keys, any number of calls  *)
(* and mishaps; and what the callers are told, for all documents too.      *)
(***************************************************************************)
EXTENDS DeviceReader, UciDocument_proofs

Entries == Hosts \X Keys
LastLine == file[Len(file)]

Typed ==
  /\ target \in Targets /\ pin \in [Callers -> Keys] /\ hostKey \in [Hosts -> Keys]
  /\ pc \in [Callers -> {"idle", "check", "line", "break", "ssh"}]
  /\ spent \in [Mishaps -> Nat]
  /\ file \in Seq(Seq(Entries)) /\ Len(file) > 0

(* Until something goes wrong one caller at most is between its two        *)
(* writes, what is on the last line is what it wrote, and a caller that    *)
(* gets to ssh has its pin on a line of its own.                           *)
Spoilt0 == spent["tear"] + spent["crash"] + spent["fault"]
Calm == Spoilt0 = 0
Intact ==
  Calm =>
    /\ \A c, d \in Callers : pc[c] = "break" /\ pc[d] = "break" => c = d
    /\ \A c \in Callers : pc[c] = "break" => LastLine = <<Entry(c)>>
    /\ (\A c \in Callers : pc[c] # "break") => LastLine = <<>>
    /\ \A c \in Callers : pc[c] = "ssh" /\ Pinned(c) => Present(Entry(c))

IInv == Typed /\ Intact

-----------------------------------------------------------------------------
LEMMA SpendIs ==
  ASSUME Typed, NEW ms \in SUBSET Mishaps, SpendAll(ms)
  PROVE  /\ spent' \in [Mishaps -> Nat]
         /\ \A m \in Mishaps : spent'[m] = IF m \in ms THEN spent[m] + 1 ELSE spent[m]
BY DEF SpendAll, Typed

LEMMA EntryIs ==
  ASSUME Typed, NEW c \in Callers
  PROVE  Host(c) \in Hosts /\ Entry(c) \in Entries /\ Presented(c) \in Entries
BY TargetsAssumption DEF Typed, Host, Entry, Presented, Entries


(***************************************************************************)
(* The file: what the two writes do to its lines.                          *)
(***************************************************************************)
LEMMA WriteIs ==
  ASSUME Typed, NEW e \in Entries
  PROVE  /\ Write(file, e) \in Seq(Seq(Entries))
         /\ Len(Write(file, e)) = Len(file)
         /\ Write(file, e)[Len(file)] = Append(LastLine, e)
         /\ \A i \in 1..(Len(file) - 1) : Write(file, e)[i] = file[i]
<1>1. LastLine \in Seq(Entries) BY DEF Typed, LastLine
<1>2. Append(LastLine, e) \in Seq(Entries) BY <1>1
<1> QED BY <1>2 DEF Write, Typed, LastLine

LEMMA EndLineIs ==
  ASSUME NEW text \in Seq(Seq(Entries))
  PROVE  /\ EndLine(text) \in Seq(Seq(Entries))
         /\ Len(EndLine(text)) = Len(text) + 1
         /\ EndLine(text)[Len(text) + 1] = <<>>
         /\ \A i \in 1..Len(text) : EndLine(text)[i] = text[i]
<1>1. <<>> \in Seq(Entries) OBVIOUS
<1> QED BY <1>1 DEF EndLine

(* What ssh records. *)
LEMMA RecordIs ==
  ASSUME Typed, NEW e \in Entries
  PROVE  LET text == EndLine(Write(file, e))
         IN  /\ text \in Seq(Seq(Entries))
             /\ Len(text) = Len(file) + 1
             /\ text[Len(file) + 1] = <<>>
             /\ text[Len(file)] = Append(LastLine, e)
             /\ \A i \in 1..(Len(file) - 1) : text[i] = file[i]
<1> DEFINE line == Write(file, e)
<1>1. /\ line \in Seq(Seq(Entries)) /\ Len(line) = Len(file)
      /\ line[Len(file)] = Append(LastLine, e)
      /\ \A i \in 1..(Len(file) - 1) : line[i] = file[i]
  BY WriteIs
<1> HIDE DEF line
<1>2. /\ EndLine(line) \in Seq(Seq(Entries)) /\ Len(EndLine(line)) = Len(line) + 1
      /\ EndLine(line)[Len(line) + 1] = <<>>
      /\ \A i \in 1..Len(line) : EndLine(line)[i] = line[i]
  BY <1>1, EndLineIs
<1>3. Len(file) \in Nat \ {0} /\ Len(file) \in 1..Len(line) BY <1>1 DEF Typed
<1>4. EndLine(line)[Len(file)] = Append(LastLine, e)
  <2>1. EndLine(line)[Len(file)] = line[Len(file)] BY <1>2, <1>3
  <2> QED BY <1>1, <2>1
<1>5. \A i \in 1..(Len(file) - 1) : EndLine(line)[i] = file[i] BY <1>1, <1>2, <1>3
<1> QED BY <1>1, <1>2, <1>4, <1>5 DEF line

(* A write leaves every line but the last as it is: what is on a line of   *)
(* its own stays there, if the last line is empty or is left alone.        *)
LEMMA WriteKeeps ==
  ASSUME Typed, NEW e \in Entries, LastLine = <<>>, file' = Write(file, e)
  PROVE  \A f \in Entries : Present(f) => Present(f)'
<1> SUFFICES ASSUME NEW f \in Entries, Present(f) PROVE Present(f)'
  OBVIOUS
<1>1. PICK i \in DOMAIN file : file[i] = <<f>> BY DEF Present
<1>2. i \in 1..Len(file) BY <1>1 DEF Typed
<1>3. i # Len(file)
  <2>1. <<f>> # <<>> OBVIOUS
  <2> QED BY <1>1, <2>1 DEF LastLine
<1>4. i \in 1..(Len(file) - 1) BY <1>2, <1>3 DEF Typed
<1>5. file'[i] = <<f>> /\ i \in DOMAIN file'
  <2>1. file'[i] = file[i] BY <1>4, WriteIs
  <2>2. Len(file') \in Nat /\ Len(file') >= Len(file) /\ DOMAIN file' = 1..Len(file')
    BY WriteIs DEF Typed
  <2> QED BY <1>1, <1>2, <2>1, <2>2 DEF Typed
<1> QED BY <1>5 DEF Present

LEMMA EndLineKeeps ==
  ASSUME Typed, file' = EndLine(file)
  PROVE  \A f \in Entries : Present(f) => Present(f)'
<1> SUFFICES ASSUME NEW f \in Entries, Present(f) PROVE Present(f)'
  OBVIOUS
<1>1. PICK i \in DOMAIN file : file[i] = <<f>> BY DEF Present
<1>2. file \in Seq(Seq(Entries)) /\ Len(file) \in Nat BY DEF Typed
<1>3. i \in 1..Len(file) BY <1>1, <1>2
<1>4. /\ file' \in Seq(Seq(Entries)) /\ Len(file') = Len(file) + 1
      /\ \A j \in 1..Len(file) : file'[j] = file[j]
  BY <1>2, EndLineIs
<1>5. i \in DOMAIN file' BY <1>2, <1>3, <1>4
<1> QED BY <1>1, <1>3, <1>4, <1>5 DEF Present

LEMMA RecordKeeps ==
  ASSUME Typed, NEW e \in Entries, LastLine = <<>>,
         file' = EndLine(Write(file, e))
  PROVE  \A f \in Entries : Present(f) => Present(f)'
<1> SUFFICES ASSUME NEW f \in Entries, Present(f) PROVE Present(f)'
  OBVIOUS
<1>1. PICK i \in DOMAIN file : file[i] = <<f>> BY DEF Present
<1>2. i \in 1..Len(file) BY <1>1 DEF Typed
<1>3. i # Len(file)
  <2>1. <<f>> # <<>> OBVIOUS
  <2> QED BY <1>1, <2>1 DEF LastLine
<1>4. i \in 1..(Len(file) - 1) BY <1>2, <1>3 DEF Typed
<1>5. file'[i] = <<f>> /\ i \in DOMAIN file'
  <2>1. file'[i] = file[i] BY <1>4, RecordIs
  <2>2. Len(file') \in Nat /\ Len(file') >= Len(file) /\ DOMAIN file' = 1..Len(file')
    BY RecordIs DEF Typed
  <2> QED BY <1>1, <1>2, <2>1, <2>2 DEF Typed
<1> QED BY <1>5 DEF Present

-----------------------------------------------------------------------------
(***************************************************************************)
(* Types.                                                                  *)
(***************************************************************************)
LEMMA TypedInit == ASSUME Init PROVE Typed
<1>1. file = << <<>> >> /\ target \in Targets BY DEF Init
<1>2. hostKey \in [Hosts -> Keys] /\ pin \in [Callers -> Keys] BY KeysAssumption DEF Init
<1>3. pc \in [Callers -> {"idle", "check", "line", "break", "ssh"}] BY DEF Init
<1>4. spent \in [Mishaps -> Nat] BY DEF Init
<1>5. <<>> \in Seq(Entries) OBVIOUS
<1> QED BY <1>1, <1>2, <1>3, <1>4, <1>5 DEF Typed

LEMMA IntactInit == ASSUME Init PROVE Intact
BY DEF Init, Intact, LastLine

-----------------------------------------------------------------------------
(***************************************************************************)
(* What happens to mishaps, and to the place of a caller.                  *)
(***************************************************************************)
LEMMA Onward ==
  ASSUME Typed, NEW c \in Callers, NEW label \in {"idle", "check", "line", "break", "ssh"},
         Goto(c, label)
  PROVE  /\ pc' \in [Callers -> {"idle", "check", "line", "break", "ssh"}]
         /\ pc'[c] = label
         /\ \A d \in Callers : d # c => pc'[d] = pc[d]
BY DEF Goto, Typed

(* What is spent stays spent. *)
LEMMA CalmBefore ==
  ASSUME Typed, NEW ms \in SUBSET Mishaps, SpendAll(ms), Calm'
  PROVE  Calm /\ "tear" \notin ms /\ "crash" \notin ms /\ "fault" \notin ms
<1>1. {"tear", "crash", "fault"} \subseteq Mishaps BY DEF Mishaps
<1>2. \A m \in {"tear", "crash", "fault"} :
        spent[m] \in Nat /\ spent'[m] = IF m \in ms THEN spent[m] + 1 ELSE spent[m]
  BY <1>1, SpendIs DEF Typed
<1> QED BY <1>2 DEF Calm, Spoilt0

LEMMA TearsIs ==
  /\ Tears \in SUBSET Mishaps
  /\ "tear" \notin Tears => \A d \in Callers : pc[d] # "break"
BY DEF Tears, Mishaps

(***************************************************************************)
(* The steps.                                                              *)
(***************************************************************************)
(* What may not disturb: nobody's place, the file, the target. *)
LEMMA AroundStep ==
  ASSUME IInv, Reconfigure \/ Replace \/ Repin
  PROVE  IInv'
<1>1. /\ UNCHANGED <<file, target, pc>>
      /\ hostKey' \in [Hosts -> Keys] /\ pin' \in [Callers -> Keys]
      /\ \A c \in Callers : pc[c] # "idle" => pin'[c] = pin[c]
      /\ \E m \in Mishaps : Spend(m)
  <2>1. CASE Reconfigure BY <2>1 DEF Reconfigure, Around, IInv, Typed, Entry, Host, Mishaps
  <2>2. CASE Replace BY <2>2 DEF Replace, Around, IInv, Typed, Entry, Host, Mishaps
  <2>3. CASE Repin BY <2>3 DEF Repin, Around, IInv, Typed, Entry, Host, Mishaps
  <2> QED BY <2>1, <2>2, <2>3
<1>2. PICK m \in Mishaps : SpendAll({m}) BY <1>1 DEF Spend
<1>3. Typed' BY <1>1, <1>2, SpendIs DEF IInv, Typed
<1>4. ASSUME Calm' PROVE Calm BY <1>2, <1>4, CalmBefore DEF IInv
<1>5. \A c \in Callers : pc[c] # "idle" => Entry(c)' = Entry(c)
  BY <1>1 DEF Entry, Host
<1>6. Intact'
  BY <1>1, <1>4, <1>5 DEF IInv, Intact, LastLine, Pinned, Present
<1> QED BY <1>3, <1>6 DEF IInv

LEMMA CrashStep ==
  ASSUME IInv, NEW c \in Callers, Crash(c)
  PROVE  IInv'
<1>1. SpendAll({"crash"}) /\ {"crash"} \in SUBSET Mishaps BY DEF Crash, Spend, Mishaps
<1>2. Typed'
  <2>1. spent' \in [Mishaps -> Nat] BY <1>1, SpendIs DEF IInv
  <2> QED BY <2>1 DEF Crash, IInv, Typed, router
<1>3. ~Calm' BY <1>1, CalmBefore DEF IInv
<1> QED BY <1>2, <1>3 DEF IInv, Intact

LEMMA FileFailsStep ==
  ASSUME IInv, NEW c \in Callers, FileFails(c)
  PROVE  IInv'
<1>1. SpendAll({"fault"}) /\ {"fault"} \in SUBSET Mishaps BY DEF FileFails, Spend, Mishaps
<1>2. Typed'
  <2>1. spent' \in [Mishaps -> Nat] BY <1>1, SpendIs DEF IInv
  <2>2. Goto(c, "idle") BY DEF FileFails, Return
  <2>3. pc' \in [Callers -> {"idle", "check", "line", "break", "ssh"}] BY <2>2, Onward DEF IInv
  <2> QED BY <2>1, <2>3 DEF FileFails, IInv, Typed, router
<1>3. ~Calm' BY <1>1, CalmBefore DEF IInv
<1> QED BY <1>2, <1>3 DEF IInv, Intact

LEMMA CallStep ==
  ASSUME IInv, NEW c \in Callers, Call(c)
  PROVE  IInv'
<1> DEFINE label == IF Pinned(c) THEN "check" ELSE "ssh"
<1>1. Goto(c, label) /\ UNCHANGED <<file, router, spent>> /\ pc[c] = "idle" BY DEF Call
<1>2. /\ pc' \in [Callers -> {"idle", "check", "line", "break", "ssh"}]
      /\ pc'[c] = label /\ \A d \in Callers : d # c => pc'[d] = pc[d]
  BY <1>1, Onward DEF IInv
<1>3. Typed' BY <1>1, <1>2 DEF IInv, Typed, router
<1>4. \A d \in Callers : pc'[d] = "break" <=> pc[d] = "break" BY <1>1, <1>2
<1>5. \A d \in Callers : pc'[d] = "ssh" /\ Pinned(d) => pc[d] = "ssh" BY <1>1, <1>2
<1>6. Intact'
  BY <1>1, <1>4, <1>5 DEF IInv, Intact, router, Calm, Spoilt0, LastLine, Pinned, Present, Entry, Host
<1> QED BY <1>3, <1>6 DEF IInv

LEMMA CheckStep ==
  ASSUME IInv, NEW c \in Callers, Check(c)
  PROVE  IInv'
<1> DEFINE label == IF Present(Entry(c)) THEN "ssh" ELSE "line"
<1>1. Goto(c, label) /\ UNCHANGED <<file, router, spent>> /\ pc[c] = "check" BY DEF Check
<1>2. /\ pc' \in [Callers -> {"idle", "check", "line", "break", "ssh"}]
      /\ pc'[c] = label /\ \A d \in Callers : d # c => pc'[d] = pc[d]
  BY <1>1, Onward DEF IInv
<1>3. Typed' BY <1>1, <1>2 DEF IInv, Typed, router
<1>4. \A d \in Callers : pc'[d] = "break" <=> pc[d] = "break" BY <1>1, <1>2
<1>5. \A d \in Callers : pc'[d] = "ssh" => pc[d] = "ssh" \/ Present(Entry(d)) BY <1>1, <1>2
<1>6. Intact'
  BY <1>1, <1>4, <1>5 DEF IInv, Intact, router, Calm, Spoilt0, LastLine, Pinned, Present, Entry, Host
<1> QED BY <1>3, <1>6 DEF IInv

LEMMA WriteLineStep ==
  ASSUME IInv, NEW c \in Callers, WriteLine(c)
  PROVE  IInv'
<1>1. /\ Goto(c, "break") /\ pc[c] = "line" /\ UNCHANGED router
      /\ SpendAll(Tears) /\ file' = Write(file, Entry(c))
  BY DEF WriteLine
<1>2. /\ pc' \in [Callers -> {"idle", "check", "line", "break", "ssh"}]
      /\ pc'[c] = "break" /\ \A d \in Callers : d # c => pc'[d] = pc[d]
  BY <1>1, Onward DEF IInv
<1>3. Entry(c) \in Entries BY EntryIs DEF IInv
<1>4. Typed'
  <2>1. spent' \in [Mishaps -> Nat] BY <1>1, SpendIs, TearsIs DEF IInv
  <2>2. file' \in Seq(Seq(Entries)) /\ Len(file') > 0 BY <1>1, <1>3, WriteIs DEF IInv, Typed
  <2> QED BY <1>1, <1>2, <2>1, <2>2 DEF IInv, Typed, router
<1>5. ASSUME Calm' 
      PROVE  /\ \A d, e \in Callers : pc'[d] = "break" /\ pc'[e] = "break" => d = e
             /\ \A d \in Callers : pc'[d] = "break" => LastLine' = <<Entry(d)'>>
             /\ \E d \in Callers : pc'[d] = "break"
             /\ \A d \in Callers : pc'[d] = "ssh" /\ Pinned(d)' => Present(Entry(d))'
  <2>1. Calm /\ "tear" \notin Tears BY <1>1, <1>5, CalmBefore, TearsIs DEF IInv
  <2>2. \A d \in Callers : pc[d] # "break" BY <2>1, TearsIs
  <2>3. LastLine = <<>> BY <2>1, <2>2 DEF IInv, Intact
  <2>4. LastLine' = <<Entry(c)>>
    <3>1. LastLine' = Append(LastLine, Entry(c)) BY <1>1, <1>3, WriteIs DEF LastLine, IInv
    <3> QED BY <2>3, <3>1
  <2>5. \A d \in Callers : Entry(d)' = Entry(d) /\ Pinned(d)' = Pinned(d)
    BY <1>1 DEF router, Entry, Host, Pinned
  <2>6. ASSUME NEW d \in Callers, pc'[d] = "ssh", Pinned(d)' PROVE Present(Entry(d))'
    <3>1. pc[d] = "ssh" /\ Pinned(d) BY <1>2, <2>5, <2>6
    <3>2. Present(Entry(d)) BY <2>1, <3>1 DEF IInv, Intact
    <3>3. \A f \in Entries : Present(f) => Present(f)' BY <1>1, <1>3, <2>3, WriteKeeps DEF IInv
    <3>4. Entry(d) \in Entries BY EntryIs DEF IInv
    <3> QED BY <2>5, <3>2, <3>3, <3>4 DEF Present
  <2> QED BY <1>2, <2>2, <2>4, <2>5, <2>6
<1>6. Intact' BY <1>5 DEF Intact
<1> QED BY <1>4, <1>6 DEF IInv

LEMMA WriteBreakStep ==
  ASSUME IInv, NEW c \in Callers, WriteBreak(c)
  PROVE  IInv'
<1>1. /\ Goto(c, "ssh") /\ pc[c] = "break" /\ UNCHANGED <<router, spent>>
      /\ file' = EndLine(file)
  BY DEF WriteBreak
<1>2. /\ pc' \in [Callers -> {"idle", "check", "line", "break", "ssh"}]
      /\ pc'[c] = "ssh" /\ \A d \in Callers : d # c => pc'[d] = pc[d]
  BY <1>1, Onward DEF IInv
<1>3. /\ file' \in Seq(Seq(Entries)) /\ Len(file') = Len(file) + 1
      /\ LastLine' = <<>> /\ \A i \in 1..Len(file) : file'[i] = file[i]
  BY <1>1, EndLineIs DEF IInv, Typed, LastLine
<1>4. Typed' BY <1>1, <1>2, <1>3 DEF IInv, Typed, router
<1>5. ASSUME Calm'
      PROVE  /\ \A d \in Callers : pc'[d] # "break"
             /\ \A d \in Callers : pc'[d] = "ssh" /\ Pinned(d)' => Present(Entry(d))'
  <2>1. Calm BY <1>1, <1>5 DEF Calm, Spoilt0
  <2>2. \A d \in Callers : pc'[d] # "break" BY <1>1, <1>2, <2>1 DEF IInv, Intact
  <2>3. \A d \in Callers : Entry(d)' = Entry(d) /\ Pinned(d)' = Pinned(d)
    BY <1>1 DEF router, Entry, Host, Pinned
  <2>4. ASSUME NEW d \in Callers, pc'[d] = "ssh", Pinned(d)' PROVE Present(Entry(d))'
    <3>1. CASE d = c
      <4>1. LastLine = <<Entry(d)>> BY <1>1, <2>1, <3>1 DEF IInv, Intact
      <4>2. Len(file) \in 1..Len(file) /\ Len(file) \in DOMAIN file'
        BY <1>3 DEF IInv, Typed
      <4>3. file'[Len(file)] = <<Entry(d)>> BY <1>3, <4>1, <4>2 DEF LastLine
      <4> QED BY <2>3, <4>2, <4>3 DEF Present
    <3>2. CASE d # c
      <4>1. Present(Entry(d)) BY <1>2, <2>1, <2>3, <2>4, <3>2 DEF IInv, Intact
      <4>2. \A f \in Entries : Present(f) => Present(f)' BY <1>1, EndLineKeeps DEF IInv
      <4>3. Entry(d) \in Entries BY EntryIs DEF IInv
      <4> QED BY <2>3, <4>1, <4>2, <4>3 DEF Present
    <3> QED BY <3>1, <3>2
  <2> QED BY <2>2, <2>4
<1>6. Intact' BY <1>3, <1>5 DEF Intact
<1> QED BY <1>4, <1>6 DEF IInv

LEMMA SshFailsStep ==
  ASSUME IInv, NEW c \in Callers, SshFails(c)
  PROVE  IInv'
<1>1. /\ Goto(c, "idle") /\ pc[c] = "ssh" /\ UNCHANGED <<file, router>>
      /\ UNCHANGED spent \/ SpendAll({"fault"})
  BY DEF SshFails, Return, Spend
<1>2. /\ pc' \in [Callers -> {"idle", "check", "line", "break", "ssh"}]
      /\ pc'[c] = "idle" /\ \A d \in Callers : d # c => pc'[d] = pc[d]
  BY <1>1, Onward DEF IInv
<1>3. {"fault"} \in SUBSET Mishaps BY DEF Mishaps
<1>4. spent' \in [Mishaps -> Nat] BY <1>1, <1>3, SpendIs DEF IInv, Typed
<1>5. Typed' BY <1>1, <1>2, <1>4 DEF IInv, Typed, router
<1>6. Calm' => Calm BY <1>1, <1>3, CalmBefore DEF IInv, Calm, Spoilt0
<1>7. \A d \in Callers : (pc'[d] = "break" <=> pc[d] = "break") /\ (pc'[d] = "ssh" => pc[d] = "ssh")
  BY <1>1, <1>2
<1>8. Intact' BY <1>1, <1>6, <1>7 DEF IInv, Intact, router, LastLine, Pinned, Present, Entry, Host
<1> QED BY <1>5, <1>8 DEF IInv

LEMMA SshStep ==
  ASSUME IInv, NEW c \in Callers, Ssh(c)
  PROVE  IInv'
<1>1. /\ Goto(c, "idle") /\ pc[c] = "ssh" /\ UNCHANGED router
      /\ file' = IF Records(c) THEN EndLine(Write(file, Presented(c))) ELSE file
      /\ SpendAll(Torn(c)) \/ SpendAll(Torn(c) \cup {"fault"})
  BY DEF Ssh, Return
<1>2. /\ pc' \in [Callers -> {"idle", "check", "line", "break", "ssh"}]
      /\ pc'[c] = "idle" /\ \A d \in Callers : d # c => pc'[d] = pc[d]
  BY <1>1, Onward DEF IInv
<1>3. Torn(c) \in SUBSET Mishaps /\ Torn(c) \cup {"fault"} \in SUBSET Mishaps
  BY TearsIs DEF Torn, Mishaps
<1>4. Presented(c) \in Entries BY EntryIs DEF IInv
<1>5. spent' \in [Mishaps -> Nat] BY <1>1, <1>3, SpendIs DEF IInv
<1>6. file' \in Seq(Seq(Entries)) /\ Len(file') > 0 BY <1>1, <1>4, RecordIs DEF IInv, Typed
<1>7. Typed' BY <1>1, <1>2, <1>5, <1>6 DEF IInv, Typed, router
<1>8. ASSUME Calm' PROVE Calm /\ "tear" \notin Torn(c)
  BY <1>1, <1>3, <1>8, CalmBefore DEF IInv
<1>9. \A d \in Callers : (pc'[d] = "break" <=> pc[d] = "break") /\ (pc'[d] = "ssh" => pc[d] = "ssh")
  BY <1>1, <1>2
<1>10. \A d \in Callers : Entry(d)' = Entry(d) /\ Pinned(d)' = Pinned(d)
  BY <1>1 DEF router, Entry, Host, Pinned
<1>11. Intact'
  <2>1. CASE ~Records(c)
    <3>1. UNCHANGED file BY <1>1, <2>1
    <3> QED BY <3>1, <1>8, <1>9, <1>10 DEF IInv, Intact, LastLine, Present
  <2>2. CASE Records(c)
    <3> SUFFICES ASSUME Calm'
                 PROVE  /\ \A d \in Callers : pc'[d] # "break"
                        /\ LastLine' = <<>>
                        /\ \A d \in Callers : pc'[d] = "ssh" /\ Pinned(d)' => Present(Entry(d))'
      BY DEF Intact
    <3>1. Calm /\ "tear" \notin Tears BY <1>8, <2>2 DEF Torn
    <3>2. \A d \in Callers : pc[d] # "break" BY <3>1, TearsIs
    <3>3. LastLine = <<>> BY <3>1, <3>2 DEF IInv, Intact
    <3>4. file' = EndLine(Write(file, Presented(c))) BY <1>1, <2>2
    <3>5. LastLine' = <<>> BY <3>4, <1>4, RecordIs DEF IInv, LastLine
    <3>6. \A f \in Entries : Present(f) => Present(f)'
      BY <1>4, <3>3, <3>4, RecordKeeps DEF IInv
    <3>7. ASSUME NEW d \in Callers, pc'[d] = "ssh", Pinned(d)' PROVE Present(Entry(d))'
      <4>1. Present(Entry(d)) BY <1>9, <1>10, <3>1, <3>7 DEF IInv, Intact
      <4>2. Entry(d) \in Entries BY EntryIs DEF IInv
      <4> QED BY <1>10, <3>6, <4>1, <4>2 DEF Present
    <3> QED BY <1>9, <3>2, <3>5, <3>7
  <2> QED BY <2>1, <2>2
<1> QED BY <1>7, <1>11 DEF IInv

-----------------------------------------------------------------------------
LEMMA Stuttering == ASSUME IInv, UNCHANGED vars PROVE IInv'
<1>1. UNCHANGED <<file, router, pc, spent>> BY DEF vars
<1>2. Typed' BY <1>1 DEF IInv, Typed, router
<1>3. Intact'
  BY <1>1 DEF IInv, Intact, router, Calm, Spoilt0, LastLine, Pinned, Present, Entry, Host
<1> QED BY <1>2, <1>3 DEF IInv

(* The inductive invariant: until a write is torn, cut short or fails, one *)
(* caller at most is between its two writes, the last line is what it      *)
(* wrote, or empty, and a caller that gets to ssh finds its pin on a line  *)
(* of its own (ssh.rs, materialize_pin).                                   *)
THEOREM Invariance == Spec => []IInv
<1>1. Init => IInv BY TypedInit, IntactInit DEF IInv
<1>2. IInv /\ [Next]_vars => IInv'
  <2> SUFFICES ASSUME IInv, [Next]_vars PROVE IInv' OBVIOUS
  <2>1. CASE Reconfigure \/ Replace \/ Repin BY <2>1, AroundStep
  <2>2. ASSUME NEW c \in Callers, Crash(c) PROVE IInv' BY <2>2, CrashStep
  <2>3. ASSUME NEW c \in Callers, FileFails(c) PROVE IInv' BY <2>3, FileFailsStep
  <2>4. ASSUME NEW c \in Callers, Call(c) PROVE IInv' BY <2>4, CallStep
  <2>5. ASSUME NEW c \in Callers, Check(c) PROVE IInv' BY <2>5, CheckStep
  <2>6. ASSUME NEW c \in Callers, WriteLine(c) PROVE IInv' BY <2>6, WriteLineStep
  <2>7. ASSUME NEW c \in Callers, WriteBreak(c) PROVE IInv' BY <2>7, WriteBreakStep
  <2>8. ASSUME NEW c \in Callers, SshFails(c) PROVE IInv' BY <2>8, SshFailsStep
  <2>9. ASSUME NEW c \in Callers, Ssh(c) PROVE IInv' BY <2>9, SshStep
  <2>10. CASE UNCHANGED vars BY <2>10, Stuttering
  <2> QED BY <2>1, <2>2, <2>3, <2>4, <2>5, <2>6, <2>7, <2>8, <2>9, <2>10 DEF Next, Step
<1> QED BY <1>1, <1>2, PTL DEF Spec

(* A pin that is right is not refused unless a write of it was torn, cut   *)
(* short by a crash or failed, for any number of callers that share the    *)
(* file and whatever is replaced or recorded anew (ssh.rs,                 *)
(* materialize_pin).                                                       *)
THEOREM RightPins == Spec => []RightPinIsAccepted
<1>1. IInv => RightPinIsAccepted
  <2> SUFFICES ASSUME IInv, NEW c \in Callers, pc[c] = "ssh", Pinned(c), ~Verified(c),
                      hostKey[Host(c)] = pin[c]
               PROVE  Spoilt0 > 0
    BY DEF RightPinIsAccepted, Spoilt0
  <2>1. Presented(c) = Entry(c) BY DEF Presented, Entry
  <2>2. ~Present(Entry(c)) BY <2>1 DEF Verified
  <2>3. ~Calm BY <2>2 DEF IInv, Intact
  <2>4. {"tear", "crash", "fault"} \subseteq Mishaps BY DEF Mishaps
  <2> QED BY <2>3, <2>4 DEF Calm, Spoilt0, IInv, Typed
<1> QED BY <1>1, Invariance, PTL

-----------------------------------------------------------------------------
(***************************************************************************)
(* How large the file gets.  A line has one entry, or it was spoilt: every *)
(* spoilt line, and a last line that waits to be spoilt, is paid for by a  *)
(* mishap.  Who is about to write an entry found none of it, so once there *)
(* is a line of it only those are left that were about to write it then.   *)
(***************************************************************************)
Only(text, e) == {i \in DOMAIN text : text[i] = <<e>>}
Spoiled(text) == {i \in DOMAIN text : Len(text[i]) >= 2}

Alone(e)   == Only(file, e)
Crowded    == Spoiled(file)
Waiting(e) == {c \in Callers : pc[c] = "line" /\ Entry(c) = e}
Unended    == LastLine # <<>> /\ \A c \in Callers : pc[c] # "break"

Paid ==
  /\ Cardinality(Crowded) <= Spoilt0
  /\ Unended => Cardinality(Crowded) + 1 <= Spoilt0
Wanted ==
  \A e \in Entries :
    Alone(e) # {} => Cardinality(Alone(e)) + Cardinality(Waiting(e)) <= Cardinality(Callers)

Bounded == Paid /\ Wanted

LEMMA Finite ==
  ASSUME Typed
  PROVE  /\ DOMAIN file = 1..Len(file) /\ Len(file) \in Nat \ {0}
         /\ IsFiniteSet(Crowded) /\ Cardinality(Crowded) \in Nat
         /\ \A e \in Entries :
              /\ IsFiniteSet(Alone(e)) /\ Cardinality(Alone(e)) \in Nat
              /\ IsFiniteSet(Waiting(e)) /\ Cardinality(Waiting(e)) \in Nat
         /\ Cardinality(Callers) \in Nat /\ Spoilt0 \in Nat
<1>1. DOMAIN file = 1..Len(file) /\ Len(file) \in Nat \ {0} BY DEF Typed
<1>2. IsFiniteSet(1..Len(file)) BY <1>1, FS_Interval
<1>3. Crowded \in SUBSET (1..Len(file)) BY <1>1 DEF Crowded, Spoiled
<1>4. IsFiniteSet(Crowded) /\ Cardinality(Crowded) \in Nat
  BY <1>2, <1>3, FS_Subset, FS_CardinalityType
<1>5. ASSUME NEW e \in Entries
      PROVE  /\ IsFiniteSet(Alone(e)) /\ Cardinality(Alone(e)) \in Nat
             /\ IsFiniteSet(Waiting(e)) /\ Cardinality(Waiting(e)) \in Nat
  <2>1. Alone(e) \in SUBSET (1..Len(file)) /\ Waiting(e) \in SUBSET Callers
    BY <1>1 DEF Alone, Only, Waiting
  <2> QED BY <1>2, <2>1, FS_Subset, FS_CardinalityType, CallersAssumption
<1>6. {"tear", "crash", "fault"} \subseteq Mishaps BY DEF Mishaps
<1>7. Spoilt0 \in Nat BY <1>6 DEF Spoilt0, Typed
<1> QED BY <1>1, <1>4, <1>5, <1>7, FS_CardinalityType, CallersAssumption

LEMMA Costs ==
  ASSUME Typed, NEW ms \in SUBSET Mishaps, SpendAll(ms)
  PROVE  /\ Spoilt0 \in Nat /\ Spoilt0' \in Nat /\ Spoilt0' >= Spoilt0
         /\ ms \cap {"tear", "crash", "fault"} # {} => Spoilt0' >= Spoilt0 + 1
<1>1. {"tear", "crash", "fault"} \subseteq Mishaps BY DEF Mishaps
<1>2. \A m \in {"tear", "crash", "fault"} :
        spent[m] \in Nat /\ spent'[m] = IF m \in ms THEN spent[m] + 1 ELSE spent[m]
  BY <1>1, SpendIs DEF Typed
<1> QED BY <1>2 DEF Spoilt0

LEMMA BoundedInit == ASSUME Init PROVE Bounded
<1>1. Typed BY TypedInit
<1>2. \A i \in DOMAIN file : file[i] = <<>> BY DEF Init
<1>3. Crowded = {} BY <1>2 DEF Crowded, Spoiled
<1>4. \A e \in Entries : Alone(e) = {} BY <1>2 DEF Alone, Only
<1>5. ~Unended BY DEF Init, Unended, LastLine
<1> QED BY <1>1, <1>3, <1>4, <1>5, Finite, FS_EmptySet DEF Bounded, Paid, Wanted

(***************************************************************************)
(* A step that writes no entry: nobody comes to want an entry that   *)
(* is there, and who walks away from an unended line has had a mishap.     *)
(***************************************************************************)
LEMMA NothingWritten ==
  ASSUME Typed, Typed', Bounded, Crowded' = Crowded,
         \A e \in Entries : Alone(e)' = Alone(e),
         \A e \in Entries : Alone(e) # {} => Waiting(e)' \subseteq Waiting(e),
         Spoilt0' \in Nat, Spoilt0' >= Spoilt0, Unended' => Unended \/ Spoilt0' >= Spoilt0 + 1
  PROVE  Bounded'
<1>1. Paid'
  <2>1. Cardinality(Crowded) \in Nat /\ Spoilt0 \in Nat BY Finite
  <2>2. Cardinality(Crowded') = Cardinality(Crowded) OBVIOUS
  <2> QED BY <2>1, <2>2 DEF Bounded, Paid
<1>2. ASSUME NEW e \in Entries, Alone(e)' # {}
      PROVE  Cardinality(Alone(e)') + Cardinality(Waiting(e)') <= Cardinality(Callers)
  <2>1. Waiting(e)' \in SUBSET Waiting(e) BY <1>2
  <2>2. Cardinality(Waiting(e)') <= Cardinality(Waiting(e)) /\ Cardinality(Waiting(e)') \in Nat
    BY <2>1, Finite, FS_Subset, FS_CardinalityType
  <2> QED BY <1>2, <2>2, Finite DEF Bounded, Wanted
<1> QED BY <1>1, <1>2 DEF Bounded, Wanted

(***************************************************************************)
(* An entry is put on the last line, and what follows, if anything, is an  *)
(* empty line.                                                             *)
(***************************************************************************)
LEMMA OneMoreEntry ==
  ASSUME NEW old \in Seq(Seq(Entries)), NEW new \in Seq(Seq(Entries)), NEW e \in Entries,
         NEW n \in Nat \ {0}, NEW m \in Nat, m >= n,
         DOMAIN old = 1..n, DOMAIN new = 1..m, new[n] = Append(old[n], e),
         \A i \in 1..n : i < n => new[i] = old[i],
         \A i \in 1..m : i > n => new[i] = <<>>
  PROVE  /\ old[n] = <<>> => /\ Spoiled(new) = Spoiled(old)
                             /\ Only(new, e) = Only(old, e) \cup {n} /\ n \notin Only(old, e)
                             /\ \A f \in Entries \ {e} : Only(new, f) = Only(old, f)
         /\ old[n] # <<>> => /\ Spoiled(new) = Spoiled(old) \cup {n}
                             /\ \A f \in Entries : Only(new, f) \subseteq Only(old, f)
<1>1. n \in 1..n /\ n \in 1..m /\ old[n] \in Seq(Entries) OBVIOUS
<1>2. Len(new[n]) = Len(old[n]) + 1 /\ Len(old[n]) \in Nat BY <1>1
<1>3. \A i \in 1..m : i < n \/ i = n \/ i > n OBVIOUS
<1>4. \A i \in 1..m : i < n => i \in 1..n OBVIOUS
<1>5. 1..n \subseteq 1..m OBVIOUS
<1>6. Len(<<>>) = 0 /\ (\A f : Len(<<f>>) = 1 /\ <<f>> # <<>>) OBVIOUS
<1>7. \A i \in 1..m : i > n => i \notin 1..n OBVIOUS
<1>8. ASSUME old[n] = <<>>
      PROVE  /\ Spoiled(new) = Spoiled(old)
             /\ Only(new, e) = Only(old, e) \cup {n} /\ n \notin Only(old, e)
             /\ \A f \in Entries \ {e} : Only(new, f) = Only(old, f)
  <2>1. new[n] = <<e>> /\ Len(new[n]) = 1 /\ Len(old[n]) = 0 BY <1>1, <1>8
  <2>2. \A i \in 1..m : i > n => Len(new[i]) = 0 BY <1>6
  <2>3. ASSUME NEW i \in 1..m
        PROVE  /\ i \in Spoiled(new) <=> i \in Spoiled(old)
               /\ i \in Only(new, e) <=> i \in Only(old, e) \/ i = n
               /\ \A f \in Entries \ {e} : i \in Only(new, f) <=> i \in Only(old, f)
    <3>1. CASE i < n
      <4>1. i \in DOMAIN old /\ i \in DOMAIN new /\ new[i] = old[i] /\ i # n BY <1>4, <3>1
      <4> QED BY <4>1 DEF Spoiled, Only
    <3>2. CASE i = n
      <4>1. i \in DOMAIN old /\ i \in DOMAIN new BY <1>1, <3>2
      <4>2. ~(Len(new[i]) >= 2) /\ ~(Len(old[i]) >= 2)
        <5>1. Len(new[i]) = 1 /\ Len(old[i]) = 0 BY <2>1, <3>2
        <5> QED BY <5>1
      <4>3. \A f \in Entries : new[i] = <<f>> <=> f = e BY <2>1, <3>2
      <4>4. \A f \in Entries : old[i] # <<f>> BY <1>6, <1>8, <3>2
      <4> QED BY <3>2, <4>1, <4>2, <4>3, <4>4 DEF Spoiled, Only
    <3>3. CASE i > n
      <4>1. i \notin DOMAIN old /\ i \in DOMAIN new /\ i # n BY <1>7, <3>3
      <4>2. new[i] = <<>> /\ ~(Len(new[i]) >= 2)
        <5>1. Len(new[i]) = 0 /\ new[i] = <<>> BY <2>2, <3>3
        <5> QED BY <5>1
      <4> QED BY <1>6, <4>1, <4>2 DEF Spoiled, Only
    <3> QED BY <1>3, <3>1, <3>2, <3>3
  <2>6. n \notin Only(old, e) BY <1>6, <1>8 DEF Only
  <2>7. /\ Spoiled(new) \subseteq 1..m /\ Spoiled(old) \subseteq 1..m
        /\ \A f : Only(new, f) \subseteq 1..m /\ Only(old, f) \subseteq 1..m
    BY <1>5 DEF Spoiled, Only
  <2> QED BY <1>1, <2>3, <2>6, <2>7
<1>9. ASSUME old[n] # <<>>
      PROVE  /\ Spoiled(new) = Spoiled(old) \cup {n}
             /\ \A f \in Entries : Only(new, f) \subseteq Only(old, f)
  <2>1. Len(new[n]) >= 2
    <3>1. Len(old[n]) >= 1 BY <1>1, <1>9
    <3> QED BY <1>2, <3>1
  <2>2. \A i \in 1..m : i > n => Len(new[i]) = 0 BY <1>6
  <2>3. ASSUME NEW i \in 1..m
        PROVE  /\ i \in Spoiled(new) <=> i \in Spoiled(old) \/ i = n
               /\ \A f \in Entries : i \in Only(new, f) => i \in Only(old, f)
    <3>1. CASE i < n
      <4>1. i \in DOMAIN old /\ i \in DOMAIN new /\ new[i] = old[i] /\ i # n BY <1>4, <3>1
      <4> QED BY <4>1 DEF Spoiled, Only
    <3>2. CASE i = n
      <4>1. i \in DOMAIN new /\ Len(new[i]) >= 2 BY <1>1, <2>1, <3>2
      <4>2. ASSUME NEW f \in Entries, new[i] = <<f>> PROVE FALSE
        <5>1. Len(<<f>>) = 1 OBVIOUS
        <5>2. Len(new[i]) = 1 BY <4>2, <5>1
        <5> QED BY <4>1, <5>2
      <4> QED BY <3>2, <4>1, <4>2 DEF Spoiled, Only
    <3>3. CASE i > n
      <4>1. i \notin DOMAIN old /\ i # n BY <1>7, <3>3
      <4>2. new[i] = <<>> /\ ~(Len(new[i]) >= 2)
        <5>1. Len(new[i]) = 0 /\ new[i] = <<>> BY <2>2, <3>3
        <5> QED BY <5>1
      <4> QED BY <1>6, <4>1, <4>2 DEF Spoiled, Only
    <3> QED BY <1>3, <3>1, <3>2, <3>3
  <2>4. /\ Spoiled(new) \subseteq 1..m /\ Spoiled(old) \subseteq 1..m
        /\ \A f : Only(new, f) \subseteq 1..m
    BY <1>5 DEF Spoiled, Only
  <2> QED BY <1>1, <2>3, <2>4
<1> QED BY <1>8, <1>9

LEMMA LineWritten ==
  ASSUME Typed, Typed', NEW e \in Entries,
         Len(file') >= Len(file), file'[Len(file)] = Append(LastLine, e),
         \A i \in 1..Len(file) : i < Len(file) => file'[i] = file[i],
         \A i \in 1..Len(file') : i > Len(file) => file'[i] = <<>>
  PROVE  /\ LastLine = <<>> => /\ Crowded' = Crowded
                               /\ Alone(e)' = Alone(e) \cup {Len(file)} /\ Len(file) \notin Alone(e)
                               /\ \A f \in Entries \ {e} : Alone(f)' = Alone(f)
         /\ LastLine # <<>> => /\ Crowded' = Crowded \cup {Len(file)}
                               /\ \A f \in Entries : Alone(f)' \subseteq Alone(f)
<1>1. /\ file \in Seq(Seq(Entries)) /\ Len(file) \in Nat \ {0} /\ DOMAIN file = 1..Len(file)
      /\ file' \in Seq(Seq(Entries)) /\ Len(file') \in Nat /\ DOMAIN file' = 1..Len(file')
  BY DEF Typed
<1>2. file[Len(file)] = LastLine BY DEF LastLine
<1>3. \A i \in 1..Len(file) : i < Len(file) => file'[i] = file[i] OBVIOUS
<1> DEFINE n == Len(file)
           m == Len(file')
           new == file'
<1>4. /\ n \in Nat \ {0} /\ m \in Nat /\ m >= n /\ DOMAIN new = 1..m /\ new \in Seq(Seq(Entries))
      /\ DOMAIN file = 1..n /\ file \in Seq(Seq(Entries)) /\ file[n] = LastLine
      /\ new[n] = Append(file[n], e)
      /\ \A i \in 1..n : i < n => new[i] = file[i]
      /\ \A i \in 1..m : i > n => new[i] = <<>>
  BY <1>1, <1>2, <1>3
<1>5. /\ Crowded' = Spoiled(new) /\ Crowded = Spoiled(file)
      /\ \A f \in Entries : Alone(f)' = Only(new, f) /\ Alone(f) = Only(file, f)
  BY DEF Crowded, Alone, Spoiled, Only
<1> HIDE DEF n, m, new
<1>6. /\ file[n] = <<>> => /\ Spoiled(new) = Spoiled(file)
                           /\ Only(new, e) = Only(file, e) \cup {n} /\ n \notin Only(file, e)
                           /\ \A f \in Entries \ {e} : Only(new, f) = Only(file, f)
      /\ file[n] # <<>> => /\ Spoiled(new) = Spoiled(file) \cup {n}
                           /\ \A f \in Entries : Only(new, f) \subseteq Only(file, f)
  BY <1>4, OneMoreEntry
<1> QED BY <1>4, <1>5, <1>6 DEF n

(* The accounts of such a write: `c' gives up its place among those who    *)
(* wait, or e is new.                                                      *)
LEMMA EntryWritten ==
  ASSUME Typed, Typed', Bounded, NEW e \in Entries, NEW c \in Callers,
         Len(file') >= Len(file), file'[Len(file)] = Append(LastLine, e),
         \A i \in 1..Len(file) : i < Len(file) => file'[i] = file[i],
         \A i \in 1..Len(file') : i > Len(file) => file'[i] = <<>>,
         Spoilt0' \in Nat, Spoilt0' >= Spoilt0, LastLine # <<>> /\ ~Unended => Spoilt0' >= Spoilt0 + 1,
         ~Unended', c \notin Waiting(e)', c \in Waiting(e) \/ Alone(e) = {},
         \A f \in Entries : Waiting(f)' \subseteq Waiting(f)
  PROVE  Bounded'
<1>1. CASE LastLine = <<>>
  <2>1. /\ Crowded' = Crowded
        /\ Alone(e)' = Alone(e) \cup {Len(file)} /\ Len(file) \notin Alone(e)
        /\ \A f \in Entries \ {e} : Alone(f)' = Alone(f)
    BY <1>1, LineWritten
  <2>2. Paid'
    <3>1. Cardinality(Crowded) \in Nat /\ Spoilt0 \in Nat BY Finite
    <3> QED BY <2>1, <3>1 DEF Bounded, Paid
  <2>3. ASSUME NEW f \in Entries, Alone(f)' # {}
        PROVE  Cardinality(Alone(f)') + Cardinality(Waiting(f)') <= Cardinality(Callers)
    <3>1. /\ Cardinality(Waiting(f)') <= Cardinality(Waiting(f))
          /\ Cardinality(Waiting(f)') \in Nat
      <4>1. IsFiniteSet(Waiting(f)) /\ Waiting(f)' \in SUBSET Waiting(f) BY Finite
      <4> QED BY <4>1, FS_Subset, FS_CardinalityType
    <3>2. CASE f # e BY <2>1, <2>3, <3>1, <3>2, Finite DEF Bounded, Wanted
    <3>3. CASE f = e
      <4>1. Cardinality(Alone(e)') = Cardinality(Alone(e)) + 1
        <5>1. IsFiniteSet(Alone(e)) BY Finite
        <5> QED BY <2>1, <5>1, FS_AddElement
      <4>2. CASE Alone(e) = {}
        <5>1. Cardinality(Alone(e)') = 1 BY <4>1, <4>2, FS_EmptySet
        <5>2. Waiting(e)' \in SUBSET (Callers \ {c}) BY DEF Waiting
        <5>3. IsFiniteSet(Callers \ {c}) /\ Cardinality(Callers \ {c}) = Cardinality(Callers) - 1
          BY CallersAssumption, FS_RemoveElement
        <5>4. Cardinality(Waiting(e)') <= Cardinality(Callers) - 1
          BY <5>2, <5>3, FS_Subset
        <5> QED BY <3>3, <5>1, <5>4, <3>1, Finite
      <4>3. CASE Alone(e) # {}
        <5>1. Waiting(e)' \in SUBSET (Waiting(e) \ {c}) /\ c \in Waiting(e) BY <4>3
        <5>2. /\ IsFiniteSet(Waiting(e) \ {c})
              /\ Cardinality(Waiting(e) \ {c}) = Cardinality(Waiting(e)) - 1
          BY <5>1, Finite, FS_RemoveElement
        <5>3. Cardinality(Waiting(e)') <= Cardinality(Waiting(e)) - 1
          BY <5>1, <5>2, FS_Subset
        <5>4. /\ Cardinality(Alone(e)) + Cardinality(Waiting(e)) <= Cardinality(Callers)
              /\ Cardinality(Alone(e)) \in Nat /\ Cardinality(Waiting(e)) \in Nat
              /\ Cardinality(Callers) \in Nat
          BY <4>3, Finite DEF Bounded, Wanted
        <5> QED BY <3>1, <3>3, <4>1, <5>3, <5>4
      <4> QED BY <4>2, <4>3
    <3> QED BY <3>2, <3>3
  <2> QED BY <2>2, <2>3 DEF Bounded, Wanted
<1>2. CASE LastLine # <<>>
  <2>1. /\ Crowded' = Crowded \cup {Len(file)}
        /\ \A f \in Entries : Alone(f)' \subseteq Alone(f)
    BY <1>2, LineWritten
  <2>2. /\ Cardinality(Crowded') <= Cardinality(Crowded) + 1
        /\ Cardinality(Crowded) \in Nat /\ Cardinality(Crowded') \in Nat /\ Spoilt0 \in Nat
    <3>1. IsFiniteSet(Crowded) /\ Cardinality(Crowded) \in Nat /\ Spoilt0 \in Nat BY Finite
    <3>2. /\ Cardinality(Crowded \cup {Len(file)}) <= Cardinality(Crowded) + 1
          /\ Cardinality(Crowded \cup {Len(file)}) \in Nat
      <4>1. Cardinality(Crowded \cup {Len(file)}) =
              IF Len(file) \in Crowded THEN Cardinality(Crowded) ELSE Cardinality(Crowded) + 1
        BY <3>1, FS_AddElement
      <4> QED BY <3>1, <4>1
    <3> QED BY <2>1, <3>1, <3>2
  <2>3. Paid' BY <1>2, <2>2 DEF Bounded, Paid
  <2>4. ASSUME NEW f \in Entries, Alone(f)' # {}
        PROVE  Cardinality(Alone(f)') + Cardinality(Waiting(f)') <= Cardinality(Callers)
    <3>1. /\ Cardinality(Waiting(f)') <= Cardinality(Waiting(f))
          /\ Cardinality(Waiting(f)') \in Nat
      <4>1. IsFiniteSet(Waiting(f)) /\ Waiting(f)' \in SUBSET Waiting(f) BY Finite
      <4> QED BY <4>1, FS_Subset, FS_CardinalityType
    <3>2. /\ Cardinality(Alone(f)') <= Cardinality(Alone(f))
          /\ Cardinality(Alone(f)') \in Nat /\ Alone(f) # {}
      <4>1. IsFiniteSet(Alone(f)) /\ Alone(f)' \in SUBSET Alone(f) BY <2>1, Finite
      <4> QED BY <2>4, <4>1, FS_Subset, FS_CardinalityType
    <3>3. /\ Cardinality(Alone(f)) + Cardinality(Waiting(f)) <= Cardinality(Callers)
          /\ Cardinality(Alone(f)) \in Nat /\ Cardinality(Waiting(f)) \in Nat
          /\ Cardinality(Callers) \in Nat
      BY <3>2, Finite DEF Bounded, Wanted
    <3> QED BY <3>1, <3>2, <3>3
  <2> QED BY <2>3, <2>4 DEF Bounded, Wanted
<1> QED BY <1>1, <1>2

LEMMA SameFile ==
  ASSUME UNCHANGED file
  PROVE  Crowded' = Crowded /\ \A e \in Entries : Alone(e)' = Alone(e)
BY DEF Crowded, Alone, Spoiled, Only

LEMMA PresentIs == ASSUME NEW e PROVE Present(e) <=> Alone(e) # {}
BY DEF Present, Alone, Only

LEMMA NewLines ==
  ASSUME Typed, NEW e \in Entries,
         file' = Write(file, e) \/ file' = EndLine(Write(file, e))
  PROVE  /\ Len(file') >= Len(file) /\ file'[Len(file)] = Append(LastLine, e)
         /\ \A i \in 1..Len(file) : i < Len(file) => file'[i] = file[i]
         /\ \A i \in 1..Len(file') : i > Len(file) => file'[i] = <<>>
<1>1. Len(file) \in Nat \ {0} BY DEF Typed
<1>2. \A i \in 1..Len(file) : i < Len(file) => i \in 1..(Len(file) - 1) BY <1>1
<1>3. CASE file' = Write(file, e)
  <2>1. /\ Len(file') = Len(file) /\ file'[Len(file)] = Append(LastLine, e)
        /\ \A i \in 1..(Len(file) - 1) : file'[i] = file[i]
    BY <1>3, WriteIs
  <2> QED BY <1>1, <1>2, <2>1
<1>4. CASE file' = EndLine(Write(file, e))
  <2>1. /\ Len(file') = Len(file) + 1 /\ file'[Len(file)] = Append(LastLine, e)
        /\ file'[Len(file) + 1] = <<>>
        /\ \A i \in 1..(Len(file) - 1) : file'[i] = file[i]
    BY <1>4, RecordIs
  <2>2. \A i \in 1..Len(file') : i > Len(file) => i = Len(file) + 1 BY <1>1, <2>1
  <2> QED BY <1>1, <1>2, <2>1, <2>2
<1> QED BY <1>3, <1>4

LEMMA AroundBounded ==
  ASSUME IInv, IInv', Bounded, Reconfigure \/ Replace \/ Repin
  PROVE  Bounded'
<1>1. /\ UNCHANGED <<file, target, pc>>
      /\ \A c \in Callers : pc[c] # "idle" => pin'[c] = pin[c]
      /\ \E m \in Mishaps : Spend(m)
  <2>1. CASE Reconfigure BY <2>1 DEF Reconfigure, Around, Mishaps
  <2>2. CASE Replace BY <2>2 DEF Replace, Around, Mishaps
  <2>3. CASE Repin BY <2>3 DEF Repin, Around, IInv, Typed, Mishaps
  <2> QED BY <2>1, <2>2, <2>3
<1>2. PICK m \in Mishaps : SpendAll({m}) BY <1>1 DEF Spend
<1>3. Spoilt0' \in Nat /\ Spoilt0' >= Spoilt0 BY <1>2, Costs DEF IInv
<1>4. \A e \in Entries : Waiting(e)' \subseteq Waiting(e)
  BY <1>1 DEF Waiting, Entry, Host
<1>5. Unended' => Unended BY <1>1 DEF Unended, LastLine
<1> QED BY <1>1, <1>3, <1>4, <1>5, SameFile, NothingWritten DEF IInv

(* Who leaves in the middle. *)
LEMMA LeftBounded ==
  ASSUME IInv, IInv', Bounded, NEW c \in Callers, Goto(c, "idle"), UNCHANGED <<file, target, pin>>,
         \/ SpendAll({"crash"}) \/ SpendAll({"fault"})
         \/ pc[c] = "ssh" /\ UNCHANGED spent
  PROVE  Bounded'
<1>1. pc'[c] = "idle" /\ \A d \in Callers : d # c => pc'[d] = pc[d] BY Onward DEF IInv
<1>2. {"crash"} \in SUBSET Mishaps /\ {"fault"} \in SUBSET Mishaps BY DEF Mishaps
<1>3. \A e \in Entries : Waiting(e)' \subseteq Waiting(e) BY <1>1 DEF Waiting, Entry, Host
<1>4. /\ Spoilt0' \in Nat /\ Spoilt0' >= Spoilt0
      /\ Spoilt0' >= Spoilt0 + 1 \/ pc[c] = "ssh"
  <2>1. CASE SpendAll({"crash"}) \/ SpendAll({"fault"}) BY <1>2, <2>1, Costs DEF IInv
  <2>2. CASE pc[c] = "ssh" /\ UNCHANGED spent
    <3>1. Spoilt0' = Spoilt0 BY <2>2 DEF Spoilt0
    <3>2. Spoilt0 \in Nat BY Finite DEF IInv
    <3> QED BY <2>2, <3>1, <3>2
  <2> QED BY <2>1, <2>2
<1>5. Unended' => Unended \/ Spoilt0' >= Spoilt0 + 1 BY <1>1, <1>4 DEF Unended, LastLine
<1> QED BY <1>3, <1>4, <1>5, SameFile, NothingWritten DEF IInv

(* Call and Check: on the way to the write, and past it.                   *)
LEMMA OnwardBounded ==
  ASSUME IInv, IInv', Bounded, NEW c \in Callers, Call(c) \/ Check(c)
  PROVE  Bounded'
<1>1. PICK label \in {"check", "line", "ssh"} :
        /\ Goto(c, label) /\ UNCHANGED <<file, router, spent>> /\ pc[c] # "break"
        /\ label = "line" => ~Present(Entry(c))
  BY DEF Call, Check
<1>2. pc'[c] = label /\ \A d \in Callers : d # c => pc'[d] = pc[d] BY <1>1, Onward DEF IInv
<1>3. \A d \in Callers : Entry(d)' = Entry(d) BY <1>1 DEF router, Entry, Host
<1>4. ASSUME NEW e \in Entries, Alone(e) # {} PROVE Waiting(e)' \subseteq Waiting(e)
  <2>1. Present(e) BY <1>4, PresentIs
  <2> QED BY <1>1, <1>2, <1>3, <2>1 DEF Waiting
<1>5. Spoilt0' = Spoilt0 /\ Spoilt0 \in Nat BY <1>1, Finite DEF Spoilt0, IInv
<1>6. Unended' => Unended BY <1>1, <1>2 DEF Unended, LastLine
<1> QED BY <1>1, <1>4, <1>5, <1>6, SameFile, NothingWritten DEF IInv

LEMMA WriteLineBounded ==
  ASSUME IInv, IInv', Bounded, NEW c \in Callers, WriteLine(c)
  PROVE  Bounded'
<1>1. /\ Goto(c, "break") /\ pc[c] = "line" /\ UNCHANGED router
      /\ SpendAll(Tears) /\ file' = Write(file, Entry(c))
  BY DEF WriteLine
<1>2. pc'[c] = "break" /\ \A d \in Callers : d # c => pc'[d] = pc[d] BY <1>1, Onward DEF IInv
<1>3. \A d \in Callers : Entry(d)' = Entry(d) BY <1>1 DEF router, Entry, Host
<1>4. \A f \in Entries : Waiting(f)' \subseteq Waiting(f) /\ c \notin Waiting(f)'
  BY <1>2, <1>3 DEF Waiting
<1>5. c \in Waiting(Entry(c)) BY <1>1 DEF Waiting
<1>6. /\ Spoilt0' \in Nat /\ Spoilt0' >= Spoilt0
      /\ "tear" \in Tears => Spoilt0' >= Spoilt0 + 1
  BY <1>1, Costs, TearsIs DEF IInv
<1>7. LastLine # <<>> /\ ~Unended => Spoilt0' >= Spoilt0 + 1
  BY <1>6 DEF Unended, Tears
<1>8. ~Unended' BY <1>2 DEF Unended
<1>9. PICK e \in Entries : e = Entry(c) BY EntryIs DEF IInv
<1> QED BY <1>1, <1>4, <1>5, <1>6, <1>7, <1>8, <1>9, NewLines, EntryWritten DEF IInv

LEMMA WriteBreakBounded ==
  ASSUME IInv, IInv', Bounded, NEW c \in Callers, WriteBreak(c)
  PROVE  Bounded'
<1>1. /\ Goto(c, "ssh") /\ pc[c] = "break" /\ UNCHANGED <<router, spent>>
      /\ file' = EndLine(file)
  BY DEF WriteBreak
<1>2. pc'[c] = "ssh" /\ \A d \in Callers : d # c => pc'[d] = pc[d] BY <1>1, Onward DEF IInv
<1>3. \A e \in Entries : Waiting(e)' \subseteq Waiting(e)
  BY <1>1, <1>2 DEF Waiting, router, Entry, Host
<1>4. /\ DOMAIN file = 1..Len(file) /\ Len(file) \in Nat
      /\ DOMAIN file' = 1..(Len(file) + 1) /\ file'[Len(file) + 1] = <<>>
      /\ \A i \in 1..Len(file) : file'[i] = file[i]
  <2>1. file \in Seq(Seq(Entries)) BY DEF IInv, Typed
  <2>2. /\ file' \in Seq(Seq(Entries)) /\ Len(file') = Len(file) + 1
        /\ file'[Len(file) + 1] = <<>> /\ \A i \in 1..Len(file) : file'[i] = file[i]
    BY <1>1, <2>1, EndLineIs
  <2> QED BY <2>1, <2>2
<1>5. /\ ~(Len(file'[Len(file) + 1]) >= 2)
      /\ \A e : file'[Len(file) + 1] # <<e>>
  <2>1. Len(<<>>) = 0 /\ \A e : <<e>> # <<>> OBVIOUS
  <2> QED BY <1>4, <2>1
<1>6. \A i \in 1..(Len(file) + 1) : i = Len(file) + 1 \/ i \in 1..Len(file) BY <1>4
<1>7. Crowded' = Crowded BY <1>4, <1>5, <1>6 DEF Crowded, Spoiled
<1>8. ASSUME NEW e \in Entries PROVE Alone(e)' = Alone(e)
  <2>1. Len(file) + 1 \notin DOMAIN file BY <1>4
  <2>2. file'[Len(file) + 1] # <<e>> BY <1>5
  <2>3. \A i \in 1..Len(file) : i \in DOMAIN file /\ i \in DOMAIN file' BY <1>4
  <2>4. Alone(e)' \subseteq Alone(e) BY <1>4, <1>6, <2>2, <2>3 DEF Alone, Only
  <2>5. Alone(e) \subseteq Alone(e)' BY <1>4, <2>3 DEF Alone, Only
  <2> QED BY <2>4, <2>5
<1>9. Spoilt0' = Spoilt0 /\ Spoilt0 \in Nat BY <1>1, Finite DEF Spoilt0, IInv
<1>10. ~Unended'
  <2>1. Len(file') = Len(file) + 1 BY <1>1, EndLineIs DEF IInv, Typed
  <2> QED BY <1>4, <2>1 DEF Unended, LastLine
<1> QED BY <1>3, <1>7, <1>8, <1>9, <1>10, NothingWritten DEF IInv

LEMMA SshBounded ==
  ASSUME IInv, IInv', Bounded, NEW c \in Callers, Ssh(c)
  PROVE  Bounded'
<1>1. /\ Goto(c, "idle") /\ pc[c] = "ssh" /\ UNCHANGED router
      /\ file' = IF Records(c) THEN EndLine(Write(file, Presented(c))) ELSE file
      /\ SpendAll(Torn(c)) \/ SpendAll(Torn(c) \cup {"fault"})
  BY DEF Ssh, Return
<1>2. pc'[c] = "idle" /\ \A d \in Callers : d # c => pc'[d] = pc[d] BY <1>1, Onward DEF IInv
<1>3. \A d \in Callers : Entry(d)' = Entry(d) BY <1>1 DEF router, Entry, Host
<1>4. \A f \in Entries : Waiting(f)' \subseteq Waiting(f) /\ c \notin Waiting(f)'
  BY <1>2, <1>3 DEF Waiting
<1>5. Torn(c) \in SUBSET Mishaps /\ Torn(c) \cup {"fault"} \in SUBSET Mishaps
  BY TearsIs DEF Torn, Mishaps
<1>6. /\ Spoilt0' \in Nat /\ Spoilt0' >= Spoilt0
      /\ "tear" \in Torn(c) => Spoilt0' >= Spoilt0 + 1
  <2>1. CASE SpendAll(Torn(c)) BY <1>5, <2>1, Costs DEF IInv
  <2>2. CASE SpendAll(Torn(c) \cup {"fault"}) BY <1>5, <2>2, Costs DEF IInv
  <2> QED BY <1>1, <2>1, <2>2
<1>7. CASE ~Records(c)
  <2>1. UNCHANGED file BY <1>1, <1>7
  <2>2. Unended' => Unended BY <1>1, <1>2, <2>1 DEF Unended, LastLine
  <2> QED BY <1>4, <1>6, <2>1, <2>2, SameFile, NothingWritten DEF IInv
<1>8. CASE Records(c)
  <2>1. file' = EndLine(Write(file, Presented(c))) BY <1>1, <1>8
  <2>2. PICK e \in Entries : e = Presented(c) BY EntryIs DEF IInv
  <2>3. Alone(e) = {} BY <1>8, <2>2, PresentIs DEF Records
  <2>4. LastLine # <<>> /\ ~Unended => Spoilt0' >= Spoilt0 + 1
    BY <1>6, <1>8 DEF Unended, Torn, Tears
  <2>5. ~Unended' BY <2>1, <2>2, RecordIs DEF IInv, Unended, LastLine
  <2> QED BY <1>4, <1>6, <2>1, <2>2, <2>3, <2>4, <2>5, NewLines, EntryWritten DEF IInv
<1> QED BY <1>7, <1>8

LEMMA StutteringBounded == ASSUME IInv, IInv', Bounded, UNCHANGED vars PROVE Bounded'
<1>1. UNCHANGED <<file, router, pc, spent>> BY DEF vars
<1>2. \A e \in Entries : Waiting(e)' \subseteq Waiting(e)
  BY <1>1 DEF Waiting, router, Entry, Host
<1>3. Spoilt0' = Spoilt0 /\ Spoilt0 \in Nat BY <1>1, Finite DEF Spoilt0, IInv
<1>4. Unended' => Unended BY <1>1 DEF Unended, LastLine
<1> QED BY <1>1, <1>2, <1>3, <1>4, SameFile, NothingWritten DEF IInv

(* Spoilt lines are paid for by mishaps, and those who wait for an entry   *)
(* that is there were waiting when it came (ssh.rs, materialize_pin).      *)
THEOREM Accounts == Spec => []Bounded
<1>1. Init => Bounded BY BoundedInit
<1>2. IInv /\ IInv' /\ Bounded /\ [Next]_vars => Bounded'
  <2> SUFFICES ASSUME IInv, IInv', Bounded, [Next]_vars PROVE Bounded' OBVIOUS
  <2>1. CASE Reconfigure \/ Replace \/ Repin BY <2>1, AroundBounded
  <2>2. ASSUME NEW c \in Callers, Crash(c) PROVE Bounded'
    BY <2>2, LeftBounded DEF Crash, Goto, Spend, router
  <2>3. ASSUME NEW c \in Callers, FileFails(c) PROVE Bounded'
    BY <2>3, LeftBounded DEF FileFails, Return, Spend, router
  <2>4. ASSUME NEW c \in Callers, Call(c) \/ Check(c) PROVE Bounded' BY <2>4, OnwardBounded
  <2>5. ASSUME NEW c \in Callers, WriteLine(c) PROVE Bounded' BY <2>5, WriteLineBounded
  <2>6. ASSUME NEW c \in Callers, WriteBreak(c) PROVE Bounded' BY <2>6, WriteBreakBounded
  <2>7. ASSUME NEW c \in Callers, SshFails(c) PROVE Bounded'
    BY <2>7, LeftBounded DEF SshFails, Return, Spend, router
  <2>8. ASSUME NEW c \in Callers, Ssh(c) PROVE Bounded' BY <2>8, SshBounded
  <2>9. CASE UNCHANGED vars BY <2>9, StutteringBounded
  <2> QED BY <2>1, <2>2, <2>3, <2>4, <2>5, <2>6, <2>7, <2>8, <2>9 DEF Next, Step
<1> QED BY <1>1, <1>2, Invariance, PTL DEF Spec

(* The file does not grow with the calls: for any number of them, an entry *)
(* ends no more lines than there are callers, and one more for each write  *)
(* that was spoilt (ssh.rs, materialize_pin).                              *)
THEOREM FileSmall == Spec => []FileStaysSmall
<1>1. IInv /\ Bounded => FileStaysSmall
  <2> SUFFICES ASSUME IInv, Bounded, NEW e \in Entries
               PROVE  Cardinality({i \in DOMAIN file : file[i] # <<>> /\ Last(file[i]) = e}) <=
                        Cardinality(Callers) + spent["tear"] + spent["crash"] + spent["fault"]
    BY DEF FileStaysSmall, Entries
  <2>0. /\ spent["tear"] \in Nat /\ spent["crash"] \in Nat /\ spent["fault"] \in Nat
        /\ Spoilt0 = spent["tear"] + spent["crash"] + spent["fault"]
    <3>1. {"tear", "crash", "fault"} \subseteq Mishaps BY DEF Mishaps
    <3> QED BY <3>1 DEF IInv, Typed, Spoilt0
  <2> DEFINE ending == {i \in DOMAIN file : file[i] # <<>> /\ Last(file[i]) = e}
  <2>1. ending \in SUBSET (Alone(e) \cup Crowded)
    <3> SUFFICES ASSUME NEW i \in DOMAIN file, file[i] # <<>>, Last(file[i]) = e,
                        ~(Len(file[i]) >= 2)
                 PROVE  file[i] = <<e>>
      BY DEF Alone, Only, Crowded, Spoiled
    <3>1. file[i] \in Seq(Entries) BY DEF IInv, Typed
    <3>2. Len(file[i]) = 1
      <4>1. Len(file[i]) \in Nat /\ Len(file[i]) # 0 BY <3>1
      <4>2. \A n \in Nat : n # 0 /\ ~(n >= 2) => n = 1 OBVIOUS
      <4> QED BY <4>1, <4>2, Zenon
    <3>3. file[i][1] = e BY <3>2 DEF Last
    <3> QED BY <3>1, <3>2, <3>3
  <2>2. /\ IsFiniteSet(Alone(e)) /\ IsFiniteSet(Crowded)
        /\ Cardinality(Alone(e)) \in Nat /\ Cardinality(Crowded) \in Nat
        /\ Cardinality(Waiting(e)) \in Nat /\ Cardinality(Callers) \in Nat /\ Spoilt0 \in Nat
    BY Finite DEF IInv
  <2>3. Cardinality(Alone(e)) <= Cardinality(Callers)
    <3>1. CASE Alone(e) = {} BY <2>2, <3>1, FS_EmptySet
    <3>2. CASE Alone(e) # {} BY <2>2, <3>2 DEF Bounded, Wanted
    <3> QED BY <3>1, <3>2
  <2>4. Cardinality(Crowded) <= Spoilt0 BY DEF Bounded, Paid
  <2>5. /\ IsFiniteSet(Alone(e) \cup Crowded)
        /\ Cardinality(Alone(e) \cup Crowded) <= Cardinality(Alone(e)) + Cardinality(Crowded)
        /\ Cardinality(Alone(e) \cup Crowded) \in Nat
    <3>1. /\ IsFiniteSet(Alone(e) \cup Crowded) /\ IsFiniteSet(Alone(e) \cap Crowded)
          /\ Cardinality(Alone(e) \cup Crowded) =
               Cardinality(Alone(e)) + Cardinality(Crowded) - Cardinality(Alone(e) \cap Crowded)
      BY <2>2, FS_Union, FS_Intersection
    <3>2. Cardinality(Alone(e) \cap Crowded) \in Nat /\ Cardinality(Alone(e) \cup Crowded) \in Nat
      BY <3>1, FS_CardinalityType
    <3> QED BY <2>2, <3>1, <3>2
  <2>6. Cardinality(ending) <= Cardinality(Alone(e) \cup Crowded) /\ Cardinality(ending) \in Nat
    BY <2>1, <2>5, FS_Subset, FS_CardinalityType
  <2> QED BY <2>0, <2>2, <2>3, <2>4, <2>5, <2>6
<1> QED BY <1>1, Invariance, Accounts, PTL

-----------------------------------------------------------------------------
(***************************************************************************)
(* What a caller is told of the router, whatever is reconfigured, damaged  *)
(* or retried meanwhile.  The texts are read as RoundTrip, LaidNotBlank    *)
(* and DamageIsRefused of UciDocument_proofs say.                          *)
(***************************************************************************)
Outcomes == {"none", "document", "absent", "Unreachable", "HostKeyRejected", "AuthFailed",
             "CommandFailed", "Malformed"}

(* An outcome that says no more than what happened establishes.            *)
Justified(r, what, held) ==
  /\ r.kind \in Outcomes /\ what \in Cause[r.kind]
  /\ r.kind = "document" => r.of = held
  /\ r.kind = "absent" => held = <<>>

Told ==
  /\ conf \in [Hosts -> Documents]
  /\ DOMAIN result = Callers /\ DOMAIN happened = Callers /\ DOMAIN served = Callers
  /\ \A c \in Callers : Justified(result[c], happened[c], served[c])

LEMMA PackageNamedIs ==
  ASSUME NEW d \in Seq(APackage), NEW name
  PROVE  /\ PackageNamed(d, name) \in Seq(APackage)
         /\ PackageNamed(d, name) = <<>> \/ PackageNamed(d, name) = <<PackageNamed(d, name)[1]>>
<1> DEFINE found == {i \in DOMAIN d : d[i].name = name}
           m == Min(found)
<1>1. CASE found = {}
  <2>1. PackageNamed(d, name) = <<>>
    BY <1>1 DEF PackageNamed
  <2>2. QED
    BY <2>1, EmptySeq
<1>2. CASE found # {}
  <2>1. found \in SUBSET Nat /\ \A i \in found : d[i] \in APackage
    <3>1. DOMAIN d = 1 .. Len(d) /\ Len(d) \in Nat /\ \A i \in 1 .. Len(d) : d[i] \in APackage
      OBVIOUS
    <3>2. QED
      BY <3>1
  <2>2. PackageNamed(d, name) = <<d[m]>>
    BY <1>2 DEF PackageNamed
  <2> HIDE DEF found
  <2>3. m \in found
    BY <1>2, <2>1, MinIs
  <2>4. <<d[m]>> \in Seq(APackage) /\ <<d[m]>>[1] = d[m]
    BY <2>1, <2>3, OnlyOne
  <2>5. QED
    BY <2>2, <2>4
<1>3. QED
  BY <1>1, <1>2

LEMMA HeldIs ==
  ASSUME Typed, Told, NEW c \in Callers
  PROVE  /\ Held(c) \in Answers /\ Held(c) \in Seq(APackage)
         /\ Queries[c] # Whole => Held(c) = <<>> \/ Held(c) = <<Held(c)[1]>>
<1>1. Host(c) \in Hosts
  BY EntryIs
<1>2. conf[Host(c)] \in Documents
  BY <1>1 DEF Told
<1>3. conf[Host(c)] \in Seq(APackage)
  BY <1>2, DocumentsAssumption
<1>4. CASE Queries[c] = Whole
  BY <1>2, <1>3, <1>4 DEF Held, Answers
<1>5. CASE Queries[c] # Whole
  <2>1. Held(c) = PackageNamed(conf[Host(c)], Queries[c])
    BY <1>5 DEF Held
  <2>2. Held(c) \in Answers
    BY <1>2, <2>1 DEF Answers
  <2>3. /\ Held(c) \in Seq(APackage)
        /\ Held(c) = <<>> \/ Held(c) = <<Held(c)[1]>>
    BY <1>3, <2>1, PackageNamedIs
  <2>4. QED
    BY <2>2, <2>3
<1>6. QED
  BY <1>4, <1>5

(* What may be sent is parsed and trimmed as Parse and Trim say.           *)
LEMMA SentIs ==
  ASSUME NEW doc \in Answers
  PROVE  /\ Sent[doc] = {Laid(doc, indent) : indent \in {Tab, " "}}
         /\ Spoilt[doc] = Damaged(Laid(doc, Tab))
         /\ \A text \in Sent[doc] \cup Spoilt[doc] :
              Parsing[text] = Parse(text) /\ Trimmed[text] = Trim(text)
<1>1. Sent[doc] = {Laid(doc, indent) : indent \in {Tab, " "}}
  BY DEF Sent
<1>2. Spoilt[doc] = Damaged(Laid(doc, Tab))
  BY DEF Spoilt, Render
<1>3. \A text \in Sent[doc] \cup Spoilt[doc] : text \in Texts
  BY DEF Texts
<1>4. \A text \in Texts : Parsing[text] = Parse(text) /\ Trimmed[text] = Trim(text)
  BY DEF Parsing, Trimmed
<1>5. QED
  BY <1>1, <1>2, <1>3, <1>4

LEMMA TextsAreReadNow ==
  ASSUME Typed, Told
  PROVE  TextsAreRead
<1> SUFFICES ASSUME NEW c \in Callers
             PROVE  /\ \A text \in Sent[Held(c)] :
                         /\ Parsing[text] = [error |-> "none", doc |-> Held(c)]
                         /\ Held(c) # <<>> => Trimmed[text] # <<>>
                    /\ \A text \in Spoilt[Held(c)] :
                         Parsing[text].error # "none" /\ Trimmed[text] # <<>>
  BY DEF TextsAreRead
<1> DEFINE doc == Held(c)
<1>1. doc \in Answers /\ doc \in Seq(APackage)
  BY HeldIs
<1> HIDE DEF doc
<1>2. /\ Sent[doc] = {Laid(doc, indent) : indent \in {Tab, " "}}
      /\ Spoilt[doc] = Damaged(Laid(doc, Tab))
      /\ \A text \in Sent[doc] \cup Spoilt[doc] :
           Parsing[text] = Parse(text) /\ Trimmed[text] = Trim(text)
  BY <1>1, SentIs
<1>3. ASSUME NEW text \in Sent[doc]
      PROVE  /\ Parsing[text] = [error |-> "none", doc |-> doc]
             /\ doc # <<>> => Trimmed[text] # <<>>
  <2>1. PICK indent \in {Tab, " "} : text = Laid(doc, indent)
    BY <1>2
  <2>2. Parse(text) = [error |-> "none", doc |-> doc]
    BY <1>1, <2>1, RoundTrip
  <2>3. doc # <<>> => Trim(text) # <<>>
    BY <1>1, <2>1, LaidNotBlank
  <2>4. Parsing[text] = Parse(text) /\ Trimmed[text] = Trim(text)
    BY <1>2
  <2>5. QED
    BY <2>2, <2>3, <2>4
<1>4. ASSUME NEW text \in Spoilt[doc]
      PROVE  Parsing[text].error # "none" /\ Trimmed[text] # <<>>
  <2> DEFINE whole == Laid(doc, Tab)
  <2>1. PICK i \in DOMAIN whole : whole[i] \in Keywords /\ text = [whole EXCEPT ![i] = Noise]
    BY <1>2 DEF Damaged
  <2>2. Parse([Laid(doc, Tab) EXCEPT ![i] = Noise]).error # "none"
        /\ Trim([Laid(doc, Tab) EXCEPT ![i] = Noise]) # <<>>
    <3>1. Tab \in {Tab, " "}
      OBVIOUS
    <3>2. QED
      BY <1>1, <2>1, <3>1, NoiseAssumption, DamageIsRefused
  <2>3. Parsing[text] = Parse(text) /\ Trimmed[text] = Trim(text)
    BY <1>2
  <2>4. QED
    BY <2>1, <2>2, <2>3
<1>5. QED
  BY <1>3, <1>4 DEF doc

(* What ssh says of itself is classified by its message.                   *)
LEMMA OwnFailures ==
  ASSUME NEW c, NEW stdout
  PROVE  /\ Understood(c, Output(255, stdout, "connection timed out")) = [kind |-> "Unreachable"]
         /\ Understood(c, Output(255, stdout, "host key verification failed"))
              = [kind |-> "HostKeyRejected"]
         /\ Understood(c, Output(255, stdout, "permission denied")) = [kind |-> "AuthFailed"]
BY DEF Understood, Output, Classified

(* What the router answers is what it holds, or that it lacks the package. *)
LEMMA AnswerIs ==
  ASSUME TextsAreRead, Typed, Told, NEW c \in Callers, NEW out \in Answer(c)
  PROVE  Justified(Understood(c, out), "answered", Held(c))
<1>1. CASE Queries[c] # Whole /\ Held(c) = <<>>
  <2>1. out = Output(1, <<>>, "Entry not found")
    BY <1>1 DEF Answer, NotFound
  <2>2. Understood(c, Output(1, <<>>, "Entry not found")) = [kind |-> "absent"]
    BY <1>1 DEF Understood, Output, Classified, SaysAbsent
  <2>3. Understood(c, out) = [kind |-> "absent"]
    BY <2>1, <2>2
  <2>4. Held(c) = <<>>
    BY <1>1
  <2>5. QED
    BY <2>3, <2>4 DEF Justified, Outcomes, Cause
<1>2. CASE ~(Queries[c] # Whole /\ Held(c) = <<>>)
  <2>1. PICK text \in Sent[Held(c)] : out = Success(text)
    BY <1>2 DEF Answer
  <2>2. /\ Parsing[text] = [error |-> "none", doc |-> Held(c)]
        /\ Held(c) # <<>> => Trimmed[text] # <<>>
    BY DEF TextsAreRead
  <2>3. out.code = 0 /\ out.stdout = text
    BY <2>1 DEF Success, Output
  <2>4. Classified(out) = "Output" /\ ~SaysAbsent(c, out)
    BY <1>2, <2>2, <2>3 DEF Classified, SaysAbsent
  <2>5. CASE Queries[c] = Whole
    <3>1. Understood(c, out) = [kind |-> "document", of |-> Held(c)]
      BY <2>2, <2>3, <2>4, <2>5 DEF Understood
    <3>2. QED
      BY <3>1 DEF Justified, Outcomes, Cause
  <2>6. CASE Queries[c] # Whole
    <3>1. Held(c) # <<>> /\ Held(c) = <<Held(c)[1]>>
      BY <1>2, <2>6, HeldIs
    <3>2. Understood(c, out) = [kind |-> "document", of |-> <<Held(c)[1]>>]
      BY <2>2, <2>3, <2>4, <2>6, <3>1 DEF Understood
    <3>3. QED
      BY <3>1, <3>2 DEF Justified, Outcomes, Cause
  <2>7. QED
    BY <2>5, <2>6
<1>3. QED
  BY <1>1, <1>2

(* A damaged text is malformed, and a command that fails is no answer.     *)
LEMMA DamageIs ==
  ASSUME TextsAreRead, Typed, Told, NEW c \in Callers, NEW text \in Spoilt[Held(c)]
  PROVE  Understood(c, Success(text)) = [kind |-> "Malformed"]
<1> DEFINE out == Success(text)
<1>1. Parsing[text].error # "none" /\ Trimmed[text] # <<>>
  BY DEF TextsAreRead
<1>2. out.code = 0 /\ out.stdout = text
  BY DEF Success, Output
<1>3. Classified(out) = "Output" /\ ~SaysAbsent(c, out)
  BY <1>1, <1>2 DEF Classified, SaysAbsent
<1>4. QED
  BY <1>1, <1>2, <1>3 DEF Understood

LEMMA FailureIs ==
  ASSUME NEW c
  PROVE  Understood(c, Output(1, <<>>, "uci: Parse error")) = [kind |-> "CommandFailed"]
BY DEF Understood, Output, Classified, SaysAbsent

(* Who returns is told what happened; the others know what they knew.      *)
LEMMA Returned ==
  ASSUME Told, NEW c \in Callers, NEW r, NEW what, NEW held, Return(c, r, what),
         DOMAIN served' = Callers, served'[c] = held,
         \A d \in Callers \ {c} : served'[d] = served[d],
         UNCHANGED conf, Justified(r, what, held)
  PROVE  Told'
<1>1. /\ result' = [result EXCEPT ![c] = r] /\ happened' = [happened EXCEPT ![c] = what]
  BY DEF Return
<1>2. /\ DOMAIN result' = Callers /\ DOMAIN happened' = Callers /\ DOMAIN served' = Callers
      /\ result'[c] = r /\ happened'[c] = what /\ served'[c] = held
      /\ \A d \in Callers \ {c} :
           result'[d] = result[d] /\ happened'[d] = happened[d] /\ served'[d] = served[d]
  BY <1>1 DEF Told
<1>3. ASSUME NEW d \in Callers PROVE Justified(result'[d], happened'[d], served'[d])
  <2>1. CASE d = c
    BY <1>2, <2>1
  <2>2. CASE d # c
    <3>1. Justified(result[d], happened[d], served[d])
      BY DEF Told
    <3>2. QED
      BY <1>2, <2>2, <3>1
  <2>3. QED
    BY <2>1, <2>2
<1>4. QED
  BY <1>2, <1>3 DEF Told

(* A failure is told, whatever was served before.                          *)
LEMMA Failed ==
  ASSUME NEW r, NEW what, NEW held, r.kind \in Outcomes, what \in Cause[r.kind],
         r.kind \notin {"document", "absent"}
  PROVE  Justified(r, what, held)
BY DEF Justified

LEMMA FailureTold ==
  ASSUME Told, NEW c \in Callers, NEW k \in Outcomes \ {"document", "absent"}, NEW what,
         what \in Cause[k], Return(c, [kind |-> k], what), UNCHANGED <<served, conf>>
  PROVE  Told'
<1>1. DOMAIN served' = Callers /\ \A d \in Callers : served'[d] = served[d]
  BY DEF Told
<1>2. Justified([kind |-> k], what, served[c])
  BY Failed
<1>3. QED
  BY <1>1, <1>2, Returned

LEMMA ToldInit == ASSUME Init PROVE Told
<1>1. \A c \in Callers : result[c] = Nothing /\ happened[c] = "nothing"
  BY DEF Init
<1>2. \A c \in Callers : Justified(result[c], happened[c], served[c])
  BY <1>1 DEF Justified, Nothing, Outcomes, Cause
<1>3. QED
  BY <1>2 DEF Init, Told

LEMMA ToldCall ==
  ASSUME Told, NEW c \in Callers, Call(c)
  PROVE  Told'
<1>1. /\ DOMAIN result' = Callers /\ DOMAIN happened' = Callers /\ DOMAIN served' = Callers
      /\ result'[c] = Nothing /\ happened'[c] = "nothing" /\ conf' = conf
      /\ \A d \in Callers \ {c} :
           result'[d] = result[d] /\ happened'[d] = happened[d] /\ served'[d] = served[d]
  BY DEF Call, Told, router
<1>2. Justified(Nothing, "nothing", served'[c])
  BY DEF Justified, Nothing, Outcomes, Cause
<1>3. ASSUME NEW d \in Callers PROVE Justified(result'[d], happened'[d], served'[d])
  <2>1. Justified(result[d], happened[d], served[d])
    BY DEF Told
  <2>2. QED
    BY <1>1, <1>2, <2>1
<1>4. QED
  BY <1>1, <1>3 DEF Told

LEMMA ToldSsh ==
  ASSUME Typed, Told, NEW c \in Callers, Ssh(c)
  PROVE  Told'
<1>1. /\ conf' = conf /\ DOMAIN served' = Callers /\ served'[c] = Held(c)
      /\ \A d \in Callers \ {c} : served'[d] = served[d]
  BY DEF Ssh, router, Told
<1>2. ASSUME NEW out \in Answer(c), Return(c, Understood(c, out), "answered") PROVE Told'
  <2>1. Justified(Understood(c, out), "answered", Held(c))
    BY AnswerIs, TextsAreReadNow
  <2>2. QED
    BY <1>1, <1>2, <2>1, Returned
<1>3. ASSUME NEW text \in Spoilt[Held(c)], Return(c, Understood(c, Success(text)), "damaged")
      PROVE  Told'
  <2>1. Understood(c, Success(text)) = [kind |-> "Malformed"]
    BY DamageIs, TextsAreReadNow
  <2>2. Justified([kind |-> "Malformed"], "damaged", Held(c))
    BY DEF Justified, Outcomes, Cause
  <2>3. QED
    BY <1>1, <1>3, <2>1, <2>2, Returned
<1>4. ASSUME Return(c, Understood(c, Output(1, <<>>, "uci: Parse error")), "failed") PROVE Told'
  <2>1. Justified([kind |-> "CommandFailed"], "failed", Held(c))
    BY DEF Justified, Outcomes, Cause
  <2>2. QED
    BY <1>1, <1>4, <2>1, FailureIs, Returned
<1>5. QED
  BY <1>2, <1>3, <1>4 DEF Ssh

LEMMA ToldSshFails ==
  ASSUME Told, NEW c \in Callers, SshFails(c)
  PROVE  Told'
<1>1. UNCHANGED <<served, conf>>
  BY DEF SshFails, router
<1>2. /\ "network" \in Cause["Unreachable"] /\ "key" \in Cause["HostKeyRejected"]
      /\ "auth" \in Cause["AuthFailed"]
      /\ {"Unreachable", "HostKeyRejected", "AuthFailed"} \subseteq Outcomes \ {"document", "absent"}
  BY DEF Cause, Outcomes
<1>3. \/ Return(c, [kind |-> "Unreachable"], "network")
      \/ Return(c, [kind |-> "HostKeyRejected"], "key")
      \/ Return(c, [kind |-> "AuthFailed"], "auth")
  <2>1. /\ Understood(c, Output(255, <<>>, "connection timed out")) = [kind |-> "Unreachable"]
        /\ Understood(c, Output(255, <<>>, "host key verification failed"))
             = [kind |-> "HostKeyRejected"]
        /\ Understood(c, Output(255, <<>>, "permission denied")) = [kind |-> "AuthFailed"]
    BY OwnFailures
  <2>2. QED
    BY <2>1 DEF SshFails
<1>4. QED
  BY <1>1, <1>2, <1>3, FailureTold

(* Every result is justified by what happened in the call it ends: the     *)
(* router that is reconfigured, replaced or called again meanwhile changes *)
(* nothing about it (ssh.rs, exec; lib.rs, export_package).                *)
THEOREM AnswersJustified ==
  Spec => []Told
<1>1. Init => Told
  BY ToldInit
<1>2. IInv /\ Told /\ [Next]_vars => Told'
  <2> SUFFICES ASSUME IInv, Told, [Next]_vars PROVE Told'
    OBVIOUS
  <2>1. CASE Reconfigure \/ Replace \/ Repin
    <3>1. UNCHANGED <<result, happened, served>>
      BY <2>1 DEF Reconfigure, Replace, Repin, Around
    <3>2. conf' \in [Hosts -> Documents]
      BY <2>1 DEF Reconfigure, Replace, Repin, Told
    <3>3. QED
      BY <3>1, <3>2 DEF Told
  <2>2. ASSUME NEW c \in Callers, Crash(c) \/ Check(c) \/ WriteLine(c) \/ WriteBreak(c) PROVE Told'
    BY <2>2 DEF Crash, Check, WriteLine, WriteBreak, router, Told
  <2>3. ASSUME NEW c \in Callers, FileFails(c) PROVE Told'
    <3>1. "file" \in Cause["Unreachable"] /\ "Unreachable" \in Outcomes \ {"document", "absent"}
      BY DEF Cause, Outcomes
    <3>2. QED
      BY <2>3, <3>1, FailureTold DEF FileFails, router
  <2>4. ASSUME NEW c \in Callers, Call(c) PROVE Told'
    BY <2>4, ToldCall
  <2>5. ASSUME NEW c \in Callers, SshFails(c) PROVE Told'
    BY <2>5, ToldSshFails
  <2>6. ASSUME NEW c \in Callers, Ssh(c) PROVE Told'
    BY <2>6, ToldSsh DEF IInv
  <2>7. CASE UNCHANGED vars
    BY <2>7 DEF vars, router, Told
  <2>8. QED
    BY <2>1, <2>2, <2>3, <2>4, <2>5, <2>6, <2>7 DEF Next, Step
<1>3. QED
  BY <1>1, <1>2, Invariance, PTL DEF Spec

(* What a router has is read as that from its text, with tabs or blanks,   *)
(* and is not taken for an empty answer; with a line damaged it is refused *)
(* (parse.rs, Document::parse; render.rs).                                 *)
THEOREM TextsRead ==
  Spec => []TextsAreRead
<1>1. IInv /\ Told => TextsAreRead
  BY TextsAreReadNow DEF IInv
<1>2. QED
  BY <1>1, Invariance, AnswersJustified, PTL

(* The caller learns what happened, a document that is returned is what    *)
(* the router held when it answered, and `absent' is said of a package it  *)
(* did not have (ssh.rs, exec; lib.rs, export_package).                    *)
THEOREM AnswersTrue ==
  Spec => []AnswersAreTheRouters
<1>1. Told => AnswersAreTheRouters
  BY DEF Told, Justified, AnswersAreTheRouters
<1>2. QED
  BY <1>1, AnswersJustified, PTL

=============================================================================
