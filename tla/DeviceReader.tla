------------------------------ MODULE DeviceReader ------------------------------
(***************************************************************************)
(* crates/openwrt-uci-transport: callers that read the configuration of    *)
(* routers over ssh.  Those that pin a host key share one known_hosts      *)
(* file, to which materialize_pin appends what it does not find in it; the *)
(* line and its line break are two writes.  ssh consults the file, and     *)
(* what it exits with is told apart from what the command exits with.      *)
(*                                                                         *)
(* A caller tries again until it has an answer, and may then ask again.    *)
(***************************************************************************)
EXTENDS UciDocument, Integers, FiniteSets, SequencesExt

CONSTANTS
  Callers, Hosts, Keys,
  Targets,     \* per caller its SshTarget [host, policy], several assignments;
               \* a policy is "pinned", "first use" or "any"
  Queries,     \* what each asks for: Whole or the name of a package
  Whole,
  Documents,   \* what a router may be configured to
  FirstKey,    \* the key of every host, and every pin, at first
  Noise,       \* a letter, and no rule of the grammar begins with one
  MaxAnswers,  \* bounds the answers of each caller
  Limit,       \* bounds the mishaps of each kind
  MaxMishaps   \* and all of them

Mishaps == {"edit", "replace", "crash", "tear", "fault"}

ASSUME CallersAssumption == IsFiniteSet(Callers)
ASSUME TargetsAssumption ==
  Targets \subseteq [Callers -> [host : Hosts, policy : {"pinned", "first use", "any"}]]
ASSUME KeysAssumption   == FirstKey \in Keys
ASSUME LimitAssumption  == Limit \in [Mishaps -> Nat]

(* uci keeps a file for every package: a router has a package once.        *)
ASSUME DocumentsAssumption ==
  \A d \in Documents :
    d \in Seq(APackage) /\ \A i, j \in DOMAIN d : d[i].name = d[j].name => i = j
ASSUME NoiseAssumption  == Noise \in Letters

VARIABLES
  file,      \* known_hosts: lines, each the entries <<host, key>> written on it
  conf,      \* per host, its configuration
  hostKey,   \* per host, the key it presents
  pin,       \* per caller, the key it requires
  target,    \* per caller, its SshTarget
  pc,        \* "idle", "check", "line", "break", "ssh"
  result,    \* per caller, what its last call returned
  answers,   \* per caller, how often it was answered
  happened,  \* history: per caller, what ended the last call
  served,    \* history: per caller, what the router held when it answered
  spent

router == <<conf, hostKey, pin, target>>
vars == <<file, router, pc, result, answers, happened, served, spent>>

Nothing == [kind |-> "none"]
Answered(r) == r.kind \in {"document", "absent"}

Host(c)   == target[c].host
Pinned(c) == target[c].policy = "pinned"

(* known_hosts_line: the host prefix comes from the target.                *)
Entry(c) == <<Host(c), pin[c]>>

Present(entry) == \E i \in DOMAIN file : file[i] = <<entry>>

(* The two writes: what goes on the last line, and the break that ends it. *)
Write(text, entry) == [text EXCEPT ![Len(text)] = Append(@, entry)]
EndLine(text)      == Append(text, <<>>)

Init ==
  /\ target \in Targets /\ file = << <<>> >>
  /\ \E d \in Documents : conf = [h \in Hosts |-> d]
  /\ hostKey = [h \in Hosts |-> FirstKey] /\ pin = [c \in Callers |-> FirstKey]
  /\ pc = [c \in Callers |-> "idle"] /\ result = [c \in Callers |-> Nothing]
  /\ answers = [c \in Callers |-> 0]
  /\ happened = [c \in Callers |-> "nothing"] /\ served = [c \in Callers |-> <<>>]
  /\ spent = [m \in Mishaps |-> 0]

SpendAll(ms) ==
  /\ \A m \in ms : spent[m] < Limit[m]
  /\ SumFunction(spent) + Cardinality(ms) <= MaxMishaps
  /\ spent' = [m \in Mishaps |-> IF m \in ms THEN spent[m] + 1 ELSE spent[m]]

Spend(m) == SpendAll({m})

(* A write between another caller's two tears both lines; the bound on     *)
(* tears says that this does not go on for ever.                           *)
Tears == IF \E d \in Callers : pc[d] = "break" THEN {"tear"} ELSE {}

(***************************************************************************)
(* What happens around the callers.                                        *)
(***************************************************************************)
Around == UNCHANGED <<file, target, pc, result, answers, happened, served>>

Reconfigure ==
  \E h \in Hosts, d \in Documents :
    Spend("edit") /\ conf' = [conf EXCEPT ![h] = d] /\ UNCHANGED <<hostKey, pin>> /\ Around

(* A router is replaced, or reflashed. *)
Replace ==
  \E h \in Hosts, k \in Keys :
    Spend("replace") /\ hostKey' = [hostKey EXCEPT ![h] = k]
    /\ UNCHANGED <<conf, pin>> /\ Around

(* The operator records another key for it, between two calls. *)
Repin ==
  \E c \in Callers, k \in Keys :
    /\ pc[c] = "idle" /\ Pinned(c) /\ Spend("replace")
    /\ pin' = [pin EXCEPT ![c] = k]
    /\ UNCHANGED <<conf, hostKey>> /\ Around

(* A caller's process ends; what it wrote stays. *)
Crash(c) ==
  /\ pc[c] # "idle" /\ Spend("crash")
  /\ pc' = [pc EXCEPT ![c] = "idle"]
  /\ UNCHANGED <<file, router, result, answers, happened, served>>

(***************************************************************************)
(* One call: exec, from materialize_pin to the classification, and the     *)
(* reader on top of it.                                                    *)
(***************************************************************************)
Goto(c, label) == pc' = [pc EXCEPT ![c] = label]

Return(c, r, what) ==
  /\ result' = [result EXCEPT ![c] = r] /\ happened' = [happened EXCEPT ![c] = what]
  /\ answers' = [answers EXCEPT ![c] = IF Answered(r) THEN @ + 1 ELSE @]
  /\ Goto(c, "idle")

Call(c) ==
  /\ pc[c] = "idle" /\ answers[c] < MaxAnswers
  /\ Goto(c, IF Pinned(c) THEN "check" ELSE "ssh")
  /\ result' = [result EXCEPT ![c] = Nothing]
  /\ happened' = [happened EXCEPT ![c] = "nothing"] /\ served' = [served EXCEPT ![c] = <<>>]
  /\ UNCHANGED <<file, router, answers, spent>>

FileFails(c) ==
  /\ pc[c] \in {"check", "line", "break"} /\ Spend("fault")
  /\ Return(c, [kind |-> "Unreachable"], "file")
  /\ UNCHANGED <<file, router, served>>

(* Mutant: the file is not read first. *)
AlwaysAppend(c) ==
  /\ pc[c] = "check" /\ Goto(c, "line")
  /\ UNCHANGED <<file, router, result, answers, happened, served, spent>>

(* Mutant: the pin is looked for in the text and not among its lines.      *)
Somewhere(c) ==
  /\ pc[c] = "check"
  /\ Goto(c, IF \E i \in DOMAIN file : \E j \in DOMAIN file[i] : file[i][j] = Entry(c)
             THEN "ssh" ELSE "line")
  /\ UNCHANGED <<file, router, result, answers, happened, served, spent>>

Check(c) ==
  /\ pc[c] = "check"
  /\ Goto(c, IF Present(Entry(c)) THEN "ssh" ELSE "line")
  /\ UNCHANGED <<file, router, result, answers, happened, served, spent>>

WriteLine(c) ==
  /\ pc[c] = "line"
  /\ SpendAll(Tears)
  /\ file' = Write(file, Entry(c))
  /\ Goto(c, "break")
  /\ UNCHANGED <<router, result, answers, happened, served>>

(* Mutant: the line is written without its break. *)
NoBreak(c) ==
  /\ pc[c] = "break" /\ Goto(c, "ssh")
  /\ UNCHANGED <<file, router, result, answers, happened, served, spent>>

WriteBreak(c) ==
  /\ pc[c] = "break"
  /\ file' = EndLine(file)
  /\ Goto(c, "ssh")
  /\ UNCHANGED <<router, result, answers, happened, served, spent>>

------------------------------------------------------------------------------
(* ssh: what it makes of the key that is presented, under the flags `args' *)
(* passes for the policy.                                                  *)
Presented(c) == <<Host(c), hostKey[Host(c)]>>

KnownHost(h) == \E k \in Keys : Present(<<h, k>>)

Verified(c) ==
  \/ Present(Presented(c)) \/ target[c].policy = "any"
  \/ target[c].policy = "first use" /\ ~KnownHost(Host(c))

(* accept-new records the key of a host it did not know.                   *)
Records(c) == target[c].policy = "first use" /\ ~Present(Presented(c))
Torn(c) == IF Records(c) THEN Tears ELSE {}

(* What uci answers: the text of a document, as it is laid out there or    *)
(* with blanks for tabs.  On the way one line of it may be damaged.        *)
PackageNamed(doc, name) ==
  LET found == {i \in DOMAIN doc : doc[i].name = name}
  IN  IF found = {} THEN <<>> ELSE <<doc[Min(found)]>>

Held(c) ==
  IF Queries[c] = Whole THEN conf[Host(c)] ELSE PackageNamed(conf[Host(c)], Queries[c])

Damaged(text) == {[text EXCEPT ![i] = Noise] : i \in {j \in DOMAIN text : text[j] \in Keywords}}

(* Render, Parse and Trim over what may be sent, which are computed once.  *)
Answers ==
  Documents \cup {PackageNamed(d, Queries[c]) : d \in Documents, c \in Callers}
Sent    == [doc \in Answers |-> {Laid(doc, indent) : indent \in {Tab, " "}}]
Spoilt  == [doc \in Answers |-> Damaged(Render(doc))]
Texts   == UNION {Sent[doc] \cup Spoilt[doc] : doc \in Answers}
Parsing == [text \in Texts |-> Parse(text)]
Trimmed == [text \in Texts |-> Trim(text)]

Output(code, stdout, stderr) == [code |-> code, stdout |-> stdout, stderr |-> stderr]

Success(text) == Output(0, text, "")
NotFound      == Output(1, <<>>, "Entry not found")

Answer(c) ==
  IF Queries[c] # Whole /\ Held(c) = <<>> THEN {NotFound}
  ELSE {Success(text) : text \in Sent[Held(c)]}

(* exec: 255 is ssh's own, and stderr says why. *)
Classified(out) ==
  IF out.code # 255 THEN "Output"
  ELSE IF out.stderr = "host key verification failed" THEN "HostKeyRejected"
  ELSE IF out.stderr \in {"permission denied", "authentication failed"} THEN "AuthFailed"
  ELSE "Unreachable"

(* export and export_package. *)
(* Mutant: whatever the command failed of, the package is not there. *)
AnyFailure(c, out) == Queries[c] # Whole /\ (out.code # 0 \/ Trimmed[out.stdout] = <<>>)

SaysAbsent(c, out) ==
  /\ Queries[c] # Whole
  /\ IF out.code # 0 THEN out.stderr = "Entry not found" ELSE Trimmed[out.stdout] = <<>>

Understood(c, out) ==
  LET parsed == Parsing[out.stdout]
  IN  IF Classified(out) # "Output" THEN [kind |-> Classified(out)]
      ELSE IF SaysAbsent(c, out) THEN [kind |-> "absent"]
      ELSE IF out.code # 0 THEN [kind |-> "CommandFailed"]
      ELSE IF parsed.error # "none" THEN [kind |-> "Malformed"]
      ELSE IF Queries[c] # Whole /\ parsed.doc = <<>> THEN [kind |-> "absent"]
      ELSE [kind |-> "document",
            of |-> IF Queries[c] = Whole THEN parsed.doc ELSE <<parsed.doc[1]>>]

(* ssh's own failures. *)
SshFails(c) ==
  /\ pc[c] = "ssh"
  /\ \/ Return(c, Understood(c, Output(255, <<>>, "connection timed out")), "network")
        /\ Spend("fault")
     \/ Return(c, Understood(c, Output(255, <<>>, "host key verification failed")), "key")
        /\ ~Verified(c) /\ UNCHANGED spent
     \/ Return(c, Understood(c, Output(255, <<>>, "permission denied")), "auth")
        /\ Verified(c) /\ Spend("fault")
  /\ UNCHANGED <<file, router, served>>

(* The command runs on the router. *)
Ssh(c) ==
  /\ pc[c] = "ssh" /\ Verified(c)
  /\ served' = [served EXCEPT ![c] = Held(c)]
  /\ file' = IF Records(c) THEN EndLine(Write(file, Presented(c))) ELSE file
  /\ \/ /\ SpendAll(Torn(c))
        /\ \E out \in Answer(c) : Return(c, Understood(c, out), "answered")
     \/ /\ SpendAll(Torn(c) \cup {"fault"})
        /\ \/ \E text \in Spoilt[Held(c)] : Return(c, Understood(c, Success(text)), "damaged")
           \/ Return(c, Understood(c, Output(1, <<>>, "uci: Parse error")), "failed")
  /\ UNCHANGED router

Step(c) == Call(c) \/ Check(c) \/ WriteLine(c) \/ WriteBreak(c) \/ SshFails(c) \/ Ssh(c)

Next ==
  \/ Reconfigure \/ Replace \/ Repin
  \/ \E c \in Callers : Crash(c) \/ FileFails(c) \/ Step(c)

Fairness == \A c \in Callers : WF_vars(Step(c))

Spec == Init /\ [][Next]_vars /\ Fairness

------------------------------------------------------------------------------
(* What a router has is read as that from the text uci lays it out in,    *)
(* blanks for tabs or not, and is not taken for an empty answer; with a    *)
(* line damaged it is refused, never read as something else (parse.rs,     *)
(* Document::parse; the quoting of render.rs).                             *)
TextsAreRead ==
  \A c \in Callers :
    /\ \A text \in Sent[Held(c)] :
         /\ Parsing[text] = [error |-> "none", doc |-> Held(c)]
         /\ Held(c) # <<>> => Trimmed[text] # <<>>
    /\ \A text \in Spoilt[Held(c)] : Parsing[text].error # "none" /\ Trimmed[text] # <<>>

(* The caller learns what happened: a dead network is not a failed command *)
(* and a failed command is no answer (ssh.rs, exec; lib.rs,                *)
(* export_package).  A document that is returned is what the router held   *)
(* when it answered, however it was quoted and laid out, and `absent' is   *)
(* said of a package it did not have.                                      *)
Cause ==
  [none |-> {"nothing"}, document |-> {"answered"}, absent |-> {"answered"},
   Unreachable |-> {"network", "file"}, HostKeyRejected |-> {"key"}, AuthFailed |-> {"auth"},
   CommandFailed |-> {"failed"}, Malformed |-> {"damaged"}]

AnswersAreTheRouters ==
  \A c \in Callers :
    /\ happened[c] \in Cause[result[c].kind]
    /\ result[c].kind = "document" => result[c].of = served[c]
    /\ result[c].kind = "absent" => served[c] = <<>>

(* A pin that is right is not refused unless a write of it was torn, cut   *)
(* short by a crash or failed.                                             *)
RightPinIsAccepted ==
  \A c \in Callers :
    /\ pc[c] = "ssh" /\ Pinned(c) /\ ~Verified(c)
    /\ hostKey[Host(c)] = pin[c]
    => spent["tear"] + spent["crash"] + spent["fault"] > 0

(* The file does not grow with the calls: it has an entry once for every   *)
(* caller that found it missing at the same time, and once more for each   *)
(* write that was spoilt (ssh.rs: "repeated calls do not grow the file").  *)
FileStaysSmall ==
  \A e \in Hosts \X Keys :
    Cardinality({i \in DOMAIN file : file[i] # <<>> /\ Last(file[i]) = e}) <=
      Cardinality(Callers) + spent["tear"] + spent["crash"] + spent["fault"]

(* Whatever is torn or cut short is repaired by the next call: a caller    *)
(* that pins the right key, or asks for none, is answered in the end.      *)
EveryoneIsAnswered ==
  \A c \in Callers :
    <>[](target[c].policy = "any" \/ (Pinned(c) /\ hostKey[Host(c)] = pin[c]))
      => <>(answers[c] = MaxAnswers)

=============================================================================
