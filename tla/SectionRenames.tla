---------------------------- MODULE SectionRenames ----------------------------
(***************************************************************************)
(* crates/uci-inventory/src/rename.rs, apply, and the `renames --apply'    *)
(* command around it: survey the device, propose a name for every          *)
(* anonymous section, rename them one by one, reading each back, and       *)
(* commit every touched package once at the end.                           *)
(*                                                                         *)
(* A section is addressed by the label uci derives from the layout of the  *)
(* file: here its position in it.  The device stages and commits           *)
(* (UciDevice); a section is represented by what it is called.             *)
(***************************************************************************)
EXTENDS SectionNames

CONSTANTS
  Managed,      \* the managed packages, in the order of the inventory
  Existing,     \* what the sections are called at first
  Nothing,      \* no proposal yet
  Limit         \* bounds the faults, restarts, edits

Mishaps == {"fault", "restart", "edit"}

(* uci holds one section of a name in a package.                           *)
ASSUME RenamesAssumption ==
  /\ Managed \in Seq(Packages)
  /\ Existing \in [Sections -> Name \cup {Anonymous, Absent}]
  /\ \A s, q \in Sections :
       Existing[s] \in Name /\ Existing[q] = Existing[s] /\ PackageOf[q] = PackageOf[s]
         => q = s
  /\ Nothing \notin Name
  /\ Limit \in [Mishaps -> Nat]

VARIABLES
  staged, published,  \* what each section is called, in the delta and on flash
  pc,        \* "idle", "rename", "verify", "commit", "applied", "failed"
  todo,      \* the renames to issue
  done,      \* the renames issued and read back
  unsaved,   \* the touched packages that were not committed yet, in order
  first,     \* history: the name the first proposal gave each section
  disturbed, \* history: did another tool edit, or the router restart?
  spent

deviceVars == <<staged, published>>
vars == <<staged, published, pc, todo, done, unsaved, first, disturbed, spent>>

Device == INSTANCE UciDevice WITH Addresses <- Sections

There == Present(staged)

(* `.name': for an anonymous section, a label made of its position among   *)
(* ALL sections of the file.                                               *)
(* Mutant: its position among the anonymous ones, as `@type[N]' has it.    *)
InternalByType(s, label) ==
  [package |-> PackageOf[s], position |-> Index(s, label)]

Position(s, label) == Cardinality(Earlier(s, label))

Internal(s, label) == [package |-> PackageOf[s], position |-> Position(s, label)]

(* The anonymous section a label denotes, if any. *)
Denoted(l) ==
  {s \in There : /\ staged[s] = Anonymous
                 /\ PackageOf[s] = l.package /\ Position(s, staged) = l.position}

(* propose_all: a rename for every anonymous section of a managed package, *)
(* with the label to issue it against.                                     *)
Proposals ==
  {[of |-> s, internal |-> Internal(s, staged),
    to |-> Propose(s, staged), index |-> Index(s, staged)] :
      s \in {q \in There : staged[q] = Anonymous /\ PackageOf[q] \in Range(Managed)}}

(* The order of propose_all: by package, then by place in the file.        *)
Rank(p) == CHOOSE k \in DOMAIN Managed : Managed[k] = p

ProposedBefore(r, q) ==
  \/ Rank(r.internal.package) < Rank(q.internal.package)
  \/ /\ r.internal.package = q.internal.package
     /\ Place(r.of) < Place(q.of)

(* Highest index first, by a stable sort.                                  *)
(* Mutant: ProposedBefore, the batch is issued as it was proposed.         *)
Before(r, q) ==
  \/ r.index > q.index
  \/ r.index = q.index /\ ProposedBefore(r, q)

(* The rename to issue next. *)
IsNext(r) == r \in todo /\ \A q \in todo \ {r} : Before(r, q)

TypeOK ==
  /\ staged \in [Sections -> Name \cup {Anonymous, Absent}]
  /\ published \in [Sections -> Name \cup {Anonymous, Absent}]
  /\ pc \in {"idle", "rename", "verify", "commit", "applied", "failed"}
  /\ pc \in {"rename", "verify"} => todo # {}
  /\ \A r \in todo, d \in done : d.index >= r.index
  /\ unsaved \in Seq(Packages)
  /\ disturbed \in BOOLEAN
  /\ spent \in [Mishaps -> Nat]

Init ==
  /\ published = Existing /\ staged = Existing
  /\ pc = "idle" /\ todo = {} /\ done = {} /\ unsaved = <<>>
  /\ first = [s \in Sections |-> Nothing]
  /\ disturbed = FALSE
  /\ spent = [m \in Mishaps |-> 0]

Spend(m) ==
  /\ spent[m] < Limit[m]
  /\ spent' = [spent EXCEPT ![m] = @ + 1]

-----------------------------------------------------------------------------
(* The command: packages and package, survey, propose_all, and apply's     *)
(* ordering of the batch.                                                  *)
Survey ==
  /\ pc \in {"idle", "applied", "failed"}
  /\ todo' = Proposals /\ todo' # {}
  /\ first' = [s \in Sections |->
                 IF first[s] = Nothing /\ \E r \in todo' : r.of = s
                 THEN Propose(s, staged) ELSE first[s]]
  /\ pc' = "rename"
  /\ done' = {} /\ unsaved' = <<>>
  /\ UNCHANGED <<staged, published, disturbed, spent>>

(* /uci/rename: the device renames the section the label denotes, or finds *)
(* none; a fault loses the call or its answer; and the device was measured *)
(* to answer ok and do nothing.                                            *)
IssueRename(r) ==
  /\ pc = "rename" /\ IsNext(r)
  /\ LET Renamed == \E s \in Denoted(r.internal) : Device!Stage(s, r.to)
     IN  \/ Renamed /\ pc' = "verify" /\ UNCHANGED spent
         \/ Denoted(r.internal) = {} /\ pc' = "failed" /\ UNCHANGED <<deviceVars, spent>>
         \/ Spend("fault") /\ pc' = "failed" /\ (Renamed \/ UNCHANGED deviceVars)
         \/ Spend("fault") /\ pc' = "verify" /\ UNCHANGED deviceVars
  /\ UNCHANGED <<todo, done, unsaved, first, disturbed>>

(* Mutant: the answer to the rename is believed. *)
AnyAnswer(r) == TRUE

(* /uci/get of the new name answers: there is such a section now. *)
ReadsBack(r) ==
  \E s \in There : PackageOf[s] = r.internal.package /\ staged[s] = r.to

Verify(r) ==
  /\ pc = "verify" /\ IsNext(r)
  /\ \/ /\ ReadsBack(r)
        /\ done' = done \cup {r}
        /\ unsaved' = IF r.internal.package \in Range(unsaved) THEN unsaved
                      ELSE Append(unsaved, r.internal.package)
        /\ todo' = todo \ {r}
        /\ pc' = IF todo' = {} THEN "commit" ELSE "rename"
        /\ UNCHANGED spent
     \/ /\ IF ReadsBack(r) THEN Spend("fault") ELSE UNCHANGED spent
        /\ pc' = "failed"
        /\ UNCHANGED <<todo, done, unsaved>>
  /\ UNCHANGED <<deviceVars, first, disturbed>>

(* Mutant: only the first package is committed. *)
CommitFirst ==
  /\ pc = "commit"
  /\ Device!Publish(Head(unsaved))
  /\ pc' = "applied" /\ unsaved' = <<>>
  /\ UNCHANGED <<todo, done, first, disturbed, spent>>

Commit ==
  /\ pc = "commit"
  /\ \/ /\ Device!Publish(Head(unsaved))
        /\ unsaved' = Tail(unsaved)
        /\ pc' = IF Tail(unsaved) = <<>> THEN "applied" ELSE "commit"
        /\ UNCHANGED spent
     \/ /\ Spend("fault")
        /\ Device!Publish(Head(unsaved)) \/ UNCHANGED deviceVars
        /\ pc' = "failed"
        /\ UNCHANGED unsaved
  /\ UNCHANGED <<todo, done, first, disturbed>>

(* The vendor UI deletes a section, and the file is written anew. *)
ForeignDelete ==
  /\ Spend("edit")
  /\ disturbed' = TRUE
  /\ \E s \in There : Device!Overwrite(s, Absent)
  /\ UNCHANGED <<pc, todo, done, unsaved, first>>

DeviceRestart ==
  /\ Spend("restart")
  /\ disturbed' = TRUE
  /\ Device!Restart
  /\ UNCHANGED <<pc, todo, done, unsaved, first>>

Progress ==
  Survey \/ (\E r \in todo : IssueRename(r) \/ Verify(r)) \/ Commit
Next == Progress \/ ForeignDelete \/ DeviceRestart

Spec == Init /\ [][Next]_vars

(* The operator repeats the command until nothing is left to rename. *)
FairSpec == Spec /\ WF_vars(Progress)

-----------------------------------------------------------------------------
(***************************************************************************)
(* Properties.                                                             *)
(***************************************************************************)

(* No two sections of a package are ever called the same: neither two      *)
(* proposals of one batch, nor a proposal and a section that had a name,   *)
(* nor the proposals of different batches.                                 *)
NamesAreUnique ==
  \A s, q \in There :
    s # q /\ PackageOf[s] = PackageOf[q] /\ staged[s] = staged[q] => staged[s] = Anonymous

(* A section is called what the FIRST proposal called it, for its own      *)
(* content, however many batches it took - unless the file was edited      *)
(* under the command's feet.                                               *)
NamedAfterOwnContent ==
  ~disturbed => \A s \in There :
                  staged[s] \in {Existing[s], Anonymous} \/ staged[s] = first[s]

(* What apply lists as done is done: the section of the proposal bears the *)
(* proposed name, although the device may answer ok to a rename it did not *)
(* make.                                                                   *)
ReportedIsDone ==
  ~disturbed => \A r \in done : staged[r.of] = r.to

(* A batch that succeeded is on flash, in every package it touched.        *)
AppliedIsPublished ==
  ~disturbed /\ pc = "applied" => \A r \in done : published[r.of] = r.to

(* The command converges: every section gets a name, for good.             *)
EverySectionNamed ==
  <>[](\A s \in Sections : staged[s] # Anonymous)

-----------------------------------------------------------------------------
(* apply's doc: it "stops at the first failure and returns it along with   *)
(* what had already succeeded - a partial batch is committed and           *)
(* knowable"; main.rs: "a partial batch is committed".  So what a failed   *)
(* batch reports as done is on flash.  The early returns skip the commits. *)
PartialBatchIsCommitted ==
  ~disturbed /\ pc = "failed" => \A r \in done : published[r.of] = r.to

=============================================================================
