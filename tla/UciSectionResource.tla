------------------------- MODULE UciSectionResource -------------------------
(***************************************************************************)
(* provider/terraform/main.go: the resource `openwrt_uci_section', driven  *)
(* by Terraform runs (refresh every resource, plan, apply the differences  *)
(* concurrently) against a device that stages and commits (UciDevice).     *)
(*                                                                         *)
(* One action is one facade call of a handler (Create, Read, Update,       *)
(* Delete).  The calls of different resources interleave freely; every     *)
(* call may fail before it reaches the device, or take effect and lose its *)
(* reply.  The router may restart and other tools may edit a section at    *)
(* any time.  A section's options are scalars or lists.                    *)
(***************************************************************************)
EXTENDS Naturals, UciDevice

CONSTANTS
  Types, Options, Scalars, ListVals,
  Unset,          \* an option a map does not have
  NoLists,        \* the `lists' attribute is null
  NotInState,     \* the resource is not in Terraform's state
  NotDeclared,    \* the configuration has no block for the resource
  Declarations,   \* the blocks an operator may write
  ForeignWrites,  \* what other tools may leave at an address
  InitialDevice,  \* the published views the model starts from
  Limit           \* bounds: how many faults, restarts, edits, changes

Mishaps == {"fault", "restart", "edit", "change", "away"}

Value   == Scalars \cup ListVals
Section == [type : Types, opts : [Options -> Value \cup {Unset}]]
Scalar  == [Options -> Scalars \cup {Unset}]
Listed  == [Options -> ListVals \cup {Unset}]
Model   == [type : Types, values : Scalar, lists : Listed \cup {NoLists}]

ASSUME OptionValues ==
  /\ Scalars \cap ListVals = {}
  /\ Unset \notin Value
  /\ NoLists \notin Listed

ASSUME Sentinels ==
  /\ Absent \notin Section
  /\ NotInState \notin Model
  /\ NotDeclared \notin Model

ASSUME Bounds ==
  /\ Declarations \subseteq Model
  /\ ForeignWrites \subseteq Section \cup {Absent}
  /\ InitialDevice \subseteq [Addresses -> Section \cup {Absent}]
  /\ Limit \in [Mishaps -> Nat]

VARIABLES
  config,   \* what the operator declares, per resource
  state,    \* Terraform's state, per resource
  pc,       \* where each resource stands in the current run
  stale,    \* history: was the section touched by anyone else, since the
            \* provider last observed it?
  spent     \* how many mishaps of each kind have happened

vars == <<staged, published, config, state, pc, stale, spent>>

Settled == {"idle", "created", "updated", "deleted", "failed"}
Calling == {"create", "commitCreate", "update", "set", "commitUpdate",
            "delete", "commitDelete"}

TypeOK ==
  /\ DeviceTypeOK(Section)
  /\ config \in [Addresses -> Declarations \cup {NotDeclared}]
  /\ state \in [Addresses -> Model \cup {NotInState}]
  /\ pc \in [Addresses -> Settled \cup Calling \cup {"read", "refreshed", "unread"}]
  /\ stale \in [Addresses -> BOOLEAN]
  /\ spent \in [Mishaps -> Nat]

Init ==
  /\ published \in InitialDevice
  /\ staged = published
  /\ config \in [Addresses -> Declarations \cup {NotDeclared}]
  /\ state = [r \in Addresses |-> NotInState]
  /\ pc = [r \in Addresses |-> "idle"]
  /\ stale = [r \in Addresses |-> FALSE]
  /\ spent = [m \in Mishaps |-> 0]

Spend(m) ==
  /\ spent[m] < Limit[m]
  /\ spent' = [spent EXCEPT ![m] = @ + 1]

Goto(r, where) == pc' = [pc EXCEPT ![r] = where]

BetweenRuns == \A r \in Addresses : pc[r] \in Settled

-----------------------------------------------------------------------------
(***************************************************************************)
(* The maps the handlers compute.                                          *)
(***************************************************************************)

(* valueMap: scalars and lists in one map; a null `lists' adds nothing. *)
ValueMap(values, lists) ==
  [k \in Options |->
     IF values[k] = Unset /\ lists # NoLists THEN lists[k] ELSE values[k]]

(* valueMap refuses an option that is declared in both. *)
Clash(values, lists) ==
  /\ lists # NoLists
  /\ \E k \in Options : values[k] # Unset /\ lists[k] # Unset

(* splitOptions and the `.type' Read takes from the reply. *)
(* Mutant: a list option is left among the scalars. *)
ObservedUnsplit(s) ==
  [type   |-> s.type,
   values |-> s.opts,
   lists  |-> [k \in Options |-> IF s.opts[k] \in ListVals THEN s.opts[k] ELSE Unset]]

Observed(s) ==
  [type   |-> s.type,
   values |-> [k \in Options |-> IF s.opts[k] \in Scalars THEN s.opts[k] ELSE Unset],
   lists  |-> [k \in Options |-> IF s.opts[k] \in ListVals THEN s.opts[k] ELSE Unset]]

(* What Create and Update send: the declared options, where an omitted     *)
(* `lists' is not written.                                                 *)
Written(r) == ValueMap(config[r].values, config[r].lists)

(* Mutant: Update forgets to null the prior lists it does not manage. *)
PriorListsAlways(r) == state[r].lists

(* The lists of the prior state take part only where `lists' is declared. *)
PriorLists(r) == IF config[r].lists = NoLists THEN NoLists ELSE state[r].lists

Prior(r) == ValueMap(state[r].values, PriorLists(r))

(* Mutant: Update only sets, and `uci set' is additive. *)
NothingRemoved(r) == {}

(* The options of the prior state the declaration no longer has. *)
Removed(r) == {k \in Options : Prior(r)[k] # Unset /\ Written(r)[k] = Unset}

Refused(r) ==
  \/ Clash(config[r].values, config[r].lists)
  \/ state[r] # NotInState /\ Clash(state[r].values, PriorLists(r))

Merge(s, vals) ==
  [s EXCEPT !.opts = [k \in Options |-> IF vals[k] # Unset THEN vals[k] ELSE s.opts[k]]]

Without(s, ks) ==
  [s EXCEPT !.opts = [k \in Options |-> IF k \in ks THEN Unset ELSE s.opts[k]]]

(* `uci add' with a name: a new section, or the section that already has   *)
(* the name, with its type set and the values merged.                      *)
Added(r) ==
  LET base == IF Held(r) THEN staged[r].opts ELSE [k \in Options |-> Unset]
  IN  Merge([type |-> config[r].type, opts |-> base], Written(r))

(* The state Create and Update leave.  `lists' is computed: an omitted one *)
(* is null after Create and keeps the prior state's value after Update.    *)
Recorded(r, omitted) ==
  [type   |-> config[r].type,
   values |-> config[r].values,
   lists  |-> IF config[r].lists = NoLists THEN omitted ELSE config[r].lists]

(***************************************************************************)
(* What a failed call tells the provider.                                  *)
(***************************************************************************)
NotFound == [from |-> "facade",  status |-> 404, message |-> "ubus status 4"]
ReadErrors ==
  { [from |-> "network", status |-> 0,   message |-> "none"],
    [from |-> "facade",  status |-> 404, message |-> "no ubus object"],
    [from |-> "facade",  status |-> 403, message |-> "ubus status 6"],
    [from |-> "facade",  status |-> 502, message |-> "bad gateway"] }

(* Mutant: every 404 reads as a deleted section. *)
AnyNotFound(e) == e.from = "facade" /\ e.status = 404

DeviceSaysAbsent(e) ==
  /\ e.from = "facade"
  /\ e.status = 404
  /\ e.message = "ubus status 4"

-----------------------------------------------------------------------------
(***************************************************************************)
(* The run: Terraform's own steps around the handlers.                     *)
(***************************************************************************)

(* A run starts: what is in state is read first. *)
StartRun ==
  /\ BetweenRuns
  /\ pc' = [r \in Addresses |-> IF state[r] = NotInState THEN "refreshed" ELSE "read"]
  /\ stale' = [r \in Addresses |-> state[r] # NotInState]
  /\ UNCHANGED <<staged, published, config, state, spent>>

Differs(r) ==
  \/ config[r].type # state[r].type
  \/ config[r].values # state[r].values
  \/ config[r].lists # NoLists /\ config[r].lists # state[r].lists

Planned(r) ==
  CASE config[r] = NotDeclared /\ state[r] = NotInState -> "idle"
    [] config[r] = NotDeclared /\ state[r] # NotInState -> "delete"
    [] config[r] # NotDeclared /\ state[r] = NotInState -> "create"
    [] OTHER -> IF Differs(r) THEN "update" ELSE "idle"

(* Every resource was refreshed: the differences become operations. *)
Plan ==
  /\ \A r \in Addresses : pc[r] = "refreshed"
  /\ pc' = [r \in Addresses |-> Planned(r)]
  /\ UNCHANGED <<staged, published, config, state, stale, spent>>

(* A refresh failed: nothing is planned and nothing is applied. *)
Abort ==
  /\ \A r \in Addresses : pc[r] \in {"refreshed", "unread"}
  /\ \E r \in Addresses : pc[r] = "unread"
  /\ pc' = [r \in Addresses |-> "idle"]
  /\ UNCHANGED <<staged, published, config, state, stale, spent>>

(* The operator imports a section the configuration declares. *)
Import(r) ==
  /\ BetweenRuns
  /\ config[r] # NotDeclared /\ state[r] = NotInState /\ Held(r)
  /\ state' = [state EXCEPT ![r] = Observed(staged[r])]
  /\ Goto(r, "idle")
  /\ UNCHANGED <<staged, published, config, stale, spent>>

(* The operator edits the configuration. *)
EditConfig(r) ==
  /\ BetweenRuns
  /\ Spend("change")
  /\ \E d \in (Declarations \cup {NotDeclared}) \ {config[r]} :
       config' = [config EXCEPT ![r] = d]
  /\ Goto(r, "idle")
  /\ UNCHANGED <<staged, published, state, stale>>

-----------------------------------------------------------------------------
(***************************************************************************)
(* The handlers.                                                           *)
(***************************************************************************)

(* One mutating call and its outcomes: done; refused by the device because *)
(* the section is not there; or a fault, with or without the effect (a     *)
(* `uci' object that is away is a fault without one: the handlers ask of   *)
(* no error but Read's whether it says "not found").                       *)
Attempt(r, possible, new, next) ==
  /\ UNCHANGED <<config, state, stale>>
  /\ \/ possible /\ Stage(r, new) /\ Goto(r, next) /\ UNCHANGED spent
     \/ ~possible /\ Goto(r, "failed") /\ UNCHANGED <<staged, published, spent>>
     \/ /\ Spend("fault")
        /\ Goto(r, "failed")
        /\ UNCHANGED <<staged, published>> \/ (possible /\ Stage(r, new))

(* The commit that ends every handler, and the state it then records. *)
Commit(r, next, recorded) ==
  /\ UNCHANGED <<config, stale>>
  /\ \/ /\ Publish(PackageOf[r])
        /\ Goto(r, next)
        /\ state' = [state EXCEPT ![r] = recorded]
        /\ UNCHANGED spent
     \/ /\ Spend("fault")
        /\ Goto(r, "failed")
        /\ UNCHANGED state
        /\ UNCHANGED <<staged, published>> \/ Publish(PackageOf[r])

(* Read: the section is there, and state becomes what it holds. *)
ReadFound(r) ==
  /\ pc[r] = "read" /\ Held(r)
  /\ state' = [state EXCEPT ![r] = Observed(staged[r])]
  /\ stale' = [stale EXCEPT ![r] = FALSE]
  /\ Goto(r, "refreshed")
  /\ UNCHANGED <<staged, published, config, spent>>

(* Who answers "ubus status 4": rpcd, for a section it does not hold, and  *)
(* the adapter, for any section while the `uci' object is away from the    *)
(* bus (UbusHttp; rpcd restarts, or leaves between LOOKUP and INVOKE).     *)
AnsweredNotFound(r) ==
  \/ ~Held(r) /\ UNCHANGED spent
  \/ Spend("away")

(* Read: an error.  "ubus status 4" removes the resource from state;       *)
(* anything else keeps it and fails the refresh.                           *)
ReadError(r) ==
  /\ pc[r] = "read"
  /\ \E e \in ReadErrors \cup {NotFound} :
       /\ IF e = NotFound THEN AnsweredNotFound(r) ELSE Spend("fault")
       /\ IF DeviceSaysAbsent(e)
            THEN /\ state' = [state EXCEPT ![r] = NotInState]
                 /\ stale' = [stale EXCEPT ![r] = FALSE]
                 /\ Goto(r, "refreshed")
            ELSE /\ Goto(r, "unread")
                 /\ UNCHANGED <<state, stale>>
  /\ UNCHANGED <<staged, published, config>>

(* Read: a 200 without a `values' map leaves the model as it was. *)
ReadNothing(r) ==
  /\ pc[r] = "read"
  /\ Spend("fault")
  /\ Goto(r, "refreshed")
  /\ UNCHANGED <<staged, published, config, state, stale>>

(* valueMap fails: Create and Update return before any call. *)
Refuse(r) ==
  /\ pc[r] \in {"create", "update"} /\ Refused(r)
  /\ Goto(r, "failed")
  /\ UNCHANGED <<staged, published, config, state, stale, spent>>

CreateAdd(r) ==
  /\ pc[r] = "create" /\ ~Refused(r)
  /\ Attempt(r, TRUE, Added(r), "commitCreate")

CreateCommit(r) ==
  /\ pc[r] = "commitCreate"
  /\ Commit(r, "created", Recorded(r, NoLists))

UpdateDelete(r) ==
  /\ pc[r] = "update" /\ ~Refused(r) /\ Removed(r) # {}
  /\ Attempt(r, Held(r), Without(staged[r], Removed(r)), "set")

UpdateSet(r) ==
  /\ pc[r] = "set" \/ (pc[r] = "update" /\ ~Refused(r) /\ Removed(r) = {})
  /\ Attempt(r, Held(r), Merge(staged[r], Written(r)), "commitUpdate")

UpdateCommit(r) ==
  /\ pc[r] = "commitUpdate"
  /\ Commit(r, "updated", Recorded(r, state[r].lists))

DeleteSection(r) ==
  /\ pc[r] = "delete"
  /\ Attempt(r, Held(r), Absent, "commitDelete")

DeleteCommit(r) ==
  /\ pc[r] = "commitDelete"
  /\ Commit(r, "deleted", NotInState)

-----------------------------------------------------------------------------
(***************************************************************************)
(* The world around the provider.                                          *)
(***************************************************************************)

DeviceRestart ==
  /\ Spend("restart")
  /\ Restart
  /\ stale' = [r \in Addresses |-> stale[r] \/ staged[r] # published[r]]
  /\ UNCHANGED <<config, state, pc>>

ForeignEdit(r) ==
  /\ Spend("edit")
  /\ \E s \in ForeignWrites : Overwrite(r, s)
  /\ stale' = [stale EXCEPT ![r] = TRUE]
  /\ UNCHANGED <<config, state, pc>>

-----------------------------------------------------------------------------
Handler(r) ==
  \/ ReadFound(r) \/ ReadError(r) \/ ReadNothing(r)
  \/ Refuse(r) \/ CreateAdd(r) \/ CreateCommit(r)
  \/ UpdateDelete(r) \/ UpdateSet(r) \/ UpdateCommit(r)
  \/ DeleteSection(r) \/ DeleteCommit(r)

Progress ==
  \/ StartRun \/ Plan \/ Abort
  \/ \E r \in Addresses : Handler(r)

Environment ==
  \/ DeviceRestart
  \/ \E r \in Addresses : Import(r) \/ EditConfig(r) \/ ForeignEdit(r)

Next == Progress \/ Environment

Spec == Init /\ [][Next]_vars

(* The operator keeps running Terraform, and a run that started is carried *)
(* on.  Nothing is assumed of restarts, edits and faults but their bounds. *)
FairSpec == Spec /\ WF_vars(Progress)

-----------------------------------------------------------------------------
(***************************************************************************)
(* Properties.                                                             *)
(***************************************************************************)

(* A view of the section holds everything r declares. *)
Declares(s, r) ==
  /\ s # Absent
  /\ \A k \in Options : Written(r)[k] # Unset => s.opts[k] = Written(r)[k]

(* ... and nothing the declaration rules out: `values' is authoritative    *)
(* over scalars, `lists' over lists where it is declared.                  *)
Exactly(s, r) ==
  /\ Declares(s, r)
  /\ \A k \in Options :
       Written(r)[k] = Unset =>
         /\ s.opts[k] \notin Scalars
         /\ config[r].lists # NoLists => s.opts[k] = Unset

(* An operation that reported success is on flash, and not just staged:    *)
(* a created section holds what was declared, an updated one holds exactly *)
(* that, a deleted one is gone - unless the router restarted or another    *)
(* tool wrote the section between the refresh and the commit.              *)
AppliedIsPublished ==
  \A r \in Addresses : ~stale[r] =>
    /\ pc[r] = "created" => Declares(published[r], r)
    /\ pc[r] = "updated" => Exactly(published[r], r)
    /\ pc[r] = "deleted" => published[r] = Absent

(* A read that finds the `uci' object away while the section is there.     *)
ReadWhileAway(r) == pc[r] = "read" /\ spent'["away"] # spent["away"]

(* A resource leaves Terraform's state when the section is gone, and else  *)
(* in two cases only: a delete whose staged removal a restart undid, and a *)
(* Read that meets the bus without the `uci' object, whose "ubus status 4" *)
(* deviceSaysAbsent takes for a deleted section.  The second is not what   *)
(* the code means: main.go:68-69 says that a device with no `uci' object   *)
(* answers otherwise.  No refused connection, no session that ended, no    *)
(* gateway error and no other 404 reads as a deletion.                     *)
ForgottenOnlyOnNotFound ==
  [][\A r \in Addresses :
       state[r] # NotInState /\ state'[r] = NotInState =>
         \/ staged[r] = Absent
         \/ ReadWhileAway(r)
         \/ pc[r] = "commitDelete" /\ stale[r]]_vars

(* What the provider may touch in a section: the options it declares, the  *)
(* scalars it recorded, and, where `lists' is declared, the recorded lists.*)
(* A list option nobody declared survives every step of every update.      *)
Owned(r, k) ==
  \/ Written(r)[k] # Unset
  \/ state[r] # NotInState /\ state[r].values[k] # Unset
  \/ state[r] # NotInState /\ config[r].lists # NoLists

OnlyOwnedOptionsTouched ==
  [][\A r \in Addresses, k \in Options :
       /\ pc[r] \in Calling /\ pc'[r] # pc[r]
       /\ staged[r] # Absent /\ staged'[r] # Absent
       /\ staged'[r].opts[k] # staged[r].opts[k]
       => Owned(r, k)]_vars

(* Terraform's runs converge: once the mishaps are over, `uci get' answers *)
(* what is declared, for good.                                             *)
Reconciled(s, r) ==
  IF config[r] = NotDeclared THEN state[r] = NotInState
  ELSE Refused(r) \/ Exactly(s, r)

StagedConverges ==
  <>[](\A r \in Addresses : Reconciled(staged[r], r))

-----------------------------------------------------------------------------
(***************************************************************************)
(* What the repository says and the code does not do.                      *)
(***************************************************************************)

(* provider/terraform/README.md: "Every mutation commits."  What the runs  *)
(* leave behind survives a power cycle: flash, too, ends up as declared.   *)
(* It does not: a handler that fails after it staged something - an add    *)
(* whose reply was lost, a commit that did not get through - returns       *)
(* without a commit that took effect.  Read and the import answer from the *)
(* delta, the plan is empty, and nobody commits.                           *)
PublishedConverges ==
  <>[](\A r \in Addresses : Reconciled(published[r], r))

(* inventory.rs and emit.rs: a section that declares only its structural   *)
(* options "leaves every undeclared option - the PSK included - exactly as *)
(* the device has it".                                                     *)
UndeclaredOptionsKept ==
  [][\A r \in Addresses, k \in Options :
       /\ pc[r] \in Calling /\ config[r] # NotDeclared
       /\ staged[r] # Absent /\ staged'[r] # Absent
       /\ Written(r)[k] = Unset /\ pc'[r] # pc[r]
       => staged'[r].opts[k] = staged[r].opts[k]]_vars

=============================================================================
