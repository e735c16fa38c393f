---------------------- MODULE UciSectionResource_proofs ----------------------
(***************************************************************************)
(* Proofs about UciSectionResource, for every set of resources, options    *)
(* and values, and for any number of faults, restarts and edits.           *)
(***************************************************************************)
EXTENDS UciSectionResource, TLAPS

(* What the program counter says about declaration and state. *)
HasBlock == {"create", "commitCreate", "update", "set", "commitUpdate",
             "created", "updated"}
InState  == {"read", "update", "set", "commitUpdate", "delete", "commitDelete"}

ControlInv ==
  \A r \in Addresses :
    /\ pc[r] \in HasBlock => config[r] # NotDeclared
    /\ pc[r] \in InState => state[r] # NotInState

(* Nothing is left in the staged view that an update should have removed.  *)
Cleared(r) ==
  /\ staged[r] # Absent
  /\ \A k \in Options :
       Written(r)[k] = Unset =>
         /\ staged[r].opts[k] \notin Scalars
         /\ config[r].lists # NoLists => staged[r].opts[k] = Unset

(* How far an undisturbed operation on r has brought the device.           *)
StagedAt(r) ==
  ~stale[r] =>
    /\ pc[r] # "read"
    /\ pc[r] \in {"refreshed", "update"} /\ state[r] # NotInState =>
         staged[r] # Absent /\ state[r] = Observed(staged[r])
    /\ pc[r] = "set" => Cleared(r)
    /\ pc[r] \in {"commitUpdate", "updated"} => Exactly(staged[r], r)
    /\ pc[r] \in {"commitCreate", "created"} => Declares(staged[r], r)
    /\ pc[r] \in {"commitDelete", "deleted"} => staged[r] = Absent
    /\ pc[r] \in {"created", "updated", "deleted"} => published[r] = staged[r]

StagedInv == \A r \in Addresses : StagedAt(r)

(* The inductive invariant. *)
IInv == TypeOK /\ ControlInv /\ StagedInv

-----------------------------------------------------------------------------
(***************************************************************************)
(* The operators the handlers compute with.                                *)
(***************************************************************************)

Options2Value == [Options -> Value \cup {Unset}]

(* A merged map is a map from options to values, whether `lists' is null   *)
(* or not.                                                                 *)
LEMMA ValueMapType ==
  ASSUME NEW values \in Scalar, NEW lists \in Listed \cup {NoLists}
  PROVE  ValueMap(values, lists) \in Options2Value
<1>1. CASE lists = NoLists
  BY <1>1 DEF ValueMap, Options2Value, Scalar, Value
<1>2. CASE lists \in Listed
  BY <1>2 DEF ValueMap, Options2Value, Scalar, Listed, Value
<1>3. QED
  BY <1>1, <1>2

(* What Read records of a section is a well-formed model.                  *)
LEMMA ObservedType ==
  ASSUME NEW s \in Section
  PROVE  Observed(s) \in Model
BY DEF Observed, Section, Model, Scalar, Listed, Value

(* `uci set' keeps the type and every option it is not given.              *)
LEMMA MergeFacts ==
  ASSUME NEW s \in Section, NEW vals \in Options2Value
  PROVE  /\ Merge(s, vals) \in Section
         /\ \A k \in Options : Merge(s, vals).opts[k] =
              IF vals[k] # Unset THEN vals[k] ELSE s.opts[k]
BY DEF Merge, Section, Options2Value

(* Deleting options unsets them and nothing else.                          *)
LEMMA WithoutFacts ==
  ASSUME NEW s \in Section, NEW ks \in SUBSET Options
  PROVE  /\ Without(s, ks) \in Section
         /\ \A k \in Options : Without(s, ks).opts[k] =
              IF k \in ks THEN Unset ELSE s.opts[k]
BY DEF Without, Section

(* A declared block is a model, and what is written from it a map.         *)
LEMMA BlockFacts ==
  ASSUME TypeOK, NEW r \in Addresses, config[r] # NotDeclared
  PROVE  config[r] \in Model /\ Written(r) \in Options2Value
<1>1. config[r] \in Model
  BY Bounds DEF TypeOK
<1>2. QED
  BY <1>1, ValueMapType DEF Written, Model

(* `uci add': every declared option is in the section afterwards.          *)
LEMMA AddedFacts ==
  ASSUME TypeOK, NEW r \in Addresses, config[r] # NotDeclared
  PROVE  Added(r) \in Section /\ Declares(Added(r), r)
<1> DEFINE base == IF Held(r) THEN staged[r].opts ELSE [k \in Options |-> Unset]
           fresh == [type |-> config[r].type, opts |-> base]
<1>1. config[r] \in Model /\ Written(r) \in Options2Value
  BY BlockFacts
<1>2. base \in Options2Value
  <2>1. CASE Held(r)
    <3>1. staged[r] \in Section
      BY <2>1 DEF Held, TypeOK, DeviceTypeOK
    <3>2. QED
      BY <2>1, <3>1 DEF Section, Options2Value
  <2>2. CASE ~Held(r)
    BY <2>2 DEF Options2Value
  <2>3. QED
    BY <2>1, <2>2
<1>3. fresh \in Section
  BY <1>1, <1>2 DEF Section, Model, Options2Value
<1>4. Added(r) = Merge(fresh, Written(r))
  BY DEF Added
<1>5. Added(r) \in Section
  BY <1>1, <1>3, <1>4, MergeFacts
<1>6. \A k \in Options : Written(r)[k] # Unset => Added(r).opts[k] = Written(r)[k]
  BY <1>1, <1>3, <1>4, MergeFacts
<1>7. QED
  BY <1>5, <1>6, Sentinels DEF Declares

(* The state Create and Update record is a well-formed model.              *)
LEMMA RecordedType ==
  ASSUME TypeOK, NEW r \in Addresses, config[r] # NotDeclared,
         NEW omitted \in Listed \cup {NoLists}
  PROVE  Recorded(r, omitted) \in Model
BY BlockFacts DEF Recorded, Model

(* What the delete and the set leave behind is exactly what is declared.   *)
LEMMA ClearedThenMerged ==
  ASSUME TypeOK, NEW r \in Addresses, config[r] # NotDeclared, Cleared(r)
  PROVE  Exactly(Merge(staged[r], Written(r)), r)
<1>1. staged[r] \in Section
  BY DEF Cleared, TypeOK, DeviceTypeOK
<1>2. Written(r) \in Options2Value
  BY BlockFacts
<1>3. Merge(staged[r], Written(r)) # Absent
  BY <1>1, <1>2, MergeFacts, Sentinels
<1>4. QED
  BY <1>1, <1>2, <1>3, MergeFacts DEF Exactly, Declares, Cleared

(* A section that reads as the state, minus what Update removes, is clear. *)
LEMMA ObservedThenCleared ==
  ASSUME TypeOK, NEW r \in Addresses,
         config[r] # NotDeclared, state[r] # NotInState,
         staged[r] # Absent, state[r] = Observed(staged[r]),
         NEW k \in Options, Written(r)[k] = Unset, k \notin Removed(r)
  PROVE  /\ staged[r].opts[k] \notin Scalars
         /\ config[r].lists # NoLists => staged[r].opts[k] = Unset
<1>1. staged[r] \in Section
  BY DEF TypeOK, DeviceTypeOK
<1>2. staged[r].opts[k] \in Value \cup {Unset}
  BY <1>1 DEF Section
<1>3. Prior(r)[k] = Unset
  BY DEF Removed
<1>4. Prior(r)[k] = IF state[r].values[k] = Unset /\ PriorLists(r) # NoLists
                      THEN PriorLists(r)[k] ELSE state[r].values[k]
  BY DEF Prior, ValueMap
<1>5. state[r].values[k] =
        IF staged[r].opts[k] \in Scalars THEN staged[r].opts[k] ELSE Unset
  BY DEF Observed
<1>6. state[r].lists[k] =
        IF staged[r].opts[k] \in ListVals THEN staged[r].opts[k] ELSE Unset
  BY DEF Observed
<1>7. staged[r].opts[k] \notin Scalars
  BY <1>3, <1>4, <1>5, OptionValues DEF Value
<1>8. ASSUME config[r].lists # NoLists
      PROVE  staged[r].opts[k] = Unset
  <2>1. PriorLists(r) = state[r].lists
    BY <1>8 DEF PriorLists
  <2>2. state[r].lists \in Listed
    BY <1>1, ObservedType DEF Observed, Section, Listed
  <2>3. PriorLists(r) # NoLists
    BY <2>1, <2>2, OptionValues
  <2>4. state[r].lists[k] = Unset
    BY <1>3, <1>4, <1>5, <1>7, <2>1, <2>3
  <2>5. QED
    BY <1>2, <1>6, <1>7, <2>4, OptionValues DEF Value
<1>9. QED
  BY <1>7, <1>8

-----------------------------------------------------------------------------
(***************************************************************************)
(* Type correctness and control.                                           *)
(***************************************************************************)

(* The initial states satisfy the inductive invariant.                     *)
LEMMA InitInv == Init => IInv
<1> SUFFICES ASSUME Init PROVE IInv
  OBVIOUS
<1>1. TypeOK
  BY Bounds DEF Init, TypeOK, DeviceTypeOK, Settled, Mishaps
<1>2. ControlInv /\ StagedInv
  BY DEF Init, ControlInv, StagedInv, StagedAt, HasBlock, InState
<1>3. QED
  BY <1>1, <1>2 DEF IInv

(* A mishap leaves its counter a number.                                   *)
LEMMA SpendType ==
  ASSUME TypeOK, NEW m \in Mishaps, Spend(m)
  PROVE  spent' \in [Mishaps -> Nat]
BY DEF TypeOK, Spend

(* One staging call keeps the types, if what it stages is a section.       *)
LEMMA AttemptType ==
  ASSUME TypeOK, NEW r \in Addresses, NEW possible \in BOOLEAN,
         NEW new, possible => new \in Section \cup {Absent},
         NEW next \in Settled \cup Calling,
         Attempt(r, possible, new, next)
  PROVE  TypeOK'
<1>1. staged' \in [Addresses -> Section \cup {Absent}] /\ published' = published
  BY DEF Attempt, Stage, TypeOK, DeviceTypeOK
<1>2. pc' \in [Addresses -> Settled \cup Calling \cup {"read", "refreshed", "unread"}]
  BY DEF Attempt, Goto, TypeOK, Settled
<1>3. spent' \in [Mishaps -> Nat]
  BY SpendType DEF Attempt, TypeOK, Mishaps
<1>4. QED
  BY <1>1, <1>2, <1>3 DEF Attempt, TypeOK, DeviceTypeOK

(* So does a commit, if what it records is a model.                        *)
LEMMA CommitType ==
  ASSUME TypeOK, NEW r \in Addresses,
         NEW next \in Settled \cup Calling,
         NEW recorded \in Model \cup {NotInState},
         Commit(r, next, recorded)
  PROVE  TypeOK'
<1>1. staged' = staged /\ published' \in [Addresses -> Section \cup {Absent}]
  BY DEF Commit, Publish, TypeOK, DeviceTypeOK
<1>2. pc' \in [Addresses -> Settled \cup Calling \cup {"read", "refreshed", "unread"}]
  BY DEF Commit, Goto, TypeOK, Settled
<1>3. spent' \in [Mishaps -> Nat]
  BY SpendType DEF Commit, TypeOK, Mishaps
<1>4. state' \in [Addresses -> Model \cup {NotInState}]
  BY DEF Commit, TypeOK
<1>5. QED
  BY <1>1, <1>2, <1>3, <1>4 DEF Commit, TypeOK, DeviceTypeOK

(* Every handler step keeps the types of all variables.                    *)
LEMMA HandlerType ==
  ASSUME TypeOK, ControlInv, NEW r \in Addresses, Handler(r)
  PROVE  TypeOK'
<1> USE DEF ControlInv, HasBlock, InState
<1>1. CASE ReadFound(r)
  <2>1. Observed(staged[r]) \in Model
    BY <1>1, ObservedType DEF ReadFound, Held, TypeOK, DeviceTypeOK
  <2>2. QED
    BY <1>1, <2>1 DEF ReadFound, Goto, TypeOK, DeviceTypeOK
<1>2. CASE ReadError(r)
  <2>1. spent' \in [Mishaps -> Nat]
    BY <1>2, SpendType DEF ReadError, AnsweredNotFound, TypeOK, Mishaps
  <2>2. QED
    BY <1>2, <2>1 DEF ReadError, Goto, TypeOK, DeviceTypeOK
<1>3. CASE ReadNothing(r)
  BY <1>3, SpendType DEF ReadNothing, Goto, TypeOK, DeviceTypeOK, Mishaps
<1>4. CASE Refuse(r)
  BY <1>4 DEF Refuse, Goto, TypeOK, DeviceTypeOK, Settled
<1>5. CASE CreateAdd(r)
  BY <1>5, AddedFacts, AttemptType DEF CreateAdd, Calling
<1>6. CASE CreateCommit(r)
  <2>1. Recorded(r, NoLists) \in Model
    BY <1>6, RecordedType DEF CreateCommit
  <2>2. QED
    BY <1>6, <2>1, CommitType DEF CreateCommit, Settled
<1>7. CASE UpdateDelete(r)
  <2>1. ASSUME Held(r) PROVE Without(staged[r], Removed(r)) \in Section
    BY <2>1, WithoutFacts DEF Held, TypeOK, DeviceTypeOK, Removed
  <2>2. QED
    BY <1>7, <2>1, AttemptType DEF UpdateDelete, Held, Calling
<1>8. CASE UpdateSet(r)
  <2>1. config[r] # NotDeclared
    BY <1>8 DEF UpdateSet
  <2>2. ASSUME Held(r) PROVE Merge(staged[r], Written(r)) \in Section
    BY <2>1, <2>2, MergeFacts, BlockFacts DEF Held, TypeOK, DeviceTypeOK
  <2>3. QED
    BY <1>8, <2>2, AttemptType DEF UpdateSet, Held, Calling
<1>9. CASE UpdateCommit(r)
  <2>1. config[r] # NotDeclared /\ state[r] \in Model
    BY <1>9 DEF UpdateCommit, TypeOK
  <2>2. Recorded(r, state[r].lists) \in Model
    BY <2>1, RecordedType DEF Model
  <2>3. QED
    BY <1>9, <2>2, CommitType DEF UpdateCommit, Settled
<1>10. CASE DeleteSection(r)
  BY <1>10, AttemptType DEF DeleteSection, Held, Calling
<1>11. CASE DeleteCommit(r)
  BY <1>11, CommitType DEF DeleteCommit, Settled
<1>12. QED
  BY <1>1, <1>2, <1>3, <1>4, <1>5, <1>6, <1>7, <1>8, <1>9, <1>10, <1>11 DEF Handler

(* Every step keeps the types of all variables.                            *)
LEMMA TypeStep == TypeOK /\ ControlInv /\ [Next]_vars => TypeOK'
<1> SUFFICES ASSUME TypeOK, ControlInv, [Next]_vars PROVE TypeOK'
  OBVIOUS
<1>1. CASE StartRun
  BY <1>1 DEF StartRun, TypeOK, DeviceTypeOK
<1>2. CASE Plan
  <2>1. \A r \in Addresses : Planned(r) \in Settled \cup Calling
    BY DEF Planned, Settled, Calling
  <2>2. QED
    BY <1>2, <2>1 DEF Plan, TypeOK, DeviceTypeOK
<1>3. CASE Abort
  BY <1>3 DEF Abort, TypeOK, DeviceTypeOK, Settled
<1>4. ASSUME NEW r \in Addresses, Handler(r) PROVE TypeOK'
  BY <1>4, HandlerType
<1>5. CASE DeviceRestart
  BY <1>5, SpendType DEF DeviceRestart, Restart, TypeOK, DeviceTypeOK, Mishaps
<1>6. ASSUME NEW r \in Addresses, Import(r) PROVE TypeOK'
  <2>1. Observed(staged[r]) \in Model
    BY <1>6, ObservedType DEF Import, Held, TypeOK, DeviceTypeOK
  <2>2. QED
    BY <1>6, <2>1 DEF Import, Goto, TypeOK, DeviceTypeOK, Settled
<1>7. ASSUME NEW r \in Addresses, EditConfig(r) PROVE TypeOK'
  BY <1>7, SpendType DEF EditConfig, Goto, TypeOK, DeviceTypeOK, Settled, Mishaps
<1>8. ASSUME NEW r \in Addresses, ForeignEdit(r) PROVE TypeOK'
  BY <1>8, SpendType, Bounds DEF ForeignEdit, Overwrite, TypeOK, DeviceTypeOK, Mishaps
<1>9. CASE UNCHANGED vars
  BY <1>9 DEF vars, TypeOK, DeviceTypeOK
<1>10. QED
  BY <1>1, <1>2, <1>3, <1>4, <1>5, <1>6, <1>7, <1>8, <1>9 DEF Next, Progress, Environment

(* Every step keeps ControlInv: what an operation in progress presupposes. *)
LEMMA ControlStep == TypeOK /\ ControlInv /\ [Next]_vars => ControlInv'
<1> SUFFICES ASSUME TypeOK, ControlInv, [Next]_vars PROVE ControlInv'
  OBVIOUS
<1> USE DEF ControlInv, HasBlock, InState
<1>1. CASE StartRun
  BY <1>1 DEF StartRun, TypeOK
<1>2. CASE Plan
  BY <1>2 DEF Plan, Planned, TypeOK
<1>3. CASE Abort
  BY <1>3 DEF Abort, TypeOK
<1>4. ASSUME NEW r \in Addresses, Handler(r) PROVE ControlInv'
  <2>1. CASE ReadFound(r) \/ ReadError(r) \/ ReadNothing(r) \/ Refuse(r)
    <3>1. pc[r] \in {"read", "create", "update"} /\ config' = config
      BY <2>1 DEF ReadFound, ReadError, ReadNothing, Refuse
    <3>2. pc'[r] \in {"refreshed", "unread", "failed"}
      BY <2>1 DEF ReadFound, ReadError, ReadNothing, Refuse, Goto, TypeOK
    <3>3. \A q \in Addresses \ {r} : pc'[q] = pc[q] /\ state'[q] = state[q]
      BY <2>1 DEF ReadFound, ReadError, ReadNothing, Refuse, Goto, TypeOK
    <3>4. QED
      BY <3>1, <3>2, <3>3
  <2>2. CASE CreateAdd(r)
    BY <2>2 DEF CreateAdd, Attempt, Goto, TypeOK
  <2>3. CASE CreateCommit(r)
    BY <2>3 DEF CreateCommit, Commit, Goto, TypeOK
  <2>4. CASE UpdateDelete(r)
    BY <2>4 DEF UpdateDelete, Attempt, Goto, TypeOK
  <2>5. CASE UpdateSet(r)
    BY <2>5 DEF UpdateSet, Attempt, Goto, TypeOK
  <2>6. CASE UpdateCommit(r)
    BY <2>6 DEF UpdateCommit, Commit, Goto, TypeOK
  <2>7. CASE DeleteSection(r)
    BY <2>7 DEF DeleteSection, Attempt, Goto, TypeOK
  <2>8. CASE DeleteCommit(r)
    BY <2>8 DEF DeleteCommit, Commit, Goto, TypeOK
  <2>9. QED
    BY <1>4, <2>1, <2>2, <2>3, <2>4, <2>5, <2>6, <2>7, <2>8 DEF Handler
<1>5. CASE DeviceRestart
  BY <1>5 DEF DeviceRestart
<1>6. ASSUME NEW r \in Addresses, Import(r) PROVE ControlInv'
  <2>1. Observed(staged[r]) \in Model
    BY <1>6, ObservedType DEF Import, Held, TypeOK, DeviceTypeOK
  <2>2. QED
    BY <1>6, <2>1, Sentinels DEF Import, Goto, TypeOK
<1>7. ASSUME NEW r \in Addresses, EditConfig(r) PROVE ControlInv'
  BY <1>7 DEF EditConfig, Goto, TypeOK
<1>8. ASSUME NEW r \in Addresses, ForeignEdit(r) PROVE ControlInv'
  BY <1>8 DEF ForeignEdit
<1>9. CASE UNCHANGED vars
  BY <1>9 DEF vars
<1>10. QED
  BY <1>1, <1>2, <1>3, <1>4, <1>5, <1>6, <1>7, <1>8, <1>9 DEF Next, Progress, Environment

-----------------------------------------------------------------------------
(***************************************************************************)
(* The staged view, one operation at a time.                               *)
(***************************************************************************)

(* A step that leaves a resource, its declaration and its staged section   *)
(* alone leaves StagedAt true of it, whatever package it commits.          *)
LEMMA Undisturbed ==
  ASSUME NEW q \in Addresses, StagedAt(q),
         config'[q] = config[q], state'[q] = state[q], pc'[q] = pc[q],
         staged'[q] = staged[q], published'[q] \in {published[q], staged[q]},
         stale'[q] \in {stale[q], TRUE}
  PROVE  StagedAt(q)'
<1>1. Written(q)' = Written(q)
  BY DEF Written, ValueMap
<1>2. Exactly(staged[q], q)' <=> Exactly(staged[q], q)
  BY <1>1 DEF Exactly, Declares
<1>3. Declares(staged[q], q)' <=> Declares(staged[q], q)
  BY <1>1 DEF Declares
<1>4. Cleared(q)' <=> Cleared(q)
  BY <1>1 DEF Cleared
<1>5. Observed(staged[q])' = Observed(staged[q])
  BY DEF Observed
<1>6. QED
  BY <1>2, <1>3, <1>4, <1>5 DEF StagedAt

(* A staging call: the caller's own address may change, no other does.     *)
LEMMA AttemptOthers ==
  ASSUME TypeOK, StagedInv, NEW r \in Addresses, NEW q \in Addresses, q # r,
         NEW possible, NEW new, NEW next, Attempt(r, possible, new, next)
  PROVE  StagedAt(q)'
<1>1. /\ config'[q] = config[q] /\ state'[q] = state[q] /\ stale'[q] = stale[q]
      /\ pc'[q] = pc[q] /\ staged'[q] = staged[q] /\ published'[q] = published[q]
  BY DEF Attempt, Stage, Goto, TypeOK, DeviceTypeOK
<1>2. QED
  BY <1>1, Undisturbed DEF StagedInv

(* A commit publishes other addresses of the package as they are staged.   *)
LEMMA CommitOthers ==
  ASSUME TypeOK, StagedInv, NEW r \in Addresses, NEW q \in Addresses, q # r,
         NEW next, NEW recorded, Commit(r, next, recorded)
  PROVE  StagedAt(q)'
<1>1. /\ config'[q] = config[q] /\ state'[q] = state[q] /\ stale'[q] = stale[q]
      /\ pc'[q] = pc[q] /\ staged'[q] = staged[q]
      /\ published'[q] \in {published[q], staged[q]}
  BY DEF Commit, Publish, Goto, TypeOK, DeviceTypeOK
<1>2. QED
  BY <1>1, Undisturbed DEF StagedInv

(* A call that failed promises nothing about its own resource.             *)
LEMMA AttemptOwn ==
  ASSUME TypeOK, NEW r \in Addresses, NEW possible, NEW new, NEW next,
         Attempt(r, possible, new, next)
  PROVE  /\ config' = config /\ state' = state /\ stale' = stale
         /\ \/ pc'[r] = "failed"
            \/ possible /\ staged'[r] = new /\ pc'[r] = next
BY DEF Attempt, Stage, Goto, TypeOK, DeviceTypeOK

(* A commit that failed promises nothing, one that succeeded publishes.    *)
LEMMA CommitOwn ==
  ASSUME TypeOK, NEW r \in Addresses, NEW next, NEW recorded,
         Commit(r, next, recorded)
  PROVE  /\ config' = config /\ stale' = stale /\ staged' = staged
         /\ \/ pc'[r] = "failed" /\ state' = state
            \/ published'[r] = staged[r] /\ pc'[r] = next
BY DEF Commit, Publish, Goto, TypeOK, DeviceTypeOK

(* An operation that is not under way promises nothing.                    *)
LEMMA FailedAt ==
  ASSUME NEW r \in Addresses, pc'[r] \in {"failed", "idle", "unread"}
  PROVE  StagedAt(r)'
BY DEF StagedAt

(* An update that just read the section, and has removed what it must.     *)
LEMMA ClearAfterRead ==
  ASSUME TypeOK, NEW r \in Addresses,
         config[r] # NotDeclared, state[r] # NotInState,
         staged[r] # Absent, state[r] = Observed(staged[r])
  PROVE  /\ Without(staged[r], Removed(r)) # Absent
         /\ \A k \in Options : Written(r)[k] = Unset =>
              LET left == Without(staged[r], Removed(r)).opts[k]
              IN  /\ left \notin Scalars
                  /\ config[r].lists # NoLists => left = Unset
<1>1. staged[r] \in Section /\ Removed(r) \in SUBSET Options
  BY DEF TypeOK, DeviceTypeOK, Removed
<1>2. /\ Without(staged[r], Removed(r)) \in Section
      /\ \A k \in Options : Without(staged[r], Removed(r)).opts[k] =
           IF k \in Removed(r) THEN Unset ELSE staged[r].opts[k]
  BY <1>1, WithoutFacts
<1>3. ASSUME NEW k \in Options, Written(r)[k] = Unset, k \notin Removed(r)
      PROVE  /\ staged[r].opts[k] \notin Scalars
             /\ config[r].lists # NoLists => staged[r].opts[k] = Unset
  BY <1>3, ObservedThenCleared
<1>4. Unset \notin Scalars
  BY OptionValues DEF Value
<1>5. QED
  BY <1>2, <1>3, <1>4, Sentinels

(* Update's own section, through delete, set and commit.                   *)
LEMMA UpdateStaged ==
  ASSUME IInv, NEW r \in Addresses,
         UpdateDelete(r) \/ UpdateSet(r) \/ UpdateCommit(r)
  PROVE  StagedAt(r)'
<1> USE DEF IInv
<1>1. config' = config /\ Written(r)' = Written(r)
  BY DEF UpdateDelete, UpdateSet, UpdateCommit, Attempt, Commit, Written, ValueMap
<1>2. config[r] # NotDeclared /\ state[r] # NotInState
  BY DEF UpdateDelete, UpdateSet, UpdateCommit, ControlInv, HasBlock, InState
<1>3. StagedAt(r)
  BY DEF StagedInv
<1>4. CASE UpdateDelete(r)
  <2>1. /\ stale' = stale /\ pc[r] = "update"
        /\ \/ pc'[r] = "failed"
           \/ staged'[r] = Without(staged[r], Removed(r)) /\ pc'[r] = "set"
    BY <1>4, AttemptOwn DEF UpdateDelete
  <2>2. CASE pc'[r] = "failed"
    BY <2>2, FailedAt
  <2>3. CASE stale[r]
    BY <2>1, <2>3 DEF StagedAt
  <2>4. CASE pc'[r] = "set" /\ ~stale[r]
    <3>1. staged[r] # Absent /\ state[r] = Observed(staged[r])
      BY <1>2, <1>3, <2>1, <2>4 DEF StagedAt
    <3>2. staged'[r] = Without(staged[r], Removed(r))
      BY <2>1, <2>4
    <3>3. Cleared(r)'
      BY <1>1, <1>2, <3>1, <3>2, ClearAfterRead DEF Cleared
    <3>4. QED
      BY <2>4, <3>3 DEF StagedAt
  <2>5. QED
    BY <2>1, <2>2, <2>3, <2>4
<1>5. CASE UpdateSet(r)
  <2>1. /\ stale' = stale
        /\ \/ pc'[r] = "failed"
           \/ staged'[r] = Merge(staged[r], Written(r)) /\ pc'[r] = "commitUpdate"
    BY <1>5, AttemptOwn DEF UpdateSet
  <2>2. CASE pc'[r] = "failed"
    BY <2>2, FailedAt
  <2>3. CASE stale[r]
    BY <2>1, <2>3 DEF StagedAt
  <2>4. CASE pc'[r] = "commitUpdate" /\ ~stale[r]
    <3>1. Cleared(r)
      <4>1. CASE pc[r] = "set"
        BY <1>3, <2>4, <4>1 DEF StagedAt
      <4>2. CASE pc[r] = "update" /\ Removed(r) = {}
        <5>1. staged[r] # Absent /\ state[r] = Observed(staged[r])
          BY <1>2, <1>3, <2>4, <4>2 DEF StagedAt
        <5>2. QED
          BY <1>2, <4>2, <5>1, ObservedThenCleared DEF Cleared
      <4>3. QED
        BY <1>5, <4>1, <4>2 DEF UpdateSet
    <3>2. Exactly(Merge(staged[r], Written(r)), r)
      BY <1>2, <3>1, ClearedThenMerged
    <3>3. staged'[r] = Merge(staged[r], Written(r))
      BY <2>1, <2>4
    <3>4. Exactly(staged[r], r)'
      BY <1>1, <3>2, <3>3 DEF Exactly, Declares
    <3>5. QED
      BY <2>4, <3>4 DEF StagedAt
  <2>5. QED
    BY <2>1, <2>2, <2>3, <2>4
<1>6. CASE UpdateCommit(r)
  <2>1. /\ stale' = stale /\ staged' = staged /\ pc[r] = "commitUpdate"
        /\ \/ pc'[r] = "failed"
           \/ published'[r] = staged[r] /\ pc'[r] = "updated"
    BY <1>6, CommitOwn DEF UpdateCommit
  <2>2. CASE pc'[r] = "failed"
    BY <2>2, FailedAt
  <2>3. CASE pc'[r] = "updated"
    <3>1. Exactly(staged[r], r)' <=> Exactly(staged[r], r)
      BY <1>1, <2>1 DEF Exactly, Declares
    <3>2. QED
      BY <1>3, <2>1, <2>3, <3>1 DEF StagedAt
  <2>4. QED
    BY <2>1, <2>2, <2>3
<1>7. QED
  BY <1>4, <1>5, <1>6

(* Create's and Delete's own section.                                      *)
LEMMA CreateDeleteStaged ==
  ASSUME IInv, NEW r \in Addresses,
         CreateAdd(r) \/ CreateCommit(r) \/ DeleteSection(r) \/ DeleteCommit(r)
  PROVE  StagedAt(r)'
<1> USE DEF IInv
<1>1. config' = config /\ Written(r)' = Written(r)
  BY DEF CreateAdd, CreateCommit, DeleteSection, DeleteCommit, Attempt, Commit,
         Written, ValueMap
<1>2. StagedAt(r)
  BY DEF StagedInv
<1>3. CASE CreateAdd(r)
  <2>1. \/ pc'[r] = "failed"
        \/ staged'[r] = Added(r) /\ pc'[r] = "commitCreate"
    BY <1>3, AttemptOwn DEF CreateAdd
  <2>2. config[r] # NotDeclared
    BY <1>3 DEF CreateAdd, Refused, ControlInv, HasBlock
  <2>3. Declares(Added(r), r)
    BY <2>2, AddedFacts
  <2>4. CASE pc'[r] = "failed"
    BY <2>4, FailedAt
  <2>5. CASE staged'[r] = Added(r) /\ pc'[r] = "commitCreate"
    <3>1. Declares(staged[r], r)'
      BY <1>1, <2>3, <2>5 DEF Declares
    <3>2. QED
      BY <2>5, <3>1 DEF StagedAt
  <2>6. QED
    BY <2>1, <2>4, <2>5
<1>4. CASE CreateCommit(r)
  <2>1. /\ stale' = stale /\ staged' = staged /\ pc[r] = "commitCreate"
        /\ \/ pc'[r] = "failed"
           \/ published'[r] = staged[r] /\ pc'[r] = "created"
    BY <1>4, CommitOwn DEF CreateCommit
  <2>2. CASE pc'[r] = "failed"
    BY <2>2, FailedAt
  <2>3. CASE pc'[r] = "created"
    <3>1. Declares(staged[r], r)' <=> Declares(staged[r], r)
      BY <1>1, <2>1 DEF Declares
    <3>2. QED
      BY <1>2, <2>1, <2>3, <3>1 DEF StagedAt
  <2>4. QED
    BY <2>1, <2>2, <2>3
<1>5. CASE DeleteSection(r)
  <2>1. \/ pc'[r] = "failed"
        \/ staged'[r] = Absent /\ pc'[r] = "commitDelete"
    BY <1>5, AttemptOwn DEF DeleteSection
  <2>2. QED
    BY <2>1, FailedAt DEF StagedAt
<1>6. CASE DeleteCommit(r)
  <2>1. /\ stale' = stale /\ staged' = staged /\ pc[r] = "commitDelete"
        /\ \/ pc'[r] = "failed"
           \/ published'[r] = staged[r] /\ pc'[r] = "deleted"
    BY <1>6, CommitOwn DEF DeleteCommit
  <2>2. QED
    BY <1>2, <2>1, FailedAt DEF StagedAt
<1>7. QED
  BY <1>3, <1>4, <1>5, <1>6

(* Read's own section, and a refusal before any call.                      *)
LEMMA ReadStaged ==
  ASSUME IInv, NEW r \in Addresses,
         ReadFound(r) \/ ReadError(r) \/ ReadNothing(r) \/ Refuse(r)
  PROVE  StagedAt(r)'
<1> USE DEF IInv
<1>1. CASE ReadFound(r)
  <2>1. /\ staged' = staged /\ staged[r] # Absent
        /\ state'[r] = Observed(staged[r]) /\ pc'[r] = "refreshed"
    BY <1>1 DEF ReadFound, Held, Goto, TypeOK
  <2>2. Observed(staged[r])' = Observed(staged[r])
    BY <2>1 DEF Observed
  <2>3. QED
    BY <2>1, <2>2 DEF StagedAt
<1>2. CASE ReadError(r)
  <2>1. \/ pc'[r] = "unread"
        \/ pc'[r] = "refreshed" /\ state'[r] = NotInState
    BY <1>2 DEF ReadError, Goto, TypeOK
  <2>2. QED
    BY <2>1, FailedAt DEF StagedAt
<1>3. CASE ReadNothing(r)
  BY <1>3 DEF ReadNothing, StagedInv, StagedAt
<1>4. CASE Refuse(r)
  BY <1>4, FailedAt DEF Refuse, Goto, TypeOK
<1>5. QED
  BY <1>1, <1>2, <1>3, <1>4

(* A handler step keeps StagedInv, of its own section and of the others.   *)
LEMMA HandlerStaged ==
  ASSUME IInv, NEW r \in Addresses, Handler(r)
  PROVE  StagedInv'
<1>1. StagedAt(r)'
  BY UpdateStaged, CreateDeleteStaged, ReadStaged DEF Handler
<1>2. ASSUME NEW q \in Addresses, q # r PROVE StagedAt(q)'
  <2>1. CASE ReadFound(r) \/ ReadError(r) \/ ReadNothing(r) \/ Refuse(r)
    <3>1. /\ config'[q] = config[q] /\ state'[q] = state[q] /\ stale'[q] = stale[q]
          /\ pc'[q] = pc[q] /\ staged'[q] = staged[q] /\ published'[q] = published[q]
      BY <1>2, <2>1 DEF ReadFound, ReadError, ReadNothing, Refuse, Goto, IInv, TypeOK
    <3>2. QED
      BY <3>1, Undisturbed DEF IInv, StagedInv
  <2>2. CASE CreateAdd(r) \/ UpdateDelete(r) \/ UpdateSet(r) \/ DeleteSection(r)
    BY <1>2, <2>2, AttemptOthers
       DEF CreateAdd, UpdateDelete, UpdateSet, DeleteSection, IInv
  <2>3. CASE CreateCommit(r) \/ UpdateCommit(r) \/ DeleteCommit(r)
    BY <1>2, <2>3, CommitOthers DEF CreateCommit, UpdateCommit, DeleteCommit, IInv
  <2>4. QED
    BY <2>1, <2>2, <2>3 DEF Handler
<1>3. QED
  BY <1>1, <1>2 DEF StagedInv

(* Every step keeps StagedInv: what is staged when an operation gets to    *)
(* commit.                                                                 *)
LEMMA StagedStep == IInv /\ [Next]_vars => StagedInv'
<1> SUFFICES ASSUME IInv, [Next]_vars PROVE StagedInv'
  OBVIOUS
<1> USE DEF IInv
<1>1. CASE StartRun
  BY <1>1 DEF StartRun, StagedInv, StagedAt
<1>2. CASE Plan
  <2>1. ASSUME NEW q \in Addresses PROVE StagedAt(q)'
    <3>1. /\ pc[q] = "refreshed" /\ pc'[q] = Planned(q)
          /\ stale' = stale /\ state' = state /\ staged' = staged
      BY <1>2 DEF Plan
    <3>2. Planned(q) \in {"idle", "delete", "create", "update"}
      BY DEF Planned
    <3>3. Observed(staged[q])' = Observed(staged[q])
      BY <3>1 DEF Observed
    <3>4. StagedAt(q)
      BY DEF StagedInv
    <3>5. QED
      BY <3>1, <3>2, <3>3, <3>4 DEF StagedAt
  <2>2. QED
    BY <2>1 DEF StagedInv
<1>3. CASE Abort
  BY <1>3, FailedAt DEF Abort, StagedInv
<1>4. ASSUME NEW r \in Addresses, Handler(r) PROVE StagedInv'
  BY <1>4, HandlerStaged
<1>5. CASE DeviceRestart
  <2>1. ASSUME NEW q \in Addresses PROVE StagedAt(q)'
    <3>1. CASE stale'[q]
      BY <3>1 DEF StagedAt
    <3>2. CASE ~stale'[q]
      <4>1. /\ ~stale[q] /\ staged[q] = published[q]
            /\ staged'[q] = staged[q] /\ published'[q] = published[q]
            /\ config' = config /\ state' = state /\ pc' = pc
        BY <1>5, <3>2 DEF DeviceRestart, Restart
      <4>2. stale'[q] \in {stale[q], TRUE}
        BY <3>2, <4>1, <1>5 DEF DeviceRestart, TypeOK
      <4>3. QED
        BY <4>1, <4>2, Undisturbed DEF StagedInv
    <3>3. QED
      BY <3>1, <3>2
  <2>2. QED
    BY <2>1 DEF StagedInv
<1>6. ASSUME NEW r \in Addresses, Import(r) \/ EditConfig(r) PROVE StagedInv'
  <2>1. StagedAt(r)'
    BY <1>6, FailedAt DEF Import, EditConfig, Goto, TypeOK
  <2>2. ASSUME NEW q \in Addresses, q # r PROVE StagedAt(q)'
    <3>1. /\ config'[q] = config[q] /\ state'[q] = state[q] /\ stale'[q] = stale[q]
          /\ pc'[q] = pc[q] /\ staged'[q] = staged[q] /\ published'[q] = published[q]
      BY <1>6, <2>2 DEF Import, EditConfig, Goto, TypeOK
    <3>2. QED
      BY <3>1, Undisturbed DEF StagedInv
  <2>3. QED
    BY <2>1, <2>2 DEF StagedInv
<1>7. ASSUME NEW r \in Addresses, ForeignEdit(r) PROVE StagedInv'
  <2>1. StagedAt(r)'
    BY <1>7 DEF ForeignEdit, StagedAt, TypeOK
  <2>2. ASSUME NEW q \in Addresses, q # r PROVE StagedAt(q)'
    <3>1. /\ config'[q] = config[q] /\ state'[q] = state[q] /\ stale'[q] = stale[q]
          /\ pc'[q] = pc[q] /\ staged'[q] = staged[q] /\ published'[q] = published[q]
      BY <1>7, <2>2 DEF ForeignEdit, Overwrite, TypeOK, DeviceTypeOK
    <3>2. QED
      BY <3>1, Undisturbed DEF StagedInv
  <2>3. QED
    BY <2>1, <2>2 DEF StagedInv
<1>8. CASE UNCHANGED vars
  <2>1. ASSUME NEW q \in Addresses PROVE StagedAt(q)'
    BY <1>8, <2>1, Undisturbed DEF vars, StagedInv
  <2>2. QED
    BY <2>1 DEF StagedInv
<1>9. QED
  BY <1>1, <1>2, <1>3, <1>4, <1>5, <1>6, <1>7, <1>8 DEF Next, Progress, Environment

-----------------------------------------------------------------------------
(***************************************************************************)
(* The theorems.                                                           *)
(***************************************************************************)

(* IInv holds in every reachable state.                                    *)
THEOREM Invariance == Spec => []IInv
<1>1. IInv /\ [Next]_vars => IInv'
  BY TypeStep, ControlStep, StagedStep DEF IInv
<1>2. QED
  BY InitInv, <1>1, PTL DEF Spec

(* Every variable keeps its type: in particular what Read records from a   *)
(* device is always a model Terraform can hold.                            *)
THEOREM TypeCorrect == Spec => []TypeOK
<1>1. IInv => TypeOK
  BY DEF IInv
<1>2. QED
  BY <1>1, Invariance, PTL

(* An operation that reported success is published, whatever other         *)
(* operations commit the same package in between.                          *)
THEOREM OperationsArePublished == Spec => []AppliedIsPublished
<1>1. IInv => AppliedIsPublished
  BY DEF IInv, StagedInv, StagedAt, AppliedIsPublished
<1>2. QED
  BY <1>1, Invariance, PTL

(* A resource is dropped from state for a section that is gone, for an     *)
(* answer "ubus status 4" given while the `uci' object was away, or after  *)
(* a delete that a restart undid; for nothing else.                        *)
THEOREM OnlyNotFoundForgets == Spec => ForgottenOnlyOnNotFound
<1> DEFINE Forgets(r) == state[r] # NotInState /\ state'[r] = NotInState =>
                           \/ staged[r] = Absent
                           \/ ReadWhileAway(r)
                           \/ pc[r] = "commitDelete" /\ stale[r]
<1>1. IInv /\ [Next]_vars => [\A r \in Addresses : Forgets(r)]_vars
  <2> SUFFICES ASSUME IInv, Next, NEW r \in Addresses,
                      state[r] # NotInState, state'[r] = NotInState
               PROVE  \/ staged[r] = Absent
                      \/ ReadWhileAway(r)
                      \/ pc[r] = "commitDelete" /\ stale[r]
    OBVIOUS
  <2> USE DEF IInv
  <2>1. PICK q \in Addresses : Handler(q) \/ Import(q)
    BY DEF Next, Progress, Environment, StartRun, Plan, Abort, DeviceRestart,
           EditConfig, ForeignEdit
  <2>2. ASSUME NEW s \in Section PROVE Observed(s) # NotInState
    BY <2>2, ObservedType, Sentinels
  <2>3. CASE Import(q)
    BY <2>2, <2>3 DEF Import, Held, TypeOK, DeviceTypeOK
  <2>4. CASE ReadFound(q)
    BY <2>2, <2>4 DEF ReadFound, Held, TypeOK, DeviceTypeOK
  <2>5. CASE ReadError(q)
    <3>1. \A e \in ReadErrors : ~DeviceSaysAbsent(e)
      <4>1. ASSUME NEW e \in ReadErrors PROVE e.status # 404 \/ e.message # "ubus status 4"
        <5>1. CASE e = [from |-> "network", status |-> 0, message |-> "none"]
          BY <5>1
        <5>2. CASE e = [from |-> "facade", status |-> 404, message |-> "no ubus object"]
          BY <5>2
        <5>3. CASE e = [from |-> "facade", status |-> 403, message |-> "ubus status 6"]
          BY <5>3
        <5>4. CASE e = [from |-> "facade", status |-> 502, message |-> "bad gateway"]
          BY <5>4
        <5>5. QED
          BY <4>1, <5>1, <5>2, <5>3, <5>4 DEF ReadErrors
      <4>2. QED
        BY <4>1 DEF DeviceSaysAbsent
    <3>2. PICK e \in ReadErrors \cup {NotFound} :
            /\ e = NotFound => AnsweredNotFound(q)
            /\ \/ DeviceSaysAbsent(e) /\ state' = [state EXCEPT ![q] = NotInState]
               \/ state' = state
      BY <2>5, Zenon DEF ReadError
    <3>3. q = r /\ e = NotFound
      BY <3>1, <3>2 DEF TypeOK
    <3>4. CASE ~Held(r)
      BY <3>4 DEF Held
    <3>5. CASE Spend("away")
      BY <2>5, <3>3, <3>5 DEF ReadError, ReadWhileAway, Spend, TypeOK, Mishaps
    <3>6. QED
      BY <3>2, <3>3, <3>4, <3>5 DEF AnsweredNotFound
  <2>6. CASE CreateCommit(q)
    <3>1. Recorded(q, NoLists) \in Model
      BY <2>6, RecordedType DEF CreateCommit, ControlInv, HasBlock
    <3>2. QED
      BY <2>6, <3>1, Sentinels DEF CreateCommit, Commit, TypeOK
  <2>7. CASE UpdateCommit(q)
    <3>1. config[q] # NotDeclared /\ state[q] \in Model
      BY <2>7 DEF UpdateCommit, ControlInv, HasBlock, InState, TypeOK
    <3>2. Recorded(q, state[q].lists) \in Model
      BY <3>1, RecordedType DEF Model
    <3>3. QED
      BY <2>7, <3>2, Sentinels DEF UpdateCommit, Commit, TypeOK
  <2>8. CASE DeleteCommit(q)
    <3>1. q = r /\ pc[r] = "commitDelete"
      BY <2>8 DEF DeleteCommit, Commit, TypeOK
    <3>2. QED
      BY <3>1 DEF StagedInv, StagedAt
  <2>9. QED
    BY <2>1, <2>3, <2>4, <2>5, <2>6, <2>7, <2>8
       DEF Handler, ReadNothing, Refuse, CreateAdd, UpdateDelete, UpdateSet,
           DeleteSection, Attempt
<1>2. QED
  BY <1>1, Invariance, PTL DEF Spec, ForgottenOnlyOnNotFound

(* An operation leaves every option it does not own as the device has it.  *)
THEOREM OwnershipRespected == Spec => OnlyOwnedOptionsTouched
<1> DEFINE Respects(r, k) ==
       /\ pc[r] \in Calling /\ pc'[r] # pc[r]
       /\ staged[r] # Absent /\ staged'[r] # Absent
       /\ staged'[r].opts[k] # staged[r].opts[k]
       => Owned(r, k)
<1>1. IInv /\ [Next]_vars => [\A r \in Addresses, k \in Options : Respects(r, k)]_vars
  <2> SUFFICES ASSUME IInv, Next, NEW r \in Addresses, NEW k \in Options,
                      pc[r] \in Calling, pc'[r] # pc[r],
                      staged[r] # Absent, staged'[r] # Absent,
                      staged'[r].opts[k] # staged[r].opts[k]
               PROVE  Owned(r, k)
    OBVIOUS
  <2> USE DEF IInv
  <2>1. staged[r] \in Section
    BY DEF TypeOK, DeviceTypeOK
  <2>2. ASSUME config[r] # NotDeclared, staged'[r] = Merge(staged[r], Written(r))
        PROVE  Written(r)[k] # Unset
    BY <2>1, <2>2, MergeFacts, BlockFacts
  <2>3. PICK q \in Addresses : \/ CreateAdd(q) \/ UpdateDelete(q) \/ UpdateSet(q)
                               \/ DeleteSection(q)
    BY DEF Next, Progress, Environment, StartRun, Plan, Abort, DeviceRestart,
           EditConfig, ForeignEdit, Import, Handler, ReadFound, ReadError,
           ReadNothing, Refuse, CreateCommit, UpdateCommit, DeleteCommit,
           Commit, Publish, Calling, BetweenRuns, Settled
  <2>4. q = r
    BY <2>3 DEF CreateAdd, UpdateDelete, UpdateSet, DeleteSection, Attempt, Goto, TypeOK
  <2>5. CASE CreateAdd(q)
    <3>1. config[r] # NotDeclared /\ staged'[r] = Added(r)
      BY <2>4, <2>5 DEF CreateAdd, Attempt, Stage, ControlInv, HasBlock, TypeOK, DeviceTypeOK
    <3> DEFINE fresh == [type |-> config[r].type, opts |-> staged[r].opts]
    <3>2. staged'[r] = Merge(fresh, Written(r))
      BY <3>1 DEF Added, Held
    <3>3. fresh \in Section /\ Written(r) \in Options2Value
      BY <2>1, <3>1, BlockFacts DEF Section, Model
    <3>4. Written(r)[k] # Unset
      BY <3>2, <3>3, MergeFacts
    <3>5. QED
      BY <3>4 DEF Owned
  <2>6. CASE UpdateDelete(q)
    <3>1. /\ state[r] # NotInState
          /\ staged'[r] = Without(staged[r], Removed(r))
      BY <2>4, <2>6 DEF UpdateDelete, Attempt, Stage, ControlInv, InState, TypeOK, DeviceTypeOK
    <3>2. k \in Removed(r)
      BY <2>1, <3>1, WithoutFacts DEF Removed
    <3>3. QED
      BY <3>1, <3>2 DEF Removed, Prior, PriorLists, ValueMap, Owned
  <2>7. CASE UpdateSet(q)
    <3>1. config[r] # NotDeclared /\ staged'[r] = Merge(staged[r], Written(r))
      BY <2>4, <2>7 DEF UpdateSet, Attempt, Stage, ControlInv, HasBlock, TypeOK, DeviceTypeOK
    <3>2. QED
      BY <2>2, <3>1 DEF Owned
  <2>8. CASE DeleteSection(q)
    BY <2>4, <2>8 DEF DeleteSection, Attempt, Stage, TypeOK, DeviceTypeOK
  <2>9. QED
    BY <2>3, <2>5, <2>6, <2>7, <2>8
<1>2. QED
  BY <1>1, Invariance, PTL DEF Spec, OnlyOwnedOptionsTouched

=============================================================================
