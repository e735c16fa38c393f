------------------------------- MODULE UbusCall -------------------------------
(***************************************************************************)
(* What Connection::call promises, in one step: while a call of a path is  *)
(* pending, objects come and go; it then ends with the outcome of ONE      *)
(* object that was registered under exactly that path during the call, or  *)
(* with the daemon's word that there was none, or with a failure that      *)
(* claims nothing.                                                         *)
(***************************************************************************)
EXTENDS UbusDaemon

CONSTANTS
  Codes,     \* the nonzero statuses an object reports
  NotFound,  \* ubus status 4, which the daemon reports too
  NoCall     \* no call is pending, or: no call has ended yet

VARIABLES
  pending,   \* the path of the pending call
  seen,      \* the ids that were registered under it during the call
  vacancy,   \* was the path vacant at some moment of the call?
  outcome    \* how the last call ended

callVars == <<registry, retired, pending, seen, vacancy, outcome>>

Ok(i)         == [kind |-> "ok", by |-> i]
Status(c, by) == [kind |-> "status", code |-> c, by |-> by]
NoSuchObject  == [kind |-> "nosuchobject"]
Failed        == [kind |-> "failed"]

Outcomes == {Ok(i) : i \in Ids}
            \cup {Status(c, i) : c \in Codes, i \in Ids \cup {Daemon}}
            \cup {NoSuchObject, Failed, NoCall}

Justified(o) ==
  \/ o = Failed
  \/ o = NoSuchObject /\ vacancy
  \/ o = Status(NotFound, Daemon) /\ vacancy
  \/ \E i \in seen : o = Ok(i) \/ \E c \in Codes : o = Status(c, i)

CallInit ==
  /\ DaemonInit
  /\ pending = NoCall /\ outcome = NoCall
  /\ seen = {} /\ vacancy = FALSE

Begin(p) ==
  /\ pending = NoCall
  /\ pending' = p
  /\ seen' = At(p)
  /\ vacancy' = (At(p) = {})
  /\ outcome' = NoCall
  /\ UNCHANGED daemonVars

End ==
  /\ pending # NoCall
  /\ \E o \in Outcomes : Justified(o) /\ outcome' = o
  /\ pending' = NoCall
  /\ seen' = {} /\ vacancy' = FALSE
  /\ UNCHANGED daemonVars

(* What an observer of the pending call learns from a registry change. *)
Observe ==
  IF pending = NoCall THEN UNCHANGED <<seen, vacancy>>
  ELSE /\ seen' = seen \cup Under(registry', pending)
       /\ vacancy' = (vacancy \/ Under(registry', pending) = {})

Arrive(i, p) ==
  /\ Register(i, p)
  /\ Observe
  /\ UNCHANGED <<pending, outcome>>

Leave(i) ==
  /\ Unregister(i)
  /\ Observe
  /\ UNCHANGED <<pending, outcome>>

CallNext ==
  \/ \E p \in Paths : Begin(p)
  \/ End
  \/ \E i \in Ids : Leave(i) \/ \E p \in Paths : Arrive(i, p)

CallSpec == CallInit /\ [][CallNext]_callVars

=============================================================================
