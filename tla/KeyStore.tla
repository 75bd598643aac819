------------------------------ MODULE KeyStore ------------------------------
(***************************************************************************)
(* What the NVS library promises its clients: a map from keys to values.   *)
(* A write or an erase takes effect in one step although it costs several  *)
(* flash operations; a power loss at any moment leaves the map either as   *)
(* it was before the running call or as the call makes it, and a call that *)
(* returned "ok" is never undone. Erasing a namespace is the exception:    *)
(* its keys disappear one by one, in no promised order, and a power loss   *)
(* keeps whatever was not erased yet.                                      *)
(***************************************************************************)
EXTENDS NvsRequests

VARIABLES
  store,   \* [Keys -> Values \cup {None}]
  op,      \* the running call, or NoRequest
  res      \* what the last call returned

storeVars == <<store, op, res>>

InNamespace(n) == {k \in Keys : NsOf[k] = n /\ store[k] # None}

\* The running call has nothing left to do to the map.
Applied ==
  CASE op.kind = "write"     -> store[op.key] = op.val
    [] op.kind = "erase"     -> store[op.key] = None
    [] op.kind = "erase_all" -> InNamespace(op.ns) = {}
    [] OTHER                 -> FALSE

Init ==
  /\ store = [k \in Keys |-> None]
  /\ op = NoRequest
  /\ res = "none"

Begin ==
  /\ op = NoRequest
  /\ op' \in Requests
  /\ res' = "none"
  /\ UNCHANGED store

\* The instant a call takes effect (for erase_all: on one key).
Apply ==
  /\ ~Applied
  /\ \/ op.kind = "write" /\ store' = [store EXCEPT ![op.key] = op.val]
     \/ op.kind = "erase" /\ store' = [store EXCEPT ![op.key] = None]
     \/ /\ op.kind = "erase_all"
        /\ \E k \in InNamespace(op.ns) : store' = [store EXCEPT ![k] = None]
  /\ UNCHANGED <<op, res>>

Succeed ==
  /\ op # NoRequest
  /\ Applied
  /\ op' = NoRequest
  /\ res' = "ok"
  /\ UNCHANGED store

\* A write may be refused for lack of space, an erase because the key is not
\* there; a refused call has changed nothing.
Refuse ==
  /\ \/ op.kind = "write" /\ ~Applied /\ res' = "no_space"
     \/ op.kind = "erase" /\ Applied /\ res' = "not_found"
  /\ op' = NoRequest
  /\ UNCHANGED store

PowerLoss ==
  /\ op' = NoRequest
  /\ res' = "none"
  /\ UNCHANGED store

Next == Begin \/ Apply \/ Succeed \/ Refuse \/ PowerLoss

Spec == Init /\ [][Next]_storeVars
=============================================================================
