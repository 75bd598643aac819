---------------------------- MODULE NvsRequests ----------------------------
(***************************************************************************)
(* The vocabulary shared by the abstract key store and the NVS library     *)
(* model: keys, values, namespaces and the three mutating calls a client   *)
(* of the library makes (nvs_set_*, nvs_erase_key, nvs_erase_all).         *)
(***************************************************************************)

CONSTANTS
  Keys,        \* a key stands for a (namespace index, key name) pair
  Values,      \* a value stands for typed content; see TypeOf and Span in NvsStorage
  Namespaces,
  NsOf,        \* [Keys -> Namespaces]
  None         \* "no value", "no key"

ASSUME NsOfAssumption == NsOf \in [Keys -> Namespaces]
ASSUME NoneAssumption == None \notin Keys /\ None \notin Values /\ None \notin Namespaces

Request(kind, k, v, n) == [kind |-> kind, key |-> k, val |-> v, ns |-> n]

NoRequest           == Request("none", None, None, None)
WriteRequest(k, v)  == Request("write", k, v, NsOf[k])
EraseRequest(k)     == Request("erase", k, None, NsOf[k])
EraseAllRequest(n)  == Request("erase_all", None, None, n)

Requests ==
  {WriteRequest(k, v) : k \in Keys, v \in Values}
    \cup {EraseRequest(k) : k \in Keys}
    \cup {EraseAllRequest(n) : n \in Namespaces}

\* What a call returned last; "none" before the first call and while one runs.
Results == {"none", "ok", "not_found", "no_space", "error"}
=============================================================================
