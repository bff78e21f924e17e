------------------------------ MODULE CallOnce ------------------------------
(***************************************************************************)
(* What outbound dispatch promises for each logical call: at most one      *)
(* request to the telephony provider is outstanding at a time, a request   *)
(* that was declined may be followed by another, one that rang the         *)
(* callee's phone never is, and only a call that rang is reported as       *)
(* confirmed.  Requests are told apart by an identifier used once.         *)
(***************************************************************************)
CONSTANTS Keys, Ids

VARIABLES
  outstanding,   \* the requests of a key the provider has not answered
  rang,          \* the requests of a key that reached the callee
  used,          \* the requests of a key ever made
  confirmed      \* the keys reported as confirmed

vars == <<outstanding, rang, used, confirmed>>

Init ==
  /\ outstanding = [k \in Keys |-> {}]
  /\ rang = [k \in Keys |-> {}]
  /\ used = [k \in Keys |-> {}]
  /\ confirmed = {}

Dial(k, i) ==
  /\ outstanding[k] = {} /\ rang[k] = {}
  /\ i \notin used[k]
  /\ outstanding' = [outstanding EXCEPT ![k] = {i}]
  /\ used' = [used EXCEPT ![k] = @ \cup {i}]
  /\ UNCHANGED <<rang, confirmed>>

Ring(k, i) ==
  /\ i \in outstanding[k]
  /\ outstanding' = [outstanding EXCEPT ![k] = @ \ {i}]
  /\ rang' = [rang EXCEPT ![k] = @ \cup {i}]
  /\ UNCHANGED <<used, confirmed>>

Decline(k, i) ==
  /\ i \in outstanding[k]
  /\ outstanding' = [outstanding EXCEPT ![k] = @ \ {i}]
  /\ UNCHANGED <<rang, used, confirmed>>

Confirm(k) ==
  /\ rang[k] # {}
  /\ confirmed' = confirmed \cup {k}
  /\ UNCHANGED <<outstanding, rang, used>>

Next ==
  \E k \in Keys : Confirm(k) \/ \E i \in Ids : Dial(k, i) \/ Ring(k, i) \/ Decline(k, i)

Spec == Init /\ [][Next]_vars
=============================================================================
