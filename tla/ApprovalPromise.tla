-------------------------- MODULE ApprovalPromise --------------------------
(***************************************************************************)
(* What the approval queue promises the operator, with the handlers, the   *)
(* store and the clock abstracted away: a request is decided at most once, *)
(* a call that lacks a scope runs only under an approved request, a call   *)
(* held open runs under its own request, and an approval token lets one    *)
(* call through.                                                           *)
(***************************************************************************)
CONSTANTS
  Calls,     \* calls; a call may file a request, which bears its name
  Tokens,    \* approval tokens
  None       \* no token: the call was held open until the decision

VARIABLES
  outcome,   \* the decision on each request
  runs       \* the calls let through: under which request, by which token

Init ==
  /\ outcome = [r \in Calls |-> "open"]
  /\ runs = {}

Decide(r, decision) ==
  /\ outcome[r] = "open"
  /\ outcome' = [outcome EXCEPT ![r] = decision]
  /\ UNCHANGED runs

Run(c, r, t) ==
  /\ outcome[r] = "approved"
  /\ \A run \in runs : run.call # c
  /\ t = None => r = c
  /\ t # None => \A run \in runs : run.token # t
  /\ runs' = runs \cup {[call |-> c, request |-> r, token |-> t]}
  /\ UNCHANGED outcome

Next ==
  \/ \E r \in Calls, decision \in {"approved", "denied"} : Decide(r, decision)
  \/ \E c, r \in Calls, t \in Tokens \cup {None} : Run(c, r, t)

Spec == Init /\ [][Next]_<<outcome, runs>>
=============================================================================
