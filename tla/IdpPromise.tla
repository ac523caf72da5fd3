----------------------------- MODULE IdpPromise -----------------------------
(***************************************************************************)
(* What the proxy may assume of an identity provider's adapter             *)
(* (gateway/idp-adapter.ts), whichever provider is behind it: createAgent  *)
(* runs once and either returns a client that exists and is usable, which  *)
(* then exists until deleteAgent is asked to remove it, or throws; a       *)
(* client is never made twice, and never comes back.  One that deleteAgent *)
(* has returned for has gone, unless the provider did not find it, because *)
(* its directory had not yet caught up with the client's creation.         *)
(***************************************************************************)
CONSTANTS Creations   \* calls of createAgent, and the clients they make

VARIABLES
  client,    \* at the provider: "none", "unfinished", "usable" or "gone"
  visible,   \* clients the provider's directory has caught up with
  outcome,   \* of createAgent: "idle", "running", "created" or "failed"
  deleting,  \* clients deleteAgent has been asked to remove
  deleted    \* clients some deleteAgent has returned for

promiseVars == <<client, visible, outcome, deleting, deleted>>

Start(c) ==
  /\ outcome[c] = "idle"
  /\ outcome' = [outcome EXCEPT ![c] = "running"]
  /\ UNCHANGED <<client, visible, deleting, deleted>>

(* The provider makes the client, and its directory knows it at once, or   *)
(* later.                                                                  *)
Made(c) ==
  /\ client[c] = "none"
  /\ client' = [client EXCEPT ![c] = "unfinished"]
  /\ visible' \in {visible, visible \cup {c}}

Appear(c) ==
  /\ outcome[c] = "running" /\ Made(c)
  /\ UNCHANGED <<outcome, deleting, deleted>>

CatchUp(c) ==
  /\ client[c] \in {"unfinished", "usable"} /\ c \notin visible
  /\ visible' = visible \cup {c}
  /\ UNCHANGED <<client, outcome, deleting, deleted>>

(* The last step of createAgent.                                           *)
Succeed(c) ==
  /\ outcome[c] = "running" /\ client[c] = "unfinished"
  /\ client' = [client EXCEPT ![c] = "usable"]
  /\ outcome' = [outcome EXCEPT ![c] = "created"]
  /\ UNCHANGED <<visible, deleting, deleted>>

(* createAgent throws; what it made may be left behind, unfinished.        *)
GiveUp(c) ==
  /\ outcome[c] = "running"
  /\ outcome' = [outcome EXCEPT ![c] = "failed"]
  /\ \/ UNCHANGED <<client, visible>>
     \/ Made(c)
     \/ /\ client[c] = "unfinished" /\ client' = [client EXCEPT ![c] = "gone"]
        /\ UNCHANGED visible
  /\ UNCHANGED <<deleting, deleted>>

AskDelete(c) ==
  /\ outcome[c] = "created"
  /\ deleting' = deleting \cup {c}
  /\ UNCHANGED <<client, visible, outcome, deleted>>

Vanish(c) ==
  /\ c \in deleting /\ client[c] = "usable"
  /\ client' = [client EXCEPT ![c] = "gone"]
  /\ UNCHANGED <<visible, outcome, deleting, deleted>>

(* deleteAgent returns: the client has gone, by this call or another, or   *)
(* it was not found, which for one made a moment ago says nothing.         *)
Confirm(c) ==
  /\ c \in deleting
  /\ \/ client' = [client EXCEPT ![c] = "gone"]
     \/ c \notin visible /\ UNCHANGED client
  /\ deleted' = deleted \cup {c}
  /\ UNCHANGED <<visible, outcome, deleting>>

(* A proxy dies, and what its createAgents were doing stays as it is.      *)
Die(dying) ==
  /\ outcome' = [c \in Creations |->
                   IF c \in dying /\ outcome[c] = "running" THEN "failed"
                                                            ELSE outcome[c]]
  /\ UNCHANGED <<client, visible, deleting, deleted>>

PromiseInit ==
  /\ client = [c \in Creations |-> "none"]
  /\ outcome = [c \in Creations |-> "idle"]
  /\ visible = {} /\ deleting = {} /\ deleted = {}

PromiseNext ==
  \/ \E c \in Creations : \/ Start(c) \/ Appear(c) \/ CatchUp(c) \/ Succeed(c)
                          \/ GiveUp(c) \/ AskDelete(c) \/ Vanish(c) \/ Confirm(c)
  \/ \E dying \in SUBSET Creations : Die(dying)

PromiseSpec == PromiseInit /\ [][PromiseNext]_promiseVars
=============================================================================
