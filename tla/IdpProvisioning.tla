-------------------------- MODULE IdpProvisioning --------------------------
(***************************************************************************)
(* Making and removing an agent's client at the identity provider.         *)
(*                                                                         *)
(*   gateway/auth0-mgmt.ts   Auth0: declare scopes, client, grant          *)
(*   gateway/entra-mgmt.ts   Entra: declare App Roles, application,        *)
(*                           service principal, assignments, secret        *)
(*   gateway/idp-adapter.ts  one of the two, for the life of a deployment  *)
(*                                                                         *)
(* Every call is a request to the provider's management API: it may be     *)
(* refused, its answer may be lost after it took effect, and at Entra it   *)
(* may not yet know an object made a moment ago, and says so, or answers a *)
(* query or a deletion as if there were none.  The scopes an API          *)
(* declares are one array, read whole and replaced whole.  A client is     *)
(* named by the call of createAgent that makes it.                         *)
(***************************************************************************)
EXTENDS Naturals

CONSTANTS
  Creations,    \* calls of createAgent
  Deletions,    \* calls of deleteAgent
  Scopes,       \* scopes an agent may be given
  Declared,     \* those the API declares at first
  Providers,    \* of the deployments considered, a subset of AllProviders
  RetryLimit,   \* how often a request that meets the lag is repeated (5)
  None

AllProviders == {"auth0", "entra"}

ASSUME ProvisioningAssumption ==
  /\ None \notin Creations
  /\ Declared \subseteq Scopes
  /\ Providers \subseteq AllProviders
  /\ RetryLimit \in Nat

(* An App Role: its value, and its id, here the creation that generated    *)
(* it.  At Auth0 a scope is its value, and the id plays no part.           *)
Roles == [scope: Scopes, id: Creations \cup {None}]

Values(roles) == {r.scope : r \in roles}

VARIABLES
  provider,    \* which adapter the deployment has
  job,         \* the state of each createAgent
  removal,     \* the state of each deleteAgent
  declared,    \* at the provider: the roles, or scopes, of the API,
  exists,      \* the clients that exist,
  granted,     \* the scopes each has been given,
  visible,     \* and the clients its directory has caught up with
  (* observations *)
  made,        \* clients that have ever existed
  abandoned,   \* creations cut off from the client they made
  asked        \* clients some deletion set out to remove

idpVars == <<declared, exists, granted, visible>>
observations == <<made, abandoned, asked>>
vars == <<provider, job, removal, idpVars, observations>>

(* Before the client exists, and while it is being completed.              *)
Looking == {"readRoles", "patch", "create"}
Building == {"principal", "assign", "secret"}
InFlight == Looking \cup Building \cup {"grant", "rollback"}
Deleting == {"lookup", "delete"}

(* Where a creation stands, the scopes it wants (without duplicates), the  *)
(* roles it has read and written, the repetitions of its present request   *)
(* and the role assignments still to make.                                 *)
Jobs == [at: InFlight \cup {"idle", "created", "failed"},
         wants: SUBSET Scopes, knows: SUBSET Roles,
         attempts: 0..RetryLimit, todo: SUBSET Roles]

Removals == [at: Deleting \cup {"idle", "deleted", "failed"},
             client: Creations \cup {None}]

Goto(c, to) == job' = [job EXCEPT ![c] = [@ EXCEPT !.at = to, !.attempts = 0]]

(* A client is made.  Auth0 knows it at once; Entra's directory lags       *)
(* behind its own writes.                                                  *)
Make(c) ==
  /\ exists' = exists \cup {c} /\ made' = made \cup {c}
  /\ visible' = IF provider = "auth0" THEN visible \cup {c} ELSE visible

(* It catches up, sooner or later.                                         *)
CatchUp(c) ==
  /\ c \in exists \ visible
  /\ visible' = visible \cup {c}
  /\ UNCHANGED <<provider, job, removal, declared, exists, granted, observations>>

(* A request is answered and nothing changes at the provider.              *)
Proceed(c, to) == Goto(c, to) /\ UNCHANGED <<provider, removal, idpVars, observations>>

----------------------------------------------------------------------------
(* createAgent, until the client exists                                    *)

Begin(c) ==
  /\ job[c].at = "idle"
  /\ \E scopes \in SUBSET Scopes :
       job' = [job EXCEPT ![c] = [@ EXCEPT !.at = "readRoles", !.wants = scopes]]
  /\ UNCHANGED <<provider, removal, idpVars, observations>>

(* A management token, then getApiServicePrincipal or                      *)
(* getResourceServerByAudience.                                            *)
ReadRoles(c) ==
  /\ job[c].at = "readRoles"
  /\ job' = [job EXCEPT
               ![c] = [@ EXCEPT
                 !.knows = declared,
                 !.at = IF job[c].wants \subseteq Values(declared)
                         THEN "create" ELSE "patch"]]
  /\ UNCHANGED <<provider, removal, idpVars, observations>>

(* What c has read, and a new role for each scope it misses there.         *)
Updated(c) ==
  job[c].knows \cup
    [scope: job[c].wants \ Values(job[c].knows), id: {c}]

(* One PATCH of the whole array: it replaces what others wrote since.      *)
Patch(c) ==
  /\ job[c].at = "patch"
  /\ declared' = Updated(c)
  /\ job' = [job EXCEPT ![c] = [@ EXCEPT !.at = "create", !.knows = Updated(c)]]
  /\ UNCHANGED <<provider, removal, exists, granted, visible, observations>>

(* It takes effect, but its answer is an error or lost.                    *)
PatchUnheard(c) ==
  /\ job[c].at = "patch"
  /\ declared' = Updated(c)
  /\ Goto(c, "failed")
  /\ UNCHANGED <<provider, removal, exists, granted, visible, observations>>

(* A request before the client exists fails: nothing to roll back.         *)
LookupFails(c) == job[c].at \in Looking /\ Proceed(c, "failed")

(* POST /clients or POST /applications.                                    *)
Create(c) ==
  /\ job[c].at = "create"
  /\ Make(c)
  /\ job' = [job EXCEPT
               ![c] = [@ EXCEPT
                 !.at = IF provider = "auth0" THEN "grant" ELSE "principal",
                 !.todo = {r \in job[c].knows : r.scope \in job[c].wants}]]
  /\ UNCHANGED <<provider, removal, declared, granted, abandoned, asked>>

(* It takes effect but its answer is lost: the id is not known here.       *)
CreateUnheard(c) ==
  /\ job[c].at = "create"
  /\ Make(c)
  /\ abandoned' = abandoned \cup {c}
  /\ Goto(c, "failed")
  /\ UNCHANGED <<provider, removal, declared, granted, asked>>

----------------------------------------------------------------------------
(* Auth0: POST /client-grants, all the scopes or none, and only scopes the *)
(* API declares by then.                                                   *)

Grant(c) ==
  /\ job[c].at = "grant"
  /\ job[c].wants \subseteq Values(declared)
  /\ granted' = [granted EXCEPT ![c] = job[c].wants]
  /\ Goto(c, "created")
  /\ UNCHANGED <<provider, removal, declared, exists, visible, observations>>

GrantRefused(c) == job[c].at = "grant" /\ Proceed(c, "rollback")

(* The fetch throws.  It is outside any try: no rollback.                  *)
GrantThrows(c) ==
  /\ job[c].at = "grant"
  /\ abandoned' = abandoned \cup {c}
  /\ Goto(c, "failed")
  /\ UNCHANGED <<provider, removal, idpVars, made, asked>>

----------------------------------------------------------------------------
(* Entra: three kinds of request, each repeated while it meets the lag.    *)

AfterAssignments(left) == IF left = {} THEN "secret" ELSE "assign"

(* POST /servicePrincipals.                                                *)
Principal(c) ==
  /\ job[c].at = "principal"
  /\ Proceed(c, AfterAssignments(job[c].todo))

(* Variant: the loop ends with the first assignment.                       *)
Assign_First(c) ==
  /\ job[c].at = "assign"
  /\ \E role \in job[c].todo \cap declared :
       /\ granted' = [granted EXCEPT ![c] = @ \cup {role.scope}]
       /\ Goto(c, "secret")
  /\ UNCHANGED <<provider, removal, declared, exists, visible, observations>>

(* POST /appRoleAssignments, one scope after the other.  An id that        *)
(* another creation's PATCH has dropped is not found.                      *)
Assign(c) ==
  /\ job[c].at = "assign"
  /\ \E role \in job[c].todo \cap declared :
       LET left == job[c].todo \ {role} IN
       /\ granted' = [granted EXCEPT ![c] = @ \cup {role.scope}]
       /\ job' = [job EXCEPT ![c] = [@ EXCEPT !.todo = left,
                                              !.attempts = 0,
                                              !.at = AfterAssignments(left)]]
  /\ UNCHANGED <<provider, removal, declared, exists, visible, observations>>

(* POST /addPassword, and createAgent returns.                             *)
Secret(c) == job[c].at = "secret" /\ Proceed(c, "created")

(* Variant: the repetitions are not counted.                               *)
Lags_Uncounted(c) ==
  /\ job[c].at \in Building
  /\ job' = [job EXCEPT ![c].attempts = IF @ = 0 THEN RetryLimit ELSE 0]
  /\ UNCHANGED <<provider, removal, idpVars, observations>>

(* Variant: one repetition more than there are delays.                     *)
Lags_OneMore(c) ==
  /\ job[c].at \in Building /\ job[c].attempts <= RetryLimit
  /\ job' = [job EXCEPT ![c].attempts = @ + 1]
  /\ UNCHANGED <<provider, removal, idpVars, observations>>

(* "Not found": the provider lags behind itself, or the object has really  *)
(* gone.  The request is repeated after a while, as long as it may.        *)
Lags(c) ==
  /\ job[c].at \in Building /\ job[c].attempts < RetryLimit
  /\ job' = [job EXCEPT ![c].attempts = @ + 1]
  /\ UNCHANGED <<provider, removal, idpVars, observations>>

(* The last repetition fails, or a request fails in another way.           *)
BuildFails(c) == job[c].at \in Building /\ Proceed(c, "rollback")

----------------------------------------------------------------------------
(* Variant: the client is left as it is.                                   *)
Rollback_None(c) == job[c].at = "rollback" /\ Proceed(c, "failed")

Rollback(c) ==
  /\ job[c].at = "rollback"
  /\ exists' = exists \ {c}
  /\ Goto(c, "failed")
  /\ UNCHANGED <<provider, removal, declared, granted, visible, observations>>

(* The rollback's own delete fails, or does not find the client that was   *)
(* made a moment ago; its answer is not looked at.                         *)
RollbackFails(c) ==
  /\ job[c].at = "rollback"
  /\ abandoned' = abandoned \cup {c}
  /\ Goto(c, "failed")
  /\ UNCHANGED <<provider, removal, idpVars, made, asked>>

(* The process dies: nobody takes up what its calls were doing.            *)
Crash ==
  /\ \E c \in Creations : job[c].at \in InFlight
  /\ job' = [c \in Creations |-> IF job[c].at \in InFlight
                                 THEN [job[c] EXCEPT !.at = "failed"] ELSE job[c]]
  /\ removal' = [d \in Deletions |->
                   IF removal[d].at \in Deleting
                   THEN [removal[d] EXCEPT !.at = "failed"] ELSE removal[d]]
  /\ abandoned' = abandoned \cup
                    {c \in exists : job[c].at \in InFlight}
  /\ UNCHANGED <<provider, idpVars, made, asked>>

CreateStep(c) ==
  \/ ReadRoles(c) \/ Patch(c) \/ PatchUnheard(c) \/ LookupFails(c)
  \/ Create(c) \/ CreateUnheard(c)
  \/ Grant(c) \/ GrantRefused(c) \/ GrantThrows(c)
  \/ Principal(c) \/ Assign(c) \/ Secret(c) \/ Lags(c) \/ BuildFails(c)
  \/ Rollback(c) \/ RollbackFails(c)

----------------------------------------------------------------------------
(* deleteAgent, of a client whose id has been returned                     *)

Retire(d, to) == removal' = [removal EXCEPT ![d].at = to]

BeginDelete(d) ==
  /\ removal[d].at = "idle"
  /\ \E c \in Creations :
       /\ job[c].at = "created"
       /\ removal' = [removal EXCEPT
            ![d] = [at |-> IF provider = "auth0" THEN "delete" ELSE "lookup",
                    client |-> c]]
       /\ asked' = asked \cup {c}
  /\ UNCHANGED <<provider, job, idpVars, made, abandoned>>

(* Entra: from appId to object id, by a query of the directory, which      *)
(* finds what exists for sure only once it has caught up with it.  An      *)
(* empty answer is success.                                                *)
Lookup(d) ==
  LET c == removal[d].client IN
  /\ removal[d].at = "lookup"
  /\ \/ Retire(d, "delete")
     \/ c \notin exists \cap visible /\ Retire(d, "deleted")
  /\ UNCHANGED <<provider, job, idpVars, observations>>

(* A 404 is success too: the client has gone, or is not yet to be found.   *)
Delete(d) ==
  LET c == removal[d].client IN
  /\ removal[d].at = "delete"
  /\ \/ exists' = exists \ {c}
     \/ c \notin visible /\ UNCHANGED exists
  /\ Retire(d, "deleted")
  /\ UNCHANGED <<provider, job, declared, granted, visible, observations>>

(* Variant: the status of an answer is not looked at.                      *)
DeleteFails_Unseen(d) ==
  /\ removal[d].at \in Deleting
  /\ Retire(d, "deleted")
  /\ UNCHANGED <<provider, job, idpVars, observations>>

(* A request of deleteAgent fails, or only its answer does.                *)
DeleteFails(d) ==
  /\ removal[d].at \in Deleting
  /\ \/ UNCHANGED exists
     \/ removal[d].at = "delete" /\ exists' = exists \ {removal[d].client}
  /\ Retire(d, "failed")
  /\ UNCHANGED <<provider, job, declared, granted, visible, observations>>

DeleteStep(d) == Lookup(d) \/ Delete(d) \/ DeleteFails(d)

----------------------------------------------------------------------------

Init ==
  /\ provider \in Providers
  /\ job = [c \in Creations |-> [at |-> "idle", wants |-> {}, knows |-> {},
                                 attempts |-> 0, todo |-> {}]]
  /\ removal = [d \in Deletions |-> [at |-> "idle", client |-> None]]
  /\ declared = [scope: Declared, id: {None}]
  /\ exists = {} /\ granted = [c \in Creations |-> {}] /\ visible = {}
  /\ made = {} /\ abandoned = {} /\ asked = {}

(* Nothing is under way, and nobody has to ask for more.                   *)
Finished ==
  /\ \A c \in Creations : job[c].at \notin InFlight
  /\ \A d \in Deletions : removal[d].at \notin Deleting
  /\ UNCHANGED vars

Next ==
  \/ \E c \in Creations : Begin(c) \/ CreateStep(c) \/ CatchUp(c)
  \/ \E d \in Deletions : BeginDelete(d) \/ DeleteStep(d)
  \/ Crash
  \/ Finished

Spec == Init /\ [][Next]_vars

(* Every request is answered or given up by fetch, and the timer of a      *)
(* repetition fires.                                                       *)
FairSpec ==
  /\ Spec
  /\ \A c \in Creations : WF_vars(CreateStep(c))
  /\ \A d \in Deletions : WF_vars(DeleteStep(d))

----------------------------------------------------------------------------
(* Properties                                                              *)

(* Every variable has its type.                                            *)
TypeOK ==
  /\ provider \in Providers
  /\ job \in [Creations -> Jobs]
  /\ removal \in [Deletions -> Removals]
  /\ declared \subseteq Roles
  /\ exists \subseteq Creations
  /\ granted \in [Creations -> SUBSET Scopes]
  /\ visible \subseteq Creations
  /\ made \subseteq Creations
  /\ abandoned \subseteq Creations
  /\ asked \subseteq Creations

(* An agent that was reported created exists, with every scope that was    *)
(* asked for, however other creations rewrote the API's array meanwhile.   *)
CreatedIsComplete ==
  \A c \in Creations : job[c].at = "created" /\ c \notin asked =>
    c \in exists /\ granted[c] = job[c].wants

(* A creation that fails leaves no client behind, unless a crash or a lost *)
(* call cut it off from the client.                                        *)
FailureLeavesNothing ==
  \A c \in exists : job[c].at = "failed" => c \in abandoned

(* Every creation comes to an end.                                         *)
CreationsEnd ==
  \A c \in Creations : job[c].at \in InFlight ~> job[c].at \notin InFlight

----------------------------------------------------------------------------
(* Refinement                                                              *)

Client ==
  [c \in Creations |->
     IF c \notin made THEN "none"
     ELSE IF c \notin exists THEN "gone"
     ELSE IF job[c].at = "created" THEN "usable" ELSE "unfinished"]

Outcome ==
  [c \in Creations |-> IF job[c].at \in InFlight THEN "running" ELSE job[c].at]

Returned == {d \in Deletions : removal[d].at = "deleted"}

Promise == INSTANCE IdpPromise WITH
             client <- Client, visible <- visible, outcome <- Outcome,
             deleting <- asked, deleted <- {removal[d].client : d \in Returned}

(* Whichever provider is behind it, the adapter keeps the promise: a       *)
(* client is usable no sooner than createAgent returns it, is made once,   *)
(* goes only when deleteAgent was asked to remove it, never comes back,    *)
(* and has gone when deleteAgent returns, unless the provider's directory  *)
(* had not yet caught up with its creation.                                *)
KeepsIdpPromise == Promise!PromiseSpec
=============================================================================
