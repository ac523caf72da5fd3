--------------------------- MODULE AgentLifecycle ---------------------------
(***************************************************************************)
(* An agent from POST /agents to its revocation.                           *)
(*                                                                         *)
(*   gateway/proxy-routes-agents-token.ts   the routes                     *)
(*   gateway/pending-agent-store.ts         creations under way, in memory *)
(*   gateway/agent-store.ts                 agent records, in the store    *)
(*   gateway/token-vendor.ts, entra-token-vendor.ts   tokens, cached       *)
(*   gateway/guard.ts                       the revocation check           *)
(*                                                                         *)
(* The identity provider's adapter is its promise, IdpPromise, which       *)
(* IdpProvisioning is shown to keep.  The instances share the key-value    *)
(* store and the provider; creations under way and cached tokens are each  *)
(* instance's own.  A creation names its agent, its entry and its task.    *)
(***************************************************************************)
EXTENDS Naturals, IdpPromise

CONSTANTS
  Instances,    \* proxy processes
  ById,         \* POST /agents/:clientId/token requests
  BySecret,     \* POST /token requests
  Revokes,      \* DELETE /agents/:clientId requests
  Uses,         \* tools/call requests that show an agent's token
  MaxCrashes,   \* bound: how often an instance dies
  None

ASSUME LifecycleAssumption ==
  /\ None \notin Creations \cup Instances
  /\ ById \cap (BySecret \cup Revokes \cup Uses) = {}
  /\ BySecret \cap (Revokes \cup Uses) = {}
  /\ Revokes \cap Uses = {}
  /\ MaxCrashes \in Nat

Vends == ById \cup BySecret
Requests == Vends \cup Revokes \cup Uses

VARIABLES
  task,      \* the background half of each POST /agents
  home,      \* the instance that runs it and keeps its entry
  entry,     \* of pendingAgents
  stored,    \* agents with a record, gateway:agents:<clientId>
  cache,     \* agents whose token an instance has cached
  request,   \* the other requests
  crashes,
  (* observations *)
  settled,   \* revocations that came when the provider's directory had
             \* caught up with the agent's creation
  reveals,   \* answers that carried each agent's secret
  known,     \* agents that GET /agents has listed
  tokens,    \* agents for whom some token was handed out
  revoked    \* agents whose revocation was answered 200

agentVars == <<task, home, entry, stored>>
observations == <<settled, reveals, known, tokens, revoked>>
vars == <<promiseVars, agentVars, cache, request, crashes, observations>>

(* A request: where it stands, who serves it, the agent it is about, and   *)
(* whether that agent's revocation had been answered when it came.         *)
Records == [at: {"idle", "failed", "notFound", "readSecret", "lookCache",
                 "askIdp", "vended", "atIdp", "forget", "forgotten", "revoked",
                 "check", "forwarded", "refused"},
            on: Instances \cup {None}, agent: Creations \cup {None},
            late: BOOLEAN]

Answered == {"idle", "failed", "notFound", "vended", "revoked", "forwarded",
             "refused"}

(* Once answered, a request is nobody's.                                   *)
Move(r, to) ==
  request' = [request EXCEPT
    ![r] = [@ EXCEPT !.at = to,
                     !.on = IF to \in Answered THEN None ELSE request[r].on]]

Receive(r, a, to) ==
  \E i \in Instances :
    request' = [request EXCEPT ![r] = [at |-> to, on |-> i, agent |-> a,
                                       late |-> a \in revoked]]

----------------------------------------------------------------------------
(* POST /agents: 202 at once, and a task in the background.                *)

Post(a) ==
  /\ task[a] = "idle"
  /\ Start(a)
  /\ task' = [task EXCEPT ![a] = "creating"]
  /\ entry' = [entry EXCEPT ![a] = "pending"]
  /\ \E i \in Instances : home' = [home EXCEPT ![a] = i]
  /\ UNCHANGED <<stored, cache, request, crashes, observations>>

(* gateway:admin among the scopes: 400.                                    *)
PostRefused(a) ==
  /\ task[a] = "idle"
  /\ task' = [task EXCEPT ![a] = "refused"]
  /\ UNCHANGED <<promiseVars, home, entry, stored, cache, request, crashes,
                 observations>>

(* markPendingAgentActive and markPendingAgentFailed: nothing if the entry *)
(* has gone.                                                               *)
Mark(a, status) ==
  entry' = IF entry[a] = "none" THEN entry ELSE [entry EXCEPT ![a] = status]

(* adapter.createAgent on its way, and its return.  What encrypts the      *)
(* secret is configured whenever what creates the client is.               *)
Creating(a) ==
  /\ Appear(a)
  /\ UNCHANGED <<agentVars, cache, request, crashes, observations>>

CaughtUp(a) ==
  /\ CatchUp(a)
  /\ UNCHANGED <<agentVars, cache, request, crashes, observations>>

Created(a) ==
  /\ Succeed(a)
  /\ task' = [task EXCEPT ![a] = "saving"]
  /\ UNCHANGED <<home, entry, stored, cache, request, crashes,
                 observations>>

NotCreated(a) ==
  /\ GiveUp(a)
  /\ task' = [task EXCEPT ![a] = "done"]
  /\ Mark(a, "failed")
  /\ UNCHANGED <<home, stored, cache, request, crashes, observations>>

(* Variant: the entry is marked before the record is saved.                *)
Save_Marked(a) ==
  /\ task[a] = "saving"
  /\ task' = [task EXCEPT ![a] = "saved"]
  /\ Mark(a, "active")
  /\ UNCHANGED <<promiseVars, home, stored, cache, request, crashes,
                 observations>>

(* saveAgent takes effect ...                                              *)
Save(a) ==
  /\ task[a] = "saving"
  /\ task' = [task EXCEPT ![a] = "saved"]
  /\ stored' = stored \cup {a}
  /\ known' = known \cup {a}
  /\ UNCHANGED <<promiseVars, home, entry, cache, request, crashes, settled,
                 reveals, tokens, revoked>>

(* ... and returns.                                                        *)
Saved(a) ==
  /\ task[a] = "saved"
  /\ task' = [task EXCEPT ![a] = "done"]
  /\ Mark(a, "active")
  /\ UNCHANGED <<promiseVars, home, stored, cache, request, crashes,
                 observations>>

(* saveAgent throws, before or after.  The client stays at the provider.   *)
SaveFails(a) ==
  /\ task[a] \in {"saving", "saved"}
  /\ task' = [task EXCEPT ![a] = "done"]
  /\ Mark(a, "failed")
  /\ UNCHANGED <<promiseVars, home, stored, cache, request, crashes,
                 observations>>

(* Five minutes after POST.                                                *)
EntryExpires(a) ==
  /\ entry[a] # "none"
  /\ entry' = [entry EXCEPT ![a] = "none"]
  /\ UNCHANGED <<promiseVars, task, home, stored, cache, request,
                 crashes, observations>>

----------------------------------------------------------------------------
(* GET /agents/pending/:id                                                 *)

(* Variant: the copy is not the last to carry the secret.                  *)
Consume_Kept(a) ==
  /\ reveals' = [reveals EXCEPT ![a] = @ + (IF entry[a] = "active" THEN 1 ELSE 0)]
  /\ UNCHANGED entry

(* getAndConsumePendingAgent: the first copy of an active entry carries    *)
(* the secret.                                                             *)
Consume(a) ==
  IF entry[a] = "active"
  THEN /\ entry' = [entry EXCEPT ![a] = "shown"]
       /\ reveals' = [reveals EXCEPT ![a] = @ + 1]
  ELSE UNCHANGED <<entry, reveals>>

(* Any tab, any time; only the home instance has the entry.  The other     *)
(* answers carry no secret and change nothing.                             *)
Poll(a) ==
  /\ entry[a] = "active"
  /\ Consume(a)
  /\ UNCHANGED <<promiseVars, task, home, stored, cache, request, crashes,
                 settled, known, tokens, revoked>>

----------------------------------------------------------------------------
(* POST /agents/:clientId/token and POST /token                            *)

AskById(v) ==
  /\ request[v].at = "idle"
  /\ \E a \in known : Receive(v, a, "readSecret")
  /\ UNCHANGED <<promiseVars, agentVars, cache, crashes, observations>>

(* With a client's id and any secret: a cached token is handed out before  *)
(* anybody looks at that.                                                  *)
AskBySecret(v) ==
  /\ request[v].at = "idle"
  /\ \E a \in known : Receive(v, a, "lookCache")
  /\ UNCHANGED <<promiseVars, agentVars, cache, crashes, observations>>

(* getAgentClientSecret; then vend begins in the same step.                *)
ReadSecret(v) ==
  /\ request[v].at = "readSecret"
  /\ Move(v, IF request[v].agent \in stored THEN "lookCache" ELSE "notFound")
  /\ UNCHANGED <<promiseVars, agentVars, cache, crashes, observations>>

LookCache(v) ==
  LET hit == request[v].agent \in cache[request[v].on] IN
  /\ request[v].at = "lookCache"
  /\ Move(v, IF hit THEN "vended" ELSE "askIdp")
  /\ tokens' = IF hit THEN tokens \cup {request[v].agent} ELSE tokens
  /\ UNCHANGED <<promiseVars, agentVars, cache, crashes, settled, reveals,
                 known, revoked>>

(* The provider issues a token to a client that exists, at Entra perhaps   *)
(* after repetitions, for its secret: the one on record, or one that was   *)
(* shown.  The token is cached, whatever has happened since the request    *)
(* was sent.                                                               *)
Vend(v) ==
  LET a == request[v].agent IN
  /\ request[v].at = "askIdp" /\ client[a] = "usable"
  /\ v \in BySecret => reveals[a] > 0
  /\ cache' = [cache EXCEPT ![request[v].on] = @ \cup {a}]
  /\ tokens' = tokens \cup {a}
  /\ Move(v, "vended")
  /\ UNCHANGED <<promiseVars, agentVars, crashes, settled, reveals, known,
                 revoked>>

(* 503 or 401.                                                             *)
VendFails(v) ==
  /\ request[v].at \in {"readSecret", "askIdp"}
  /\ Move(v, "failed")
  /\ UNCHANGED <<promiseVars, agentVars, cache, crashes, observations>>

(* expiresAt of a cached token passes.                                     *)
TokenExpires(i, a) ==
  /\ a \in cache[i]
  /\ cache' = [cache EXCEPT ![i] = @ \ {a}]
  /\ UNCHANGED <<promiseVars, agentVars, request, crashes, observations>>

----------------------------------------------------------------------------
(* DELETE /agents/:clientId: the provider, the record, the cached token.   *)

AskRevoke(d) ==
  /\ request[d].at = "idle"
  /\ \E a \in known :
       /\ AskDelete(a) /\ Receive(d, a, "atIdp")
       /\ settled' = IF a \in visible THEN settled \cup {d} ELSE settled
  /\ UNCHANGED <<agentVars, cache, crashes, reveals, known, tokens, revoked>>

(* adapter.deleteAgent takes effect, and returns; it may find no client    *)
(* while the provider's directory lags behind the creation.                *)
GoneAtIdp(a) ==
  /\ Vanish(a)
  /\ UNCHANGED <<agentVars, cache, request, crashes, observations>>

RevokedAtIdp(d) ==
  /\ request[d].at = "atIdp"
  /\ Confirm(request[d].agent)
  /\ Move(d, "forget")
  /\ UNCHANGED <<agentVars, cache, crashes, observations>>

(* Variant: the record is left behind.                                     *)
Forget_Kept(d) ==
  /\ request[d].at = "forget"
  /\ Move(d, "forgotten")
  /\ UNCHANGED <<promiseVars, agentVars, cache, crashes, observations>>

(* agent-store's deleteAgent takes effect ...                              *)
Forget(d) ==
  /\ request[d].at = "forget"
  /\ stored' = stored \ {request[d].agent}
  /\ Move(d, "forgotten")
  /\ UNCHANGED <<promiseVars, task, home, entry, cache, crashes,
                 observations>>

(* ... and returns; this instance forgets the token, and 200.              *)
Revoked(d) ==
  /\ request[d].at = "forgotten"
  /\ cache' = [cache EXCEPT ![request[d].on] = @ \ {request[d].agent}]
  /\ revoked' = revoked \cup {request[d].agent}
  /\ Move(d, "revoked")
  /\ UNCHANGED <<promiseVars, agentVars, crashes, settled, reveals, known,
                 tokens>>

(* A step throws: 503, and what was done stays done.                       *)
RevokeFails(d) ==
  /\ request[d].at \in {"atIdp", "forget", "forgotten"}
  /\ Move(d, "failed")
  /\ UNCHANGED <<promiseVars, agentVars, cache, crashes, observations>>

----------------------------------------------------------------------------
(* A tools/call with an agent's token, which the guard has verified.       *)

Use(u) ==
  /\ request[u].at = "idle"
  /\ \E a \in tokens : Receive(u, a, "check")
  /\ UNCHANGED <<promiseVars, agentVars, cache, crashes, observations>>

(* Variant: the token has a signature and has not expired; that will do.   *)
CheckActive_Skipped(u) ==
  /\ request[u].at = "check"
  /\ Move(u, "forwarded")
  /\ UNCHANGED <<promiseVars, agentVars, cache, crashes, observations>>

(* isM2mClientActive: the record is there.  A store that fails refuses.    *)
CheckActive(u) ==
  /\ request[u].at = "check"
  /\ \/ Move(u, IF request[u].agent \in stored THEN "forwarded" ELSE "refused")
     \/ Move(u, "refused")
  /\ UNCHANGED <<promiseVars, agentVars, cache, crashes, observations>>

----------------------------------------------------------------------------
(* An instance dies: tasks, entries, tokens and requests die with it.      *)
Crash(i) ==
  LET dying == {a \in Creations : home[a] = i} IN
  /\ crashes < MaxCrashes
  /\ crashes' = crashes + 1
  /\ Die(dying)
  /\ task' = [a \in Creations |-> IF a \in dying THEN "done" ELSE task[a]]
  /\ entry' = [a \in Creations |-> IF a \in dying THEN "none" ELSE entry[a]]
  /\ cache' = [cache EXCEPT ![i] = {}]
  /\ request' = [r \in Requests |->
                   IF request[r].on = i
                   THEN [request[r] EXCEPT !.at = "failed", !.on = None] ELSE request[r]]
  /\ UNCHANGED <<home, stored, observations>>

Init ==
  /\ PromiseInit
  /\ task = [a \in Creations |-> "idle"]
  /\ home = [a \in Creations |-> None]
  /\ entry = [a \in Creations |-> "none"]
  /\ stored = {}
  /\ cache = [i \in Instances |-> {}]
  /\ request = [r \in Requests |-> [at |-> "idle", on |-> None, agent |-> None,
                                    late |-> FALSE]]
  /\ crashes = 0
  /\ reveals = [a \in Creations |-> 0]
  /\ settled = {} /\ known = {} /\ tokens = {} /\ revoked = {}

CreationStep(a) ==
  \/ Post(a) \/ PostRefused(a) \/ Creating(a) \/ CaughtUp(a) \/ Created(a)
  \/ NotCreated(a) \/ Save(a) \/ Saved(a) \/ SaveFails(a) \/ EntryExpires(a) \/ GoneAtIdp(a)

VendStep(v) == ReadSecret(v) \/ LookCache(v) \/ Vend(v) \/ VendFails(v)

RevokeStep(d) ==
  AskRevoke(d) \/ RevokedAtIdp(d) \/ Forget(d) \/ Revoked(d) \/ RevokeFails(d)

(* Nobody has to ask for anything more.                                    *)
Finished ==
  /\ \A a \in Creations : task[a] \in {"done", "refused"}
  /\ \A r \in Requests : request[r].at \in Answered
  /\ UNCHANGED vars

Next ==
  \/ \E a \in Creations : CreationStep(a) \/ Poll(a)
  \/ \E v \in ById : AskById(v)
  \/ \E v \in BySecret : AskBySecret(v)
  \/ \E v \in Vends : VendStep(v)
  \/ \E i \in Instances, a \in Creations : TokenExpires(i, a)
  \/ \E d \in Revokes : RevokeStep(d)
  \/ \E u \in Uses : Use(u) \/ CheckActive(u)
  \/ \E i \in Instances : Crash(i)
  \/ Finished

Spec == Init /\ [][Next]_vars

----------------------------------------------------------------------------
(* Properties                                                              *)

(* Every variable has its type.                                            *)
TypeOK ==
  /\ task \in [Creations -> {"idle", "refused", "creating", "saving", "saved",
                             "done"}]
  /\ home \in [Creations -> Instances \cup {None}]
  /\ entry \in [Creations -> {"none", "pending", "active", "shown", "failed"}]
  /\ stored \subseteq Creations
  /\ cache \in [Instances -> SUBSET Creations]
  /\ request \in [Requests -> Records]
  /\ crashes \in 0..MaxCrashes
  /\ reveals \in [Creations -> Nat]
  /\ settled \subseteq Revokes
  /\ known \subseteq Creations /\ tokens \subseteq Creations
  /\ revoked \subseteq Creations

(* However many poll, one answer at most carries an agent's secret.        *)
OneTimeReveal == \A a \in Creations : reveals[a] <= 1

(* An agent that a poll reports active has its record and its client,      *)
(* until a revocation begins; so has an agent with a record.               *)
ActiveIsUsable ==
  \A a \in Creations \ deleting :
    /\ entry[a] \in {"active", "shown"} => a \in stored
    /\ a \in stored => client[a] = "usable"

(* After a revocation was answered 200 the record has gone, and so has the *)
(* client if the provider's directory knew it when the revocation came;    *)
(* nothing in flight brings either back.                                   *)
RevokedIsGone ==
  \A d \in Revokes : request[d].at = "revoked" =>
    /\ request[d].agent \notin stored
    /\ d \in settled => client[request[d].agent] = "gone"

(* After that answer no token is vended by id, not even a cached one, and  *)
(* a call with a token that some instance vended before is refused.        *)
RevokedIsUseless ==
  \A r \in ById \cup Uses :
    request[r].late => request[r].at \notin {"vended", "forwarded"}
=============================================================================
