--------------------------- MODULE ServerRegistry ---------------------------
(***************************************************************************)
(* The registry of MCP servers and the policy the guard enforces.          *)
(*                                                                         *)
(*   gateway/server-registry.ts        the servers, in memory              *)
(*   gateway/registry-kv.ts            their copies in the key-value store *)
(*   gateway/proxy-routes-servers.ts   POST and DELETE /servers            *)
(*   gateway/proxy-server.ts           start-up, syncGuardConfig           *)
(*   gateway/proxy-routes-mcp.ts       a call: target first, then policy   *)
(*                                                                         *)
(* Each proxy instance keeps the servers twice, in its registry and in the *)
(* policy of its guard, and the instances share the copies in the store.   *)
(* A handler is cut at its awaits; a store operation takes effect in one   *)
(* step and its answer, if any, comes in another.  The key-value store is  *)
(* configured: without it the registry is a Map that a restart empties.    *)
(***************************************************************************)
EXTENDS Naturals

CONSTANTS
  Instances,     \* proxy processes
  Ids,           \* server ids
  Configs,       \* registrations: a url with the scope of each tool
  NoCredential,  \* those whose upstream_token_env is not set on the proxy
  Seed,          \* config.yaml: a registration, or None, for each id
  Writers,       \* POST /servers and DELETE /servers/:id handlers
  Calls,         \* POST /:serverId/mcp tools/call handlers
  MaxRestarts,   \* bound: how often an instance may restart
  None

ASSUME RegistryAssumption ==
  /\ None \notin Configs /\ NoCredential \subseteq Configs
  /\ Seed \in [Ids -> Configs \cup {None}]
  /\ Writers \cap Calls = {}
  /\ MaxRestarts \in Nat

Handlers == Writers \cup Calls

Servers == [Ids -> Configs \cup {None}]

Request == [on: Instances, id: Ids, config: Configs \cup {None}]

VARIABLES
  phase,      \* of each instance's life
  toLoad,     \* ids found by the start-up scan and not yet loaded
  registry,   \* ServerRegistry.servers of each instance
  policy,     \* the guard's config of each instance
  stored,     \* gateway:servers:<id>
  pc,         \* where each handler is
  request,    \* what it serves; a removal has no config
  target,     \* the registration a call read when it arrived
  checked,    \* the registration whose policy a call was checked against
  restarts,
  (* observations *)
  contested,  \* writers that overlapped another writer of the same server
  disturbed,  \* calls that overlapped a writer of their server
  word,       \* the last uncontested answer about each server, if it stands
  heard       \* instances that gave that answer or have started since

instanceVars == <<phase, toLoad, registry, policy, restarts>>
handlerVars == <<pc, request, target, checked>>
observations == <<contested, disturbed, word, heard>>
vars == <<instanceVars, stored, handlerVars, observations>>

Unknown == [answered |-> FALSE, config |-> None]

Answered(config) == [answered |-> TRUE, config |-> config]

(* Writing points: the store has not answered yet.                         *)
Writing == {"persisting", "persisted", "deleting", "deleted"}

InFlight == Writing \cup {"reading"}

Busy(id) == {w \in Writers : pc[w] \in Writing /\ request[w].id = id}

----------------------------------------------------------------------------
(* An instance starts: main() of proxy-server.ts.                          *)

(* config.yaml seeds the registry.                                         *)
Start(i) ==
  /\ phase[i] = "down"
  /\ phase' = [phase EXCEPT ![i] = "scan"]
  /\ registry' = [registry EXCEPT ![i] = Seed]
  /\ heard' = [id \in Ids |-> heard[id] \cup {i}]
  /\ UNCHANGED <<toLoad, policy, restarts, stored, handlerVars, contested,
                 disturbed, word>>

(* loadServersFromKv: the keys of the store, less the seeded ids ...       *)
Scan(i) ==
  /\ phase[i] = "scan"
  /\ phase' = [phase EXCEPT ![i] = "load"]
  /\ toLoad' = [toLoad EXCEPT ![i] =
                  {id \in Ids : stored[id] # None /\ Seed[id] = None}]
  /\ UNCHANGED <<registry, policy, restarts, stored, handlerVars, observations>>

(* ... one by one.  A key that has gone since the scan is skipped.         *)
Load(i) ==
  \E id \in toLoad[i] :
    /\ phase[i] = "load"
    /\ toLoad' = [toLoad EXCEPT ![i] = @ \ {id}]
    /\ registry' = IF stored[id] = None THEN registry
                   ELSE [registry EXCEPT ![i][id] = stored[id]]
    /\ UNCHANGED <<phase, policy, restarts, stored, handlerVars, observations>>

(* The guard takes its policy from the registry, and the server listens.   *)
Listen(i) ==
  /\ phase[i] = "load" /\ toLoad[i] = {}
  /\ phase' = [phase EXCEPT ![i] = "up"]
  /\ policy' = [policy EXCEPT ![i] = registry[i]]
  /\ UNCHANGED <<toLoad, registry, restarts, stored, handlerVars, observations>>

(* The store fails meanwhile: start with what has been loaded so far.      *)
LoadFails(i) ==
  /\ phase[i] \in {"scan", "load"}
  /\ phase' = [phase EXCEPT ![i] = "up"]
  /\ toLoad' = [toLoad EXCEPT ![i] = {}]
  /\ policy' = [policy EXCEPT ![i] = registry[i]]
  /\ heard' = [id \in Ids |-> heard[id] \ {i}]
  /\ UNCHANGED <<registry, restarts, stored, handlerVars, contested, disturbed,
                 word>>

(* The process dies, and its handlers with it.                             *)
Crash(i) ==
  /\ phase[i] # "down" /\ restarts < MaxRestarts
  /\ restarts' = restarts + 1
  /\ phase' = [phase EXCEPT ![i] = "down"]
  /\ toLoad' = [toLoad EXCEPT ![i] = {}]
  /\ registry' = [registry EXCEPT ![i] = [id \in Ids |-> None]]
  /\ policy' = [policy EXCEPT ![i] = [id \in Ids |-> None]]
  /\ pc' = [h \in Handlers |->
              IF pc[h] \in InFlight /\ request[h].on = i THEN "failed" ELSE pc[h]]
  /\ heard' = [id \in Ids |-> heard[id] \ {i}]
  /\ UNCHANGED <<stored, request, target, checked, contested, disturbed, word>>

----------------------------------------------------------------------------
(* POST /servers and DELETE /servers/:id, past the admin check.            *)

(* What an observer notes when w begins to write server id on instance i.  *)
Begin(w, i, id, config) ==
  /\ request' = [request EXCEPT ![w] = [on |-> i, id |-> id, config |-> config]]
  /\ word' = [word EXCEPT ![id] = Unknown]
  /\ contested' = IF Busy(id) = {} THEN contested
                  ELSE contested \cup Busy(id) \cup {w}
  /\ disturbed' = disturbed \cup
       {c \in Calls : pc[c] = "reading" /\ request[c].on = i
                                        /\ request[c].id = id}

(* ... and when w answers.                                                 *)
Answer(w) ==
  /\ word' = IF w \in contested THEN word
             ELSE [word EXCEPT ![request[w].id] = Answered(request[w].config)]
  /\ heard' = [heard EXCEPT ![request[w].id] = {request[w].on}]
  /\ UNCHANGED <<contested, disturbed>>

(* registry.add validates and overwrites; the persist is under way.        *)
Add(w) ==
  \E i \in Instances, id \in Ids, config \in Configs :
    /\ pc[w] = "idle" /\ phase[i] = "up"
    /\ registry' = [registry EXCEPT ![i][id] = config]
    /\ pc' = [pc EXCEPT ![w] = "persisting"]
    /\ Begin(w, i, id, config)
    /\ UNCHANGED <<phase, toLoad, policy, restarts, stored, target, checked,
                   heard>>

(* registry.add finds the body invalid: 400.                               *)
Reject(w) ==
  /\ pc[w] = "idle" /\ \E i \in Instances : phase[i] = "up"
  /\ pc' = [pc EXCEPT ![w] = "rejected"]
  /\ UNCHANGED <<instanceVars, stored, request, target, checked, observations>>

(* Variant: the store is given the body as it came.                        *)
Persist_Request(w) ==
  /\ pc[w] = "persisting"
  /\ stored' = [stored EXCEPT ![request[w].id] = request[w]]
  /\ pc' = [pc EXCEPT ![w] = "persisted"]
  /\ UNCHANGED <<instanceVars, request, target, checked, observations>>

Persist(w) ==
  /\ pc[w] = "persisting"
  /\ stored' = [stored EXCEPT ![request[w].id] = request[w].config]
  /\ pc' = [pc EXCEPT ![w] = "persisted"]
  /\ UNCHANGED <<instanceVars, request, target, checked, observations>>

(* Variant: the guard is not told of the new server.                       *)
Added_NoSync(w) ==
  /\ pc[w] = "persisted"
  /\ pc' = [pc EXCEPT ![w] = "added"]
  /\ Answer(w)
  /\ UNCHANGED <<instanceVars, stored, request, target, checked>>

(* onRegistryChanged, and 201.                                             *)
Added(w) ==
  LET i == request[w].on IN
  /\ pc[w] = "persisted"
  /\ policy' = [policy EXCEPT ![i] = registry[i]]
  /\ pc' = [pc EXCEPT ![w] = "added"]
  /\ Answer(w)
  /\ UNCHANGED <<phase, toLoad, registry, restarts, stored, request, target,
                 checked>>

(* The persist throws, before or after it took effect: the id is removed   *)
(* from the registry, whatever it held before, and the guard is not told.  *)
AddFails(w) ==
  /\ pc[w] \in {"persisting", "persisted"}
  /\ registry' = [registry EXCEPT ![request[w].on][request[w].id] = None]
  /\ pc' = [pc EXCEPT ![w] = "failed"]
  /\ UNCHANGED <<phase, toLoad, policy, restarts, stored, request, target,
                 checked, observations>>

(* registry.remove; 404 when there is nothing to remove.                   *)
Remove(w) ==
  \E i \in Instances, id \in Ids :
    /\ pc[w] = "idle" /\ phase[i] = "up"
    /\ IF registry[i][id] = None
       THEN /\ pc' = [pc EXCEPT ![w] = "notFound"]
            /\ UNCHANGED <<registry, request, word, contested, disturbed>>
       ELSE /\ registry' = [registry EXCEPT ![i][id] = None]
            /\ pc' = [pc EXCEPT ![w] = "deleting"]
            /\ Begin(w, i, id, None)
    /\ UNCHANGED <<phase, toLoad, policy, restarts, stored, target, checked,
                   heard>>

(* Variant: the copy in the store is forgotten.                            *)
Delete_Kept(w) ==
  /\ pc[w] = "deleting"
  /\ pc' = [pc EXCEPT ![w] = "deleted"]
  /\ UNCHANGED <<instanceVars, stored, request, target, checked, observations>>

Delete(w) ==
  /\ pc[w] = "deleting"
  /\ stored' = [stored EXCEPT ![request[w].id] = None]
  /\ pc' = [pc EXCEPT ![w] = "deleted"]
  /\ UNCHANGED <<instanceVars, request, target, checked, observations>>

(* onRegistryChanged, and 200.                                             *)
Removed(w) ==
  LET i == request[w].on IN
  /\ pc[w] = "deleted"
  /\ policy' = [policy EXCEPT ![i] = registry[i]]
  /\ pc' = [pc EXCEPT ![w] = "removed"]
  /\ Answer(w)
  /\ UNCHANGED <<phase, toLoad, registry, restarts, stored, request, target,
                 checked>>

(* The delete throws: 500.  The registry has forgotten the server, the     *)
(* guard has not, and the store may or may not have.                       *)
RemoveFails(w) ==
  /\ pc[w] \in {"deleting", "deleted"}
  /\ pc' = [pc EXCEPT ![w] = "failed"]
  /\ UNCHANGED <<instanceVars, stored, request, target, checked, observations>>

Write(w) ==
  \/ Add(w) \/ Reject(w) \/ Persist(w) \/ Added(w) \/ AddFails(w)
  \/ Remove(w) \/ Delete(w) \/ Removed(w) \/ RemoveFails(w)

----------------------------------------------------------------------------
(* tools/call: the target is read before the body, the policy after it.    *)

(* registry.getServer: 404, 503, or go on to read the body.                *)
Arrive(c) ==
  \E i \in Instances, id \in Ids :
    LET config == registry[i][id] IN
    /\ pc[c] = "idle" /\ phase[i] = "up"
    /\ request' = [request EXCEPT ![c] = [on |-> i, id |-> id, config |-> None]]
    /\ target' = [target EXCEPT ![c] = config]
    /\ pc' = [pc EXCEPT ![c] = IF config = None THEN "unknown"
                               ELSE IF config \in NoCredential THEN "unavailable"
                               ELSE "reading"]
    /\ disturbed' = IF \E w \in Busy(id) : request[w].on = i
                    THEN disturbed \cup {c} ELSE disturbed
    /\ UNCHANGED <<instanceVars, stored, checked, contested, word, heard>>

(* Variant: a tool without a policy is let through.                        *)
Authorize_Anything(c) ==
  /\ pc[c] = "reading"
  /\ pc' = [pc EXCEPT ![c] = "forwarded"]
  /\ UNCHANGED <<instanceVars, stored, request, target, checked, observations>>

(* checkScope against the guard's policy as it is by then: a server that   *)
(* has gone has no tools, and the token may or may not hold the scope.     *)
Authorize(c) ==
  LET enforced == policy[request[c].on][request[c].id] IN
  /\ pc[c] = "reading"
  /\ checked' = [checked EXCEPT ![c] = enforced]
  /\ \E hasScope \in BOOLEAN :
       pc' = [pc EXCEPT ![c] = IF enforced # None /\ hasScope THEN "forwarded"
                                                              ELSE "refused"]
  /\ UNCHANGED <<instanceVars, stored, request, target, observations>>

----------------------------------------------------------------------------

Init ==
  /\ phase = [i \in Instances |-> "down"]
  /\ toLoad = [i \in Instances |-> {}]
  /\ registry = [i \in Instances |-> [id \in Ids |-> None]]
  /\ policy = registry
  /\ stored = [id \in Ids |-> None]
  /\ pc = [h \in Handlers |-> "idle"]
  /\ request = [h \in Handlers |-> None]
  /\ target = [c \in Calls |-> None]
  /\ checked = [c \in Calls |-> None]
  /\ restarts = 0
  /\ contested = {} /\ disturbed = {}
  /\ word = [id \in Ids |-> Unknown]
  /\ heard = [id \in Ids |-> {}]

(* Every handler has answered; the instances need not do anything more.    *)
Finished ==
  /\ \A h \in Handlers : pc[h] \notin InFlight \cup {"idle"}
  /\ UNCHANGED vars

Next ==
  \/ \E i \in Instances : \/ Start(i) \/ Scan(i) \/ Load(i) \/ Listen(i)
                          \/ LoadFails(i) \/ Crash(i)
  \/ \E w \in Writers : Write(w)
  \/ \E c \in Calls : Arrive(c) \/ Authorize(c)
  \/ Finished

Spec == Init /\ [][Next]_vars

----------------------------------------------------------------------------
(* Invariants                                                              *)

(* Every variable has its type.                                            *)
TypeOK ==
  /\ phase \in [Instances -> {"down", "scan", "load", "up"}]
  /\ toLoad \in [Instances -> SUBSET Ids]
  /\ registry \in [Instances -> Servers]
  /\ policy \in [Instances -> Servers]
  /\ stored \in Servers
  /\ pc \in [Handlers -> InFlight \cup {"idle", "added", "rejected", "removed",
                           "notFound", "failed", "unknown", "unavailable",
                           "forwarded", "refused"}]
  /\ request \in [Handlers -> Request \cup {None}]
  /\ target \in [Calls -> Configs \cup {None}]
  /\ checked \in [Calls -> Configs \cup {None}]
  /\ restarts \in 0..MaxRestarts
  /\ contested \subseteq Writers /\ disturbed \subseteq Calls
  /\ word \in [Ids -> [answered: BOOLEAN, config: Configs \cup {None}]]
  /\ heard \in [Ids -> SUBSET Instances]

(* Between operations on a server, an instance that knows the server       *)
(* enforces the policy it was registered with, however the operations      *)
(* overlapped and failed.                                                  *)
PolicyFollowsRegistry ==
  \A i \in Instances, id \in Ids :
    /\ phase[i] = "up"
    /\ registry[i][id] # None
    /\ \A w \in Busy(id) : request[w].on # i
    => policy[i][id] = registry[i][id]

(* A call is forwarded to the registration whose policy it was checked     *)
(* against, unless its server was being added or removed meanwhile; and    *)
(* it is never forwarded unchecked.                                        *)
CheckedAgainstItsTarget ==
  \A c \in Calls : pc[c] = "forwarded" =>
    /\ checked[c] # None
    /\ c \notin disturbed => checked[c] = target[c]

(* An instance that answered 201 or 200 about server id, or started since  *)
(* without a store failure, has just what the answer said.                 *)
Standing(id) ==
  word[id].answered =>
    \A i \in heard[id] :
      phase[i] = "up" => registry[i][id] = word[id].config

(* The answers about the servers that are not seeded stand, restarts and   *)
(* other instances included, until the next operation on them begins.      *)
AnswersStand == \A id \in Ids : Seed[id] = None => Standing(id)
=============================================================================
