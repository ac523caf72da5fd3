# TLA+ models of the guard proxy

These modules model the core logic of mcp-tool-guard: a proxy that puts
OAuth-scope checks, a human approval queue and an audit trail between agents and
MCP servers. The code is the reference; each mapped definition names its source
lines in `PROJECT.json` (`map`), and each property has there a mutation of the
model that breaks it (`mutants`). Paths below are relative to the repository.

Run, in this directory:

    tlc -workers 2 -config queue_memory.cfg MCApprovalQueue
    tlapm ApprovalQueueProofs.tla

and so on for the other runs and the other modules named `...Proofs` (section 9).

## 1. The system

A Node process (`gateway/proxy-server.ts`) serves HTTP. It is single-threaded:
a request handler runs until an `await`, and other handlers run in between.
State lives in a REST key-value store (Upstash Redis) when one is configured,
which several proxy instances then share, and otherwise in `Map`s of the process.
There are no transactions: each store operation is one HTTP round trip and may
throw, which turns into a 500 (`proxy-server.ts:299`).

| Component | State | Operations | What makes it correct |
|---|---|---|---|
| Approval queue: `gateway/pending-store.ts`, `proxy-routes-pending.ts`, the queue branches of `proxy-routes-mcp.ts` | pending requests, their index, approval tokens and the pointer to each, poll tokens | a tools/call without scope files a request and is held or answered 202; an administrator approves or denies; an agent polls and retries with the token | nothing runs without an approval for that very tool; tokens are single-use; a decision is final; a held call is answered, and by the decision when there is one |
| MCP route: `proxy-routes-mcp.ts`, `mcp-upstream.ts` | none of its own | refuse (404, 413, 503), guard, queue, forward and stream | an answer is ended once, one audit row per outcome, only tools/call is guarded |
| Guard: `guard.ts`, `admin-auth.ts` | the policy (replaced by the registry) | validate a JWT, extract scopes, decide | fails closed; revoked agents are refused; agrees with the flight server's guard |
| Server registry: `server-registry.ts`, `registry-kv.ts`, `proxy-routes-servers.ts` | servers in memory, their stored copies, the guard's copy of the policy | seed, load, add, remove | the three copies agree; a failed operation leaves things as they were; a restart restores what was answered 201 |
| Agent lifecycle: `proxy-routes-agents-token.ts`, `pending-agent-store.ts`, `agent-store.ts`, `token-vendor.ts`, `entra-token-vendor.ts` | pending creations (5 min), agent records, cached tokens | create in the background, poll, vend, revoke | a secret is shown once; an agent reported active is usable; a revoked agent is refused |
| Identity-provider provisioning: `idp-adapter.ts`, `auth0-mgmt.ts`, `entra-mgmt.ts` | none here; clients, scopes and assignments at Auth0 or Entra | create and delete a client by several requests | a created client has all its scopes; a failed creation leaves nothing behind; both providers look alike to the lifecycle |
| Audit log: `logger.ts`, `proxy-routes-audit.ts` | rows in memory, the last 500 in the store | log, persist, reload | rows keep their order and are not lost or doubled |
| Rate limiter: `rate-limit.ts` | hits per client in memory, a counter per minute in the store | check | at most the limit per window; Retry-After suffices |
| Key-value client: `kv.ts`, `deploy/ephemeral/kv-rest-adapter` | the store | get, mget, set, del, scan | absent means null; failures throw |
| Flight server: `servers/flight` (guard, bookings, store) | bookings (stored), seats (per process) | book, cancel, modify, check in, ... | seats plus bookings stay constant; no change to a cancelled booking |
| Chat agent: `ui/src/gateway-agent.ts`, `mcp-client.ts` | pending state, the token to show | call, poll up to 60 times, retry | an approved call is retried once, with its own token |
| Operator console, demo agent: the rest of `ui/src` | view state, sessions | create and revoke agents, approve | mostly rendering |
| Model clients, telemetry, configuration, scripts | none that is read back | | out of scope |

Interactions: the MCP route calls the guard, then the queue, then the upstream
server; the registry replaces the guard's policy; the guard asks the agent store
whether an agent is active; every component logs; the console and the agents are
HTTP clients that may vanish, retry, or come twice.

What is hard: in the key-value store every read-then-write of the code can be
interleaved (queue, index, audit array, rate counter, registry, bookings); an
operation may fail after earlier ones of the same handler took effect; a restart
drops the in-memory half of a pair of copies; timers race decisions; background
creation outlives the request that began it. `PROJECT.json` lists each hazard at
its line.

## 2. Modules and plan

| Module | Models | Used by |
|---|---|---|
| `ApprovalQueue` | the queue and its routes, at the grain of store operations | `MCApprovalQueue`, the proofs |
| `ApprovalPromise` | what the queue promises | refined by `ApprovalQueue` |
| `ServerRegistry` | servers in memory, store and guard policy; a call that uses them | `MCServerRegistry` |
| `IdpProvisioning` | createAgent and deleteAgent at Auth0 and Entra, request by request | `MCIdpProvisioning` |
| `IdpPromise` | what both adapters promise | refined by `IdpProvisioning`, extended by `AgentLifecycle` |
| `AgentLifecycle` | an agent from POST /agents to its revocation | `MCAgentLifecycle` |
| `RateLimiter` | the sliding window and the shared counter | `MCRateLimiter` |
| `AuditLog` | rows in memory, in the store, and their loading | `MCAuditLog` |
| `GuardPolicy` | tokens, scopes and decisions of both guards, as operators | `McpRoute` |
| `McpRoute` | one POST /:serverId/mcp from arrival to last byte | `GatewayAgent` |
| `GatewayAgent` | the chat agent in front of the route | `MCGatewayAgent` |
| `FlightBookings` | bookings against seats | `MCFlightBookings` |

Composition: `GuardPolicy` <- `McpRoute` <- `GatewayAgent` are one specification
(the run `chat`); `AgentLifecycle` is composed with `IdpPromise`, which
`IdpProvisioning` is shown to keep for either provider, so that what is checked of
the lifecycle does not depend on the provider. `McpRoute` shows the approval queue in
single steps, as the in-memory proofs of section 9 allow; its setting `kv` says only
that the queue survives a restart.

Each module is followed by its theorems, in a module of the same name with `Proofs`
behind it: `ApprovalQueueProofs`, `ServerRegistryProofs`, `IdpProvisioningProofs`,
`AgentLifecycleProofs`, `RateLimiterProofs`, `AuditLogProofs`, `FlightBookingsProofs`,
and `GatewayAgentProofs`, which is about `GuardPolicy`, `McpRoute` and `GatewayAgent`
together. No module uses RECURSIVE, and each is parameterised by constants with a named
assumption. Done: all of the above. Left: the theorems are about each component by itself. That `AgentLifecycle`, built on
`IdpPromise`, and the route, which shows the queue in single steps, may take their
neighbours as they do is argued through the two refinements, and no theorem puts two
detailed modules side by side.

What all newer modules assume of a request to the store or to the provider: it
takes effect at once, later, or never, and its sender may be told so or not; but a
request that was given up, or whose sender has died, does not take effect after that.
The one exception is the upstream's tool call (`Act` of `McpRoute`), which may come
after everybody has stopped waiting.

## 3. The approval queue

### State and actions

`ApprovalQueue` models one HTTP request per handler. The sets `Calls` (tools/call
requests), `Admins` (approve and deny requests) and `Pollers` (GET /pending/:id)
are its processes; `pc[h]` is where handler h stands. A pending request is named by
the call that files it and an approval token by the handler that mints it, so an
id is never drawn twice.

| Variables | Code |
|---|---|
| `pending`, `index`, `approvalToken`, `pointer`, `pollToken` | the keys `gateway:pending:<id>`, `...:index`, `gateway:approval-token:*`, `gateway:pending:approval-token:<id>`, `gateway:poll-token:*`, or the four Maps at `pending-store.ts:33` |
| `call`, `basis`, `indexRead`, `order`, `current`, `asked` | locals of the handlers: the request, the pending id a call proceeds under, what `addToPendingIndex` and `resolvePendingRequest` have read |
| `late` | `Date.now() >= deadline` for a held call |
| `disclosed`, `audit`, `decided` | observations: tokens that left the proxy, rows logged, decisions ever written |

| Action | Code |
|---|---|
| `Arrive` | `guard.authorize` returned and the headers chose the branch (`proxy-routes-mcp.ts:110-137`) |
| `CreatePending`, `ReadIndex`, `WriteIndex` (`Filed` in the last) | `createPendingRequest`, `addToPendingIndex`, then the log row |
| `MintPollToken`, `SendQueued` | the 202 answer |
| `ReadHeld`, `Wake` | `waitForPendingResolution` and what follows it: forward, 403, 504 |
| `ReadToken`, `BurnToken`, `CheckBurned` | `validateApprovalToken`, then the re-read of the request |
| `Order`, `ReadRequest`, `WriteRequest`, `MintToken`, `WritePointer`, `SendDecision` | the approve and deny handlers through `resolvePendingRequest` and `generateApprovalToken` |
| `Ask`, `CheckPoll`, `ReadPolled`, `ReadPointer` | GET /pending/:id |
| `DeadlinePasses`, `ExpireApprovalToken`, `ExpirePollToken` | the clock |
| `HandlerFails` | a store operation throws or the instance dies (key-value store only) |
| `Restart` | the Maps are lost (in-memory store only) |

GET /pending changes nothing; it is the operator `Listing`, evaluated by the
property that needs it.

**The two stores** (`KvEnabled`). With the key-value store an action is one store
operation together with the synchronous code around it, and any other handler, of
this instance or another, may run between two actions. With the Maps an `await` of
an in-memory operation yields only to microtasks: once a handler has begun a turn
of the event loop it finishes the turn before another handler begins one. `MayRun`
says exactly that, and the same actions model both.

**Abstractions.** A tool stands for a (server, tool) pair, the pair an approval
token is bound to. Being forwarded is the end of a call; what the upstream server
does is outside. Administrators are already authorised (a refusal changes
nothing). UUIDs do not collide. The two keys of a poll token are written in one
step, because the second is read only by the unfiltered listing's scan. Requests
pipelined into one socket read, which could start two handlers in one turn, are
not modelled.

### Runs

| Run | Instance | Shows |
|---|---|---|
| `queue_memory` | 3 calls, 2 administrators, 2 tools, modes hold and token, Maps | types, single use, denial stands, audit complete, decisions final, and that the queue implements `ApprovalPromise` |
| `queue_live` | 2 calls, 1 administrator, 1 poller, every mode, Maps, fairness | every request is answered; a decision reaches the held call whatever the clock says; an approved request is read with its token |
| `queue_kv` | 2 calls, 2 administrators, 2 tools, modes hold and token, key-value store | no call runs and no token exists without an approval for its tool, under any interleaving and failure; a waiting request is always listed |
| `kv_token_reuse` | 3 calls, 1 administrator, key-value store | violation of `SingleUse` |
| `kv_two_decisions` | 1 call, 2 administrators, key-value store | violation of `ResolutionIsFinal` |

**Bounds.** The sets of handlers are the only bound: each handler serves one
request and stops, so every state space is finite without further limits.
Three calls are one that files a request and two that compete for its token; two
administrators are two decisions on one request (equal or opposite) or two tokens;
two tools are needed to use a token for the wrong one; calls answered 202 file the
same request as held ones and are exercised in `queue_live` and the violation
runs. The symmetric sets are
permuted only in runs without liveness. When every handler is done the system
stops by design; `Finished` stutters there, and deadlock is checked everywhere
else. The proofs (section 9) remove the bounds for all safety properties.

**Fairness** (`FairSpec`). Weak fairness of each handler's steps: Node runs
ready callbacks and the Maps never fail. Strong fairness of `Wake`: other
handlers' turns disable it again and again, but timers are served first-in
first-out. Weak fairness of `DeadlinePasses`: time advances. No fairness for
`Arrive`, `Order`, `Ask`, failures or restarts: nobody has to call or decide.
Liveness is checked with the in-memory store only, where the code alone decides it; with
the key-value store it would rest on the time limits of `fetch`.

### What the violations mean

Each contradicts a sentence of the code or its documentation; see `findings`.

- `kv_token_reuse`: `pending-store.ts:215` "Burn on first use — token cannot be
  reused". Check and burn are two round trips, and the delete does not report
  whether the key was there.
- `kv_two_decisions`: `pending-store.ts:114` "Guard against double-resolve". Guard
  and write are two round trips without a comparison.

Observed while modelling, with no run of their own: the index loses ids to
concurrent creations (`docs/kv-design.md:100` calls it append-only), but nothing
reads it, and `WaitingIsListed` holds because the listing scans; the unfiltered
scan also returns the token pointers that share its prefix; approving twice mints
a second live token; with the key-value store a poll between the write of the
decision and the write of the token's pointer reads an approved request without a
token (the chat agent polls on, which `GatewayAgent` models); a held call's approval mints a token that nobody needs; with
the key-value store a held call may be forwarded before its approval is logged.

## 4. The server registry

`ServerRegistry` has, per instance, the servers in memory (`registry`), the guard's
policy (`policy`) and start-up (`phase`, `toLoad`); shared by the instances,
`stored` is `gateway:servers:<id>`. A registration is one value that stands for the
url together with the scope of each tool. It is modelled with the key-value store
configured; without it the registry is a Map with one owner.

| Action | Code |
|---|---|
| `Start`, `Scan`, `Load`, `Listen`, `LoadFails` | `main` of `proxy-server.ts`: seed from config.yaml, `loadServersFromKv` key by key, take the policy, listen |
| `Add`, `Reject`, `Persist`, `Added`, `AddFails` | POST /servers: overwrite in memory, persist, then tell the guard; on failure remove the id from memory |
| `Remove`, `Delete`, `Removed`, `RemoveFails` | DELETE /servers/:id |
| `Arrive`, `Authorize` | a tools/call reads its target, then its body, then the policy |
| `Crash` | the instance and its handlers die |

A store operation takes effect in one step and answers in another, so a failure
may come before or after the effect. The observations `contested`, `disturbed`,
`word` and `heard` say which operations overlapped, and what was last answered
about a server to whom.

| Property of run `registry` | Hazard |
|---|---|
| `PolicyFollowsRegistry` | a failed POST or DELETE, or two that overlap, leaves a server reachable under another policy than it was registered with |
| `CheckedAgainstItsTarget` | a call reads the target before its body and the policy after it |
| `AnswersStand` | an answer 201 or 200 is undone by a failure, another instance, or a restart that reloads the store |

`AnswersStand` is limited to servers that are not seeded: see section 10.

**Instance.** Two ids (one seeded), two registrations (one of which lacks its
credential), two instances, two writers, one call, one restart. Two writers are what
overlaps; two instances are what makes memory and store differ; a second restart
repeats the first.

## 5. Identity provider and agents

### Provisioning

`IdpProvisioning` follows each request of `createAgent` and `deleteAgent`. `job[c]`
is where a creation stands, what it wants and has read; `declared`, `exists`,
`granted` are the provider's, and so is `visible`: the clients that Entra's directory,
which lags behind its own writes, has caught up with (`CatchUp`; at Auth0 all of
them, at once). `ReadRoles`, `Patch`, `Create` are common to both
adapters (`createM2mAgent` of `auth0-mgmt.ts`, `createAgent` of `entra-mgmt.ts`);
then Auth0 makes one `Grant`, Entra a `Principal`, one `Assign` per scope and a
`Secret`, each repeated while it `Lags` (`fetchGraphWithConsistencyRetry`, five
delays). `Rollback` deletes the client; `RollbackFails`, `CreateUnheard`,
`GrantThrows` and `Crash` are the ways to lose it, and put it in `abandoned`. A
deletion at Entra is a `Lookup` and a `Delete`, at Auth0 only the latter. For a client
that is not yet visible the lookup may come back empty and the deletion answer 404, and
the code takes both for success; `DeleteFails` is any other failure, of the request or of
its answer. The lag of the roles an API declares needs no case of its own: to read them
before another's write is seen is to read them before it is made, and
an id that is not found is one that was dropped.

| Property of run `idp` | Hazard |
|---|---|
| `CreatedIsComplete` | the API's scopes are one array read and replaced whole: creations drop each other's scopes, yet an agent reported created has all of its own |
| `FailureLeavesNothing` | a step in the middle fails |
| `CreationsEnd` | the repetitions must end, in success or rollback |
| `KeepsIdpPromise` | both adapters implement `IdpPromise`: usable no sooner than returned, made once, gone only when asked, never back, and gone once a deletion returned, unless the directory did not know it yet |

The exception at the end is the code's: `entra-mgmt.ts:420` takes an empty lookup for
"already gone", and line 433 a 404 for success, but soon after the creation either may
only be the lag that the same file describes at lines 158-175 and repeats other requests
for. `Confirm` of `IdpPromise` therefore says nothing about a client outside `visible`,
and what is checked and proved of the lifecycle rests on no more than that.

**Fairness** (`FairSpec`): each request under way is answered or given up (Node's
`fetch` gives up after five minutes without an answer; the code sets no limit of its
own), and the timer of a repetition fires. Nobody has to ask for a creation or deletion.

**Instance.** Two creations, one deletion, two scopes of which one is declared, both
providers, two repetitions. Two creations race on the array; two scopes are needed
for an assignment that stops half-way; two repetitions are a repetition and its limit.

### The life of an agent

`AgentLifecycle` extends `IdpPromise`, whose `Start`, `Appear`, `CatchUp`, `Succeed`,
`GiveUp`, `AskDelete`, `Vanish`, `Confirm` and `Die` are the provider's part of its actions.
`task`, `home` and `entry` are the background half of POST /agents and its entry
of `pendingAgents` on one instance; `stored` is `gateway:agents:*`; `cache` is the
vendor's cache per instance; `request[r]` serves the others.

| Action | Code |
|---|---|
| `Post`, `PostRefused`, `Creating`, `CaughtUp`, `Created`, `NotCreated`, `Save`, `Saved`, `SaveFails`, `EntryExpires` | POST /agents and its task |
| `Poll` | `getAndConsumePendingAgent` |
| `AskById`, `AskBySecret`, `ReadSecret`, `LookCache`, `Vend`, `VendFails`, `TokenExpires` | both token routes and the caches |
| `AskRevoke` (which notes in `settled` whether the directory had caught up), `GoneAtIdp`, `RevokedAtIdp`, `Forget`, `Revoked`, `RevokeFails` | DELETE /agents/:clientId |
| `Use`, `CheckActive` | the guard's `assertActiveM2mAgent`, with revocation switched on |
| `Crash` | tasks, entries, caches and requests of an instance die |

| Property of run `agents` | Hazard |
|---|---|
| `OneTimeReveal` | two polls, or a poll after a lost answer, see the secret |
| `ActiveIsUsable` | a partial failure leaves an entry "active" without a record, or a record without a client |
| `RevokedIsGone` | the three deletions fail half-way, or something in flight brings the agent back: after the answer the record is gone, and the client if the directory knew it when the revocation came |
| `RevokedIsUseless` | a token vended before, or cached after, the revocation is still accepted |

**Instance.** One agent (agents share nothing but the provider's array, which is
`IdpProvisioning`'s), two instances, a token request of each kind, two revocations,
one use, two crashes: one for the creation, one for a revocation.

## 6. Rate limiter and audit log

`RateLimiter` follows one client on a clock of ticks. `hits` is the array of timestamps
of the client, per instance, as the set of the requests that left them: the code
filters the array by time, counts it, takes its oldest member and adds to it, and never
looks at its order (`Oldest` is its first element, since they come in order). `Arrive` is
`SlidingWindowRateLimiter.check`, `Count` and `Increment` are the read and the write of
`kvRateLimitExceeded`, `CountFails` its fall-back, which lets the request in whether the
store failed to count it or only to say so (`letIn`, and not `admitted`). `overlapped`
marks requests that were between read and write while another was.

| Property of run `limits` | Hazard |
|---|---|
| `WindowBound` | an off-by-one at the edge of the window |
| `RetrySuffices` | `Retry-After` is rounded, and the client that obeys it is refused by the same hits |
| `FleetBound` | instances overwrite each other's increments: what is lost is never the increment of a request that was counted alone, before or after them |

`FleetBound` weighs a minute's admissions: each request that was counted alone is one,
and all those that overlapped are one together, since the last of them to write may
undo what the others added. That much is never above the limit; that the admissions
themselves may be is observed in section 10.

**Instance.** Two instances, four requests, a limit of two, a window of three ticks, a
second of two ticks (so rounding matters), a horizon of three ticks (the edge of the
minute, and a hit exactly one window old), one restart. Three requests are one more than the
limit; with four, two may overlap at the counter and two more be counted alone.

`AuditLog` has `entries` per instance and `recent`, the shared array.
`Log` appends at once; `ReadRecent` and `WriteRecent` are `persistToKv`, in the
background and per row; `LoadRead` and `Load` are `loadFromKv`, which starts before the
server listens and may end long after; `GetAudit` is GET /audit with a limit. A
batch is what a handler logs in one go (POST /audit/agent).

| Property of run `audit` | Hazard |
|---|---|
| `PersistedIsKept` | a row in the store is lost other than by being pushed out by `MaxRows` others, although its write overlapped nothing |
| `NoRowTwice` | a row is persisted and then loaded by the instance that logged it |
| `OwnRowsLast` | loading puts old rows after new ones, or the cap cuts the wrong end |

**Instance.** Two instances, a batch of two rows and one of one, two rows with equal
timestamp, tool and source, a cap of two, two restarts: the array is full and
overflows, and each instance loads what another wrote.

## 7. The MCP route, both guards and the chat agent

`GuardPolicy` states `validateToken`, `extractScopes`, `hasScope`, `checkScope`,
`isM2mLikeToken` and their counterparts in `servers/flight/guard.py` as operators
over tokens: who signed, the issuer's spelling, the claims present. A signature is
the name of the signer. `McpRoute` is one request:

| Action | Code |
|---|---|
| `Arrive`, `Dispatch` | early answers 404, 503, 413, 500 in their order; only tools/call is guarded |
| `Decide`, `HeldHears` | the verdict and the queue's four branches |
| `Fetch`, `Act`, `Headed`, `Chunk`, `StreamOver`, `FetchThrows` | `mcp-upstream.ts`: forward, the upstream's effect (which may come late), head, first chunk, end or break; `Thrown` is what the two callers answer to an exception |
| `Resolve`, `Mint`, `Revoke`, `Crash` | the administrator, revocation, death of the proxy |

`GatewayAgent` adds turns: `Say` (the Send button), `InitializeFails`, `Think` (the
language model and the pre-check), `Call`, `Hear`, the polls (`PollAgain`,
`PollApproved`, `PollDenied`, `PollTimesOut`) and `HearRetry`. The client and its
approval token are shared by all turns (`agent.approval`), as in the code.

| Property of run `chat` | Hazard |
|---|---|
| `AnsweredOnce` | a stream breaks after the head was sent and the handler answers again, or logs twice or not at all |
| `GuardsAgree` | the two guards extract scopes by different rules, and the second refuses what the first allowed |
| `SaysWhatHappened` | a tool runs twice, or the reply says it did not run when it did or will |
| `TokenForItsCall` | the approval token set for one call goes with another |
| `TurnsEnd` | polling must end |

**Fairness** (`FairSpec`): a turn's timers fire, `fetch` (in Node and in the browser)
and the language model answer or give up, the proxy's handlers go on. Nobody has to approve, deny, send or
initialise.

**Instance** (`MCGatewayAgent`). One or two turns, or one request of another client
with every body, tool, approval header and token; nine shapes of token (client and
person of Auth0 and of Entra, demo, wildcard, expired, forged, for another API); six
configurations; two polls instead of sixty; one failed Initialize, one crash. One
request of another client at a time is enough for it, because requests share only the
queue, whose interleavings are `ApprovalQueue`'s.

## 8. Flight bookings

`FlightBookings` has the booking store, shared when the key-value store is
configured and otherwise in the only instance, and the seats in each
instance's memory. The tools are plain functions, which the server's framework runs in
threads, so calls interleave at every get and set of a record in one instance too.
`Require` is `_require_booking`, the checks (`Refuses`, and the weight that add_baggage
refuses when it is negative) and the change of the copy; `Save` is
`_save_booking`; `Create` is create_booking up to its write; `GetFails`,
`SaveFails`, `Expire` and `Restart` are the failures.

| Property of run `bookings` | Hazard |
|---|---|
| `SeatsAddUp` | seats are local and bookings shared: over all instances they still add up, unless something failed or two changes of one booking overlapped |
| `NoOversale` | the seat is checked before the write and taken after it |
| `ReportedIsStored` | a later operation undoes what an earlier one reported as done |

**Instance.** Two creations for one seat, three changes, two instances, one restart,
with and without the store. Three changes are what it takes to cancel, change and
cancel again. The run does not check deadlock: calls run out and the
service has nothing to do.

## Runs at a glance

| Run | Distinct states, about | Kind |
|---|---|---|
| `queue_memory` | 790,000 | safety, refinement |
| `queue_live` | 109,000 | liveness, safety |
| `queue_kv` | 978,000 | safety |
| `registry` | 802,000 | safety |
| `idp` | 143,000 | safety, liveness, refinement |
| `agents` | 2,912,000 | safety |
| `limits` | 1,568,000 | safety |
| `audit` | 89,000 | safety |
| `chat` | 301,000 | safety, liveness |
| `bookings` | 1,068,000 | safety |
| `kv_token_reuse`, `kv_two_decisions` | | expected violations (section 3) |

## 9. Proofs

Every safety invariant and every action property of the passing runs is a theorem:
it holds for all values of the constants that satisfy the assumptions below, for any
numbers of handlers, instances, rows, requests, restarts. `MC*` modules and bounds play
no part in them. A module `XProofs` is about the module `X`; `GatewayAgentProofs` is
about the route and both guards too.

| Module | Theorem | Property |
|---|---|---|
| `ApprovalQueueProofs`, either store | `TypeCorrect`, `ApprovalNeeded`, `TokenIsEvidence` | `TypeOK`, `ForwardedWasApproved`, `TokenOnlyIfApproved` |
| the Maps (`~KvEnabled`) | `MemorySingleUse`, `MemoryDenialStands`, `MemoryAudit`, `MemoryApprovedComesWithToken`, `MemoryDecisionFinal`, `MemoryKeepsPromise` | `SingleUse`, `DeniedNeverForwarded`, `ForwardAudited`, `ApprovedComesWithToken`, `ResolutionIsFinal`, `KeepsPromise` |
| the key-value store (`KvEnabled`) | `KvWaitingIsListed` | `WaitingIsListed` |
| `ServerRegistryProofs` | `TypeCorrect`, `PolicyIsInSync`, `CallsGoWhereTheyWereChecked`, `AnswersAreKept` | `TypeOK`, `PolicyFollowsRegistry`, `CheckedAgainstItsTarget`, `AnswersStand` |
| `IdpProvisioningProofs` | `TypeCorrect`, `CreatedMeansComplete`, `FailureIsClean`, `PromiseKept` | `TypeOK`, `CreatedIsComplete`, `FailureLeavesNothing`, `KeepsIdpPromise` |
| `AgentLifecycleProofs` | `SecretShownOnce`, `ActiveMeansUsable`, `RevocationIsFinal`, `RevocationIsEffective` | `OneTimeReveal`, `ActiveIsUsable`, `RevokedIsGone`, `RevokedIsUseless` |
| `RateLimiterProofs` | `LimitHolds`, `RetryAfterIsEnough`, `FleetLimitHolds` | `WindowBound`, `RetrySuffices`, `FleetBound` |
| `AuditLogProofs` | `KeptInStore`, `RowsOnce`, `OwnRowsStayLast` | `PersistedIsKept`, `NoRowTwice`, `OwnRowsLast` |
| `GatewayAgentProofs` | `TypeCorrect`, `OneAnswerOneRow`, `SecondGuardAgrees`, `RepliesAreTrue`, `TokensStayWithTheirCalls` | `TypeOK`, `AnsweredOnce`, `GuardsAgree`, `SaysWhatHappened`, `TokenForItsCall` |
| `FlightBookingsProofs` | `SeatsAreAccountedFor`, `NobodyOversells`, `ReportsHold` | `SeatsAddUp`, `NoOversale`, `ReportedIsStored` |

Where a step changes several fields of one record, the modules write
`![x] = [@ EXCEPT !.a = ..., !.b = ...]` and not `![x].a = ..., ![x].b = ...`: the SMT
translation of the second form in tlapm 1.4.5 is wrong (it lets one prove that b had its new
value before the step), and no proof here rests on it.

### Assumptions on the constants

Each is stated in the module that declares the constants, and TLC evaluates it on every
run of that module. Sets of handlers of different kinds are disjoint and `None` is not
a member of the sets it stands outside of; bounds are naturals. Beyond that:

- `ConstantsAssumption`: the modes of a run are among those the code has.
- `RegistryAssumption`: each id has a registration in config.yaml or none.
- `ProvisioningAssumption`: declared scopes are scopes; at most the two providers.
- `LimiterAssumption`: the limit, the window and a second are not zero.
- `AuditAssumption`: no row is twice in a batch or in two batches (a row stands for one
  call of `log`, not for what it says), and a capacity of at least one.
- `PolicyAssumption`: the scope a tool asks for has at least one part, as every string has
  that is split at its colons.
- `TokenAssumption`: a token signed with the demo key names no issuer, as
  `scripts/generate-keys.mjs` signs them. `GuardsAgree` needs this one: the issuer
  decides which key either server tries, and the two may differ in whether they try
  the provider's.
- `RouteAssumption`, `AgentAssumption`: configurations, requests and scenes are of
  the shapes the modules define.
- `BookingsAssumption`: finitely many calls, instances and flights, since
  `SeatsAddUp` counts and adds over them.

### The approval queue

The argument has three layers, each inductive relative to the one before.

1. `TypeInv`: `TypeOK` and what each handler's locals hold at each control point.
2. `ProvenanceInv`, for both stores: everything on file can be traced. A stored
   request carries the tool of the call that filed it, and a status someone wrote;
   a token was minted by a handler that approved its request, for its tool; a
   call past the token check holds a basis for the tool it calls. It needs no
   mutual exclusion, only that records are written whole; that is why these two
   theorems survive the key-value store.
3. `MemoryInv`, for the Maps: `OneTurn` (at most one handler is inside a turn), and
   from it that what a turn has read still stands: the request about to be decided
   is still undecided, the token about to be burned is still there, a burned token
   is never minted again, an approved request has its audit row and its pointer
   except while the one approving handler is between the two. It is false with
   the key-value store: the two violations of section 3 show how it fails.

`KvWaitingIsListed` has an invariant of its own, `FiledInv`: with the key-value store a
request is on file from its filing on, undecided until the first decision is
written. A waiting request is therefore found by the scan, whatever became of the index.

The refinement of `ApprovalPromise` maps the decisions ever written to the promise's
`outcome` and the calls forwarded with a basis to its `runs`. `WriteRequest` is
`Decide`, the forwarding branches of `ReadHeld` and `CheckBurned` are `Run`, and every
other step stutters; the history variables make a restart a stutter too, so the
promise spans restarts.

### Registry, provisioning, agents

`ServerRegistry`. None of the three properties is inductive: they speak of moments when
nobody writes. `InSync` says that policy and registry differ only while a POST is under
way on that instance; `Undisturbed`, that the target a call has read is still
registered and nobody writes it unless the call is marked disturbed; `Alone`, that a
writer without competitor finds the registry, and after its store operation the store,
as it left them; `Settled`, that an answer which stands is what the store holds and what
each instance that heard it holds or will load.

`IdpProvisioning`. `Existence` follows a client through its creation: made after the
lookups, there until rolled back or removed, left behind by a failure only if
`abandoned`. `Entitled` says that the scopes granted and those still to be assigned are
together the ones wanted, so that an empty list of things to do means completeness.
`PromiseKept` maps a creation's place in the sequence to the promise's outcome: `Create`
is `Appear`, reporting is `Succeed` or `GiveUp`, a deletion is `AskDelete`, `Vanish` and
`Confirm`, every request in between stutters, and `Crash` is `Die` of all that are under way.
A removal that has gone past the provider says nothing about the client by itself:
`Confirm` is matched at the step that returns, from the lookup's or the deletion's own
guard, by whether the client has gone or is not `visible`.

`AgentLifecycle`. `Provisioned` ties the task to the provider's outcome, the client and
the record; `Disclosure` the entry and the answers given to the task (an entry turns
active once, at the end, and the first answer with the secret ends that);
`Revocation` says what each step of a deletion leaves behind it, where the client's part
is conditional on the deletion being `settled` (a client once visible stays so); `Lateness`, that a
request which came after the answer to a revocation is stuck before the record it needs.

### Rate limits and the audit log

`RateLimiter`. The window moves with every tick, so `WindowBound`, about all
spans there ever were, is carried by `HitsInv`: what the instance let through within a
window of now is still in its hits. `RefusedInv` keeps for a refused request
a hit of its window that will have left when `Retry-After` is over; that the oldest hit
exists and that rounding up never falls short are lemmas. `FleetInv` compares
what a minute's requests have used, each counted alone as one and those that overlapped as
one together, with the counter and with whatever any request has read of it: a write
that loses increments loses those of requests which overlapped it, and adds the one.

`AuditLog`. `KeptInv`: rows written together contest each other, and a row that is
uncontested in the array is also in what each writer has read, so the next write keeps
it or the array is full. `RowsInv`: every copy of the array, in a writer's or a loader's
hands, consists of persisted rows, each once, and memory of logged rows, each once; a
loader then adds only rows whose keys it does not have. `OwnInv` is stated from the end
of the array, where appending shifts both sides and loading, which prepends, changes
nothing. `Fresh`, the filter, is a recursive function: its existence and what it keeps
are proved by the least length at which they would fail.

### Route, guards, chat, bookings

`GatewayAgent`. The route is proved request by request (`RequestByRequest`): `Stages`
says what has been decided, answered and logged at each place; `Statuses`, what an
answer's status implies about the upstream; `Reasons`, why the request was let through.
`Progress` says the same of a turn and its request, and `Sharing` that a token on the
shared client is that of a retrying turn and that turns under way together are marked.
`GuardsAgree` follows from the invariant and from lemmas about the operators alone:
the proxy reads the first scope claim that is present, the flight server the first that
says something, which is at least as much (`FirstThatSaysSomething`,
`FlightFindsAllScopes`), and its decision is no stricter (`FlightAllowsNoLess`).

`FlightBookings`. `SeatKept`: where creations are not crowded, at most one is between
check and write, and its seat is still there. `CopyIsCurrent` and `StoreIsCurrent`: the
copy a change is about to write contains all that was reported of the booking. For
`SeatsAddUp`, `SumInv` equates, while nothing has gone wrong, the sum over
instances of the seats taken with the number of bookings whose seat is taken: those
confirmed in the store and not being cancelled, because a cancellation returns the seat
before it writes. The sum is `MapThenSumSet`, a fold; the lemmas `SumExists`,
`SumOfChange` and `SumOfNothing` establish what it does when one instance changes, by a
minimal subset for which that would fail.

Cardinalities come from `FiniteSetTheorems`. Where a proof needs induction over
lengths or subsets it takes a least or minimal counterexample, because the
library's induction theorems take an operator as a parameter.


## 10. Observations

Behaviour met while modelling that the properties exclude by name or that
has no run of its own:

- Registry: `docs/CONCEPT.md:165` lets DELETE remove a server, but a seeded one comes
  back with a restart, and a stored registration under a seeded id is ignored
  (`AnswersStand` excludes seeded servers). POST /servers that fails removes an entry that was there before.
- Registry, several instances: a server added on one is unknown to the others until
  they restart.
- Provisioning: `deleteAgent` at Entra may return with the client still there, if it comes
  before the directory has caught up with the creation (section 5); the route then deletes
  the record, and nothing of the proxy's names the client any more.
- Provisioning: `auth0-mgmt.ts:87` explains that the array is read first so that no
  declared scope is dropped; two creations that overlap drop each other's all the
  same, and an agent whose scopes were dropped before its grant is rolled back. What a provider does to the grants that exist when a
  scope is dropped after them is not in the code, and not modelled. The rollback's own
  failure, or a 404 by the lag, leaves the client behind (`abandoned`).
- Lifecycle: an entry that expires before it is polled, or an answer that is lost, takes
  the secret with it; a creation whose record cannot be saved leaves a client that
  nothing removes.
- Lifecycle: after a revocation, POST /token with the secret still returns a token
  that another instance has cached; the guard refuses it if revocation is switched
  on. Tokens of an Auth0 person that carry azp without scp are taken for a client's
  by the revocation check.
- Rate limits: `rate-limit.ts:8` says that the store enforces the limit across
  instances; of increments that overlap all but one are lost (`overlapped`), and the
  instances together may admit more.
- Audit: in memory the rows grow without bound until a restart.
- Rate limits: the minutes of the counter are fixed, as documented, so that twice the
  limit may pass around the edge of one.
- Guards: tokens of Entra name an issuer without a final slash, pass the proxy's guard
  and are refused by the flight server's. A call that runs by approval is still
  refused by the flight server's guard, because the caller's own token is forwarded.
  The flight server knows no revocation.
- Chat agent: `gateway-agent.ts:123` logs `reached_server: false` for a call that it
  then sends on. A failed Initialize during a turn lets turns overlap on a shared
  approval token (`overlapped`).
- Route: a stream that breaks after its head was sent is logged as "allow" with the
  upstream's status.
- Bookings: a cancellation on another instance raises that instance's seats above
  capacity, each instance sells the whole capacity, and of two overlapping changes
  of one booking the later write wins, so a cancelled booking may come back.

## 11. Type invariants and what only TLC checks

Each module has one type invariant. Those of `AgentLifecycle`, `RateLimiter`, `AuditLog`
and `FlightBookings` are not listed in a run; they are proved instead (`TypeCorrect` in
each module's proofs), since every other proof rests on them.

Liveness (`EveryHandlerAnswers`, `HeldCallHearsDecision`, `CreationsEnd`, `TurnsEnd`)
is for TLC alone: the proof system has neither fairness nor ENABLED. So are the two
violations, which are behaviours and not theorems. The in-memory theorems of the queue
do not extend to the key-value store (the violations refute two of them there), and `KvWaitingIsListed` is not
stated for the Maps, where a restart forgets what was waiting.


## 12. Not modelled

Telemetry, the model clients, rendering and sign-in, encryption of secrets, REST
encoding, configuration parsing, deployment files and scripts: none keeps state
that another part reads. The demo agent's derivation of tool arguments is text
processing. GET /audit's filter by session, the paths exempt from rate limits, CORS and
dispatch by path are left out of modelled components. `PROJECT.json`, `components`, says why for each.
