------------------------ MODULE AgentLifecycleProofs ------------------------
(***************************************************************************)
(* Theorems about the life of an agent, for any number of agents, proxy    *)
(* instances, requests and crashes.                                        *)
(***************************************************************************)
EXTENDS AgentLifecycle, TLAPS

PromiseTypeOK ==
  /\ client \in [Creations -> {"none", "unfinished", "usable", "gone"}]
  /\ outcome \in [Creations -> {"idle", "running", "created", "failed"}]
  /\ visible \subseteq Creations
  /\ deleting \subseteq Creations /\ deleted \subseteq Creations

(* Where requests of each kind may stand.                                  *)
ByIdPoints == {"idle", "failed", "notFound", "readSecret", "lookCache",
               "askIdp", "vended"}
RevokePoints == {"idle", "failed", "atIdp", "forget", "forgotten", "revoked"}
UsePoints == {"idle", "failed", "check", "forwarded", "refused"}

RequestLocals(r) ==
  /\ request[r].at # "idle" => request[r].agent \in Creations
  /\ request[r].at \notin Answered => request[r].on \in Instances
  /\ request[r].at \in Answered => request[r].on = None
  /\ r \in ById \cup BySecret => request[r].at \in ByIdPoints
  /\ r \in Revokes => request[r].at \in RevokePoints
  /\ r \in Uses => request[r].at \in UsePoints

TypeInv ==
  /\ TypeOK
  /\ PromiseTypeOK
  /\ \A r \in Requests : RequestLocals(r)

----------------------------------------------------------------------------
(* How the helpers change a request.                                       *)

(* What a request is after it was moved: nothing but its place changes,    *)
(* and with an answer its instance lets go of it.                          *)
Moved(r, to) ==
  /\ request' \in [Requests -> Records]
  /\ \A q \in Requests \ {r} : request'[q] = request[q]
  /\ request'[r].at = to
  /\ request'[r].on = IF to \in Answered THEN None ELSE request[r].on
  /\ request'[r].agent = request[r].agent
  /\ request'[r].late = request[r].late

(* Move(r, to) does that, of a request with its type.                      *)
LEMMA MoveLemma ==
  ASSUME request \in [Requests -> Records], NEW r \in Requests, NEW to,
         to \in {"failed", "notFound", "readSecret", "lookCache", "askIdp",
                 "vended", "forget", "forgotten", "revoked", "forwarded",
                 "refused"},
         Move(r, to)
  PROVE  Moved(r, to)
<1>1. request[r] \in Records
  OBVIOUS
<1>2. [request[r] EXCEPT !.at = to,
                         !.on = IF to \in Answered THEN None ELSE request[r].on]
        \in Records
  BY <1>1 DEF Records
<1>3. request' = [request EXCEPT ![r] =
        [request[r] EXCEPT !.at = to,
                           !.on = IF to \in Answered THEN None ELSE request[r].on]]
  BY DEF Move
<1> QED
  BY <1>1, <1>2, <1>3 DEF Moved, Records

(* What a request is once it was received, about agent a and on its way.   *)
Received(r, a, to) ==
  /\ request' \in [Requests -> Records]
  /\ \A q \in Requests \ {r} : request'[q] = request[q]
  /\ request'[r].at = to
  /\ request'[r].on \in Instances
  /\ request'[r].agent = a
  /\ request'[r].late => a \in revoked

(* Receive(r, a, to) does that.                                            *)
LEMMA ReceiveLemma ==
  ASSUME request \in [Requests -> Records], NEW r \in Requests,
         NEW a \in Creations, NEW to,
         to \in {"readSecret", "lookCache", "atIdp", "check"},
         Receive(r, a, to)
  PROVE  Received(r, a, to)
<1>1. PICK i \in Instances :
        request' = [request EXCEPT ![r] = [at |-> to, on |-> i, agent |-> a,
                                           late |-> a \in revoked]]
  BY DEF Receive
<1>2. (a \in revoked) \in BOOLEAN
  OBVIOUS
<1> DEFINE new == [at |-> to, on |-> i, agent |-> a, late |-> a \in revoked]
<1>3. new \in Records
  BY <1>2 DEF Records
<1>4. request' = [request EXCEPT ![r] = new]
  BY <1>1
<1>5. new.at = to /\ new.on = i /\ new.agent = a /\ (new.late => a \in revoked)
  OBVIOUS
<1> HIDE DEF new
<1> QED
  BY <1>3, <1>4, <1>5 DEF Received

----------------------------------------------------------------------------
(* Types                                                                   *)

(* The initial state satisfies the type invariant.                         *)
LEMMA TypeInit == Init => TypeInv
BY LifecycleAssumption
   DEF Init, PromiseInit, TypeInv, TypeOK, PromiseTypeOK, RequestLocals,
       Records, Answered, ByIdPoints, RevokePoints, UsePoints

(* The background half of POST /agents, and what the provider does for it, *)
(* keep the types.                                                         *)
LEMMA CreationTypeStep ==
  ASSUME TypeInv, NEW a \in Creations, CreationStep(a) \/ Poll(a)
  PROVE  TypeInv'
<1> USE DEF TypeInv, TypeOK, PromiseTypeOK, RequestLocals, Mark
<1>1. CASE Post(a)
  BY <1>1 DEF Post, Start, observations
<1>2. CASE PostRefused(a)
  BY <1>2 DEF PostRefused, promiseVars, observations
<1>3. CASE Creating(a)
  BY <1>3 DEF Creating, Appear, Made, agentVars, observations
<1>4. CASE Created(a)
  BY <1>4 DEF Created, Succeed, observations
<1>5. CASE NotCreated(a)
  BY <1>5 DEF NotCreated, GiveUp, Made, observations
<1>6. CASE Save(a)
  BY <1>6 DEF Save, promiseVars
<1>7. CASE Saved(a)
  BY <1>7 DEF Saved, promiseVars, observations
<1>8. CASE SaveFails(a)
  BY <1>8 DEF SaveFails, promiseVars, observations
<1>9. CASE EntryExpires(a)
  BY <1>9 DEF EntryExpires, promiseVars, observations
<1>10. CASE GoneAtIdp(a)
  BY <1>10 DEF GoneAtIdp, Vanish, agentVars, observations
<1>11. CASE Poll(a)
  BY <1>11 DEF Poll, Consume, promiseVars
<1>12. CASE CaughtUp(a)
  BY <1>12 DEF CaughtUp, CatchUp, agentVars, observations
<1> QED
  BY <1>1, <1>2, <1>3, <1>4, <1>5, <1>6, <1>7, <1>8, <1>9, <1>10, <1>11, <1>12
     DEF CreationStep

(* Token requests keep them.                                               *)
LEMMA VendTypeStep ==
  ASSUME TypeInv, NEW v \in Vends,
         \/ v \in ById /\ AskById(v)
         \/ v \in BySecret /\ AskBySecret(v)
         \/ VendStep(v)
  PROVE  TypeInv'
<1> USE LifecycleAssumption
    DEF TypeInv, TypeOK, PromiseTypeOK, RequestLocals, Vends, Requests,
        Answered, ByIdPoints, RevokePoints, UsePoints, promiseVars, agentVars,
        observations
<1>1. CASE v \in ById /\ AskById(v)
  <2>1. PICK a \in Creations : a \in known /\ Receive(v, a, "readSecret")
    BY <1>1 DEF AskById
  <2>2. Received(v, a, "readSecret")
    BY <2>1, ReceiveLemma
  <2> QED
    BY <1>1, <2>2 DEF AskById, Received
<1>2. CASE v \in BySecret /\ AskBySecret(v)
  <2>1. PICK a \in Creations : Receive(v, a, "lookCache")
    BY <1>2 DEF AskBySecret
  <2>2. Received(v, a, "lookCache")
    BY <2>1, ReceiveLemma
  <2> QED
    BY <1>2, <2>2 DEF AskBySecret, Received
<1>3. CASE ReadSecret(v)
  <2>1. Moved(v, "lookCache") \/ Moved(v, "notFound")
    BY <1>3, MoveLemma DEF ReadSecret
  <2> QED
    BY <1>3, <2>1 DEF ReadSecret, Moved
<1>4. CASE LookCache(v)
  <2>1. Moved(v, "vended") \/ Moved(v, "askIdp")
    BY <1>4, MoveLemma DEF LookCache
  <2> QED
    BY <1>4, <2>1 DEF LookCache, Moved
<1>5. CASE Vend(v)
  <2>1. Moved(v, "vended")
    BY <1>5, MoveLemma DEF Vend
  <2>2. request[v].on \in Instances /\ request[v].agent \in Creations
    BY <1>5 DEF Vend
  <2> QED
    BY <1>5, <2>1, <2>2 DEF Vend, Moved
<1>6. CASE VendFails(v)
  <2>1. Moved(v, "failed")
    BY <1>6, MoveLemma DEF VendFails
  <2> QED
    BY <1>6, <2>1 DEF VendFails, Moved
<1> QED
  BY <1>1, <1>2, <1>3, <1>4, <1>5, <1>6 DEF VendStep

(* Revocations keep them.                                                  *)
LEMMA RevokeTypeStep ==
  ASSUME TypeInv, NEW d \in Revokes, RevokeStep(d)
  PROVE  TypeInv'
<1> USE LifecycleAssumption
    DEF TypeInv, TypeOK, PromiseTypeOK, RequestLocals, Vends, Requests,
        Answered, ByIdPoints, RevokePoints, UsePoints, promiseVars, agentVars,
        observations
<1>1. CASE AskRevoke(d)
  <2>1. PICK a \in Creations : AskDelete(a) /\ Receive(d, a, "atIdp")
    BY <1>1 DEF AskRevoke
  <2>2. Received(d, a, "atIdp")
    BY <2>1, ReceiveLemma
  <2> QED
    BY <1>1, <2>1, <2>2 DEF AskRevoke, AskDelete, Received
<1>2. CASE RevokedAtIdp(d)
  <2>1. Moved(d, "forget") /\ request[d].agent \in Creations
    BY <1>2, MoveLemma DEF RevokedAtIdp
  <2> QED
    BY <1>2, <2>1 DEF RevokedAtIdp, Confirm, Moved
<1>3. CASE Forget(d)
  <2>1. Moved(d, "forgotten")
    BY <1>3, MoveLemma DEF Forget
  <2> QED
    BY <1>3, <2>1 DEF Forget, Moved
<1>4. CASE Revoked(d)
  <2>1. Moved(d, "revoked") /\ request[d].agent \in Creations
    BY <1>4, MoveLemma DEF Revoked
  <2> QED
    BY <1>4, <2>1 DEF Revoked, Moved
<1>5. CASE RevokeFails(d)
  <2>1. Moved(d, "failed")
    BY <1>5, MoveLemma DEF RevokeFails
  <2> QED
    BY <1>5, <2>1 DEF RevokeFails, Moved
<1> QED
  BY <1>1, <1>2, <1>3, <1>4, <1>5 DEF RevokeStep

(* What the death of an instance does to the requests.                     *)
LEMMA CrashedRequests ==
  ASSUME TypeInv, NEW i \in Instances, Crash(i)
  PROVE  /\ request' \in [Requests -> Records]
         /\ \A r \in Requests :
              \/ request'[r] = request[r]
              \/ /\ request'[r].at = "failed" /\ request'[r].on = None
                 /\ request'[r].agent = request[r].agent
                 /\ request'[r].late = request[r].late
                 /\ request[r].at # "idle"
<1> USE LifecycleAssumption DEF TypeInv, TypeOK, RequestLocals
<1> DEFINE lost(r) == [request[r] EXCEPT !.at = "failed", !.on = None]
<1>1. ASSUME NEW r \in Requests
      PROVE  /\ lost(r) \in Records
             /\ lost(r).at = "failed" /\ lost(r).on = None
             /\ lost(r).agent = request[r].agent
             /\ lost(r).late = request[r].late
  <2>1. request[r] \in Records
    OBVIOUS
  <2> QED
    BY <2>1 DEF Records
<1>2. request' = [r \in Requests |-> IF request[r].on = i THEN lost(r)
                                     ELSE request[r]]
  BY Zenon DEF Crash
<1> HIDE DEF lost
<1>3. request' \in [Requests -> Records]
  BY <1>1, <1>2
<1>4. \A r \in Requests : request[r].on = i => request[r].at # "idle"
  BY DEF Answered
<1> QED
  BY <1>1, <1>2, <1>3, <1>4

(* Calls with a token, the expiry of cached ones and the death of an       *)
(* instance keep them.                                                     *)
LEMMA OtherTypeStep ==
  ASSUME TypeInv,
         \/ \E u \in Uses : Use(u) \/ CheckActive(u)
         \/ \E i \in Instances, a \in Creations : TokenExpires(i, a)
         \/ \E i \in Instances : Crash(i)
         \/ UNCHANGED vars
  PROVE  TypeInv'
<1> USE LifecycleAssumption
    DEF TypeInv, TypeOK, PromiseTypeOK, RequestLocals, Vends, Requests,
        Answered, ByIdPoints, RevokePoints, UsePoints, promiseVars, agentVars,
        observations
<1>1. ASSUME NEW u \in Uses, Use(u)
      PROVE  TypeInv'
  <2>1. PICK a \in Creations : Receive(u, a, "check")
    BY <1>1 DEF Use
  <2>2. Received(u, a, "check")
    BY <2>1, ReceiveLemma
  <2> QED
    BY <1>1, <2>2 DEF Use, Received
<1>2. ASSUME NEW u \in Uses, CheckActive(u)
      PROVE  TypeInv'
  <2>1. Moved(u, "forwarded") \/ Moved(u, "refused")
    BY <1>2, MoveLemma DEF CheckActive
  <2> QED
    BY <1>2, <2>1 DEF CheckActive, Moved
<1>3. ASSUME NEW i \in Instances, NEW a \in Creations, TokenExpires(i, a)
      PROVE  TypeInv'
  BY <1>3 DEF TokenExpires
<1>4. ASSUME NEW i \in Instances, Crash(i)
      PROVE  TypeInv'
  <2>1. request' \in [Requests -> Records]
    BY <1>4, CrashedRequests
  <2>2. \A r \in Requests :
          \/ request'[r] = request[r]
          \/ /\ request'[r].at = "failed" /\ request'[r].on = None
             /\ request'[r].agent = request[r].agent
             /\ request[r].at # "idle"
    BY <1>4, CrashedRequests
  <2>3. \A r \in Requests : RequestLocals(r)'
    BY <2>2
  <2>4. /\ outcome' \in [Creations -> {"idle", "running", "created", "failed"}]
        /\ UNCHANGED <<client, visible, deleting, deleted>>
    BY <1>4 DEF Crash, Die
  <2>5. /\ task' \in [Creations -> {"idle", "refused", "creating", "saving",
                                    "saved", "done"}]
        /\ entry' \in [Creations -> {"none", "pending", "active", "shown",
                                     "failed"}]
        /\ cache' \in [Instances -> SUBSET Creations]
        /\ UNCHANGED <<home, stored, settled, reveals, known, tokens, revoked>>
    BY <1>4 DEF Crash
  <2>6. crashes' \in 0..MaxCrashes
    <3>1. crashes < MaxCrashes /\ crashes' = crashes + 1
      BY <1>4, Zenon DEF Crash
    <3> QED
      BY <3>1
  <2> QED
    BY <2>1, <2>3, <2>4, <2>5, <2>6
<1>5. CASE UNCHANGED vars
  BY <1>5 DEF vars
<1> QED
  BY <1>1, <1>2, <1>3, <1>4, <1>5

(* Every step preserves the type invariant.                                *)
LEMMA TypeStep == TypeInv /\ [Next]_vars => TypeInv'
BY CreationTypeStep, VendTypeStep, RevokeTypeStep, OtherTypeStep
   DEF Next, Vends, Finished

(* So it holds in every reachable state.                                   *)
THEOREM TypeInvariant == Spec => []TypeInv
BY TypeInit, TypeStep, PTL DEF Spec

(* Every variable has its type, whatever overlaps, fails or dies.          *)
THEOREM TypeCorrect == Spec => []TypeOK
<1>1. TypeInv => TypeOK
  BY DEF TypeInv
<1> QED
  BY <1>1, TypeInvariant, PTL

----------------------------------------------------------------------------
(* Safety.  The invariant ties the copies of an agent's life together: its *)
(* task, its outcome at the provider, its client, its record and its entry.*)

(* Where the task stands says what the provider has done; the record is    *)
(* older than the news of it; and only a revocation takes client and       *)
(* record away.                                                            *)
Provisioned(a) ==
  /\ task[a] = "creating" <=> outcome[a] = "running"
  /\ task[a] \in {"saving", "saved"} => outcome[a] = "created"
  /\ a \in known => task[a] \in {"saved", "done"} /\ outcome[a] = "created"
  /\ a \in stored \cup deleting => a \in known
  /\ outcome[a] = "created" /\ a \notin deleting => client[a] = "usable"
  /\ task[a] = "saved" /\ a \notin deleting => a \in stored

(* An entry becomes active once, at the end of its task, and stops being   *)
(* active with the first answer that carries the secret.                   *)
Disclosure(a) ==
  /\ task[a] \in {"idle", "refused"} => entry[a] = "none"
  /\ entry[a] \in {"active", "shown"} =>
       task[a] = "done" /\ (a \notin deleting => a \in stored)
  /\ reveals[a] \in {0, 1}
  /\ reveals[a] = 1 => task[a] = "done" /\ entry[a] \in {"shown", "none"}

(* A revocation leaves nothing of what it has passed, but for a client     *)
(* that the provider's directory did not know when it came.                *)
Revocation(d) ==
  /\ request[d].at # "idle" => request[d].agent \in deleting
  /\ d \in settled =>
       request[d].at # "idle" /\ request[d].agent \in visible
  /\ d \in settled /\ request[d].at \in {"forget", "forgotten", "revoked"} =>
       client[request[d].agent] = "gone"
  /\ request[d].at \in {"forgotten", "revoked"} =>
       request[d].agent \notin stored

(* A request that came after the revocation was answered is about an agent *)
(* without a record, and stops where it looks for the record.              *)
Lateness(r) ==
  request[r].late =>
    /\ request[r].agent \in revoked
    /\ r \in ById => request[r].at \in {"readSecret", "notFound", "failed"}
    /\ r \in Uses => request[r].at \in {"check", "refused", "failed"}

SafetyInv ==
  /\ \A a \in Creations : Provisioned(a) /\ Disclosure(a)
  /\ \A d \in Revokes : Revocation(d)
  /\ \A r \in Requests : Lateness(r)
  /\ \A a \in revoked : a \in deleting \ stored

(* Nothing has happened at first.                                          *)
LEMMA SafetyInit == Init => SafetyInv
BY LifecycleAssumption
   DEF Init, PromiseInit, SafetyInv, Provisioned, Disclosure, Revocation,
       Lateness, Requests, Vends

(* POST /agents, its task and the polls for its outcome.                   *)
LEMMA CreationSafetyStep ==
  ASSUME TypeInv, SafetyInv, NEW a \in Creations, CreationStep(a) \/ Poll(a)
  PROVE  SafetyInv'
<1> USE DEF TypeInv, TypeOK, PromiseTypeOK, RequestLocals, Mark, SafetyInv,
        Provisioned, Disclosure, Revocation, Lateness, Requests
<1>1. CASE Post(a)
  BY <1>1 DEF Post, Start, observations
<1>2. CASE PostRefused(a)
  BY <1>2 DEF PostRefused, promiseVars, observations
<1>3. CASE Creating(a)
  BY <1>3 DEF Creating, Appear, Made, agentVars, observations
<1>4. CASE Created(a)
  BY <1>4 DEF Created, Succeed, observations
<1>5. CASE NotCreated(a)
  BY <1>5 DEF NotCreated, GiveUp, Made, observations
<1>6. CASE Save(a)
  BY <1>6 DEF Save, promiseVars
<1>7. CASE Saved(a)
  BY <1>7 DEF Saved, promiseVars, observations
<1>8. CASE SaveFails(a)
  BY <1>8 DEF SaveFails, promiseVars, observations
<1>9. CASE EntryExpires(a)
  BY <1>9 DEF EntryExpires, promiseVars, observations
<1>10. CASE GoneAtIdp(a)
  BY <1>10 DEF GoneAtIdp, Vanish, agentVars, observations
<1>11. CASE Poll(a)
  BY <1>11 DEF Poll, Consume, promiseVars
<1>12. CASE CaughtUp(a)
  BY <1>12 DEF CaughtUp, CatchUp, agentVars, observations
<1> QED
  BY <1>1, <1>2, <1>3, <1>4, <1>5, <1>6, <1>7, <1>8, <1>9, <1>10, <1>11, <1>12
     DEF CreationStep

(* Token requests: a late one by id finds no record.                       *)
LEMMA VendSafetyStep ==
  ASSUME TypeInv, SafetyInv, NEW v \in Vends,
         \/ v \in ById /\ AskById(v)
         \/ v \in BySecret /\ AskBySecret(v)
         \/ VendStep(v)
  PROVE  SafetyInv'
<1> USE LifecycleAssumption
    DEF TypeInv, TypeOK, PromiseTypeOK, RequestLocals, Vends, Requests,
        SafetyInv, Provisioned, Disclosure, Revocation, Lateness, promiseVars,
        agentVars, observations
<1>1. CASE v \in ById /\ AskById(v)
  <2>1. PICK a \in Creations : a \in known /\ Receive(v, a, "readSecret")
    BY <1>1 DEF AskById
  <2>2. Received(v, a, "readSecret")
    BY <2>1, ReceiveLemma
  <2>3. \A r \in Requests : Lateness(r)'
    BY <1>1, <2>2 DEF AskById, Received
  <2>4. \A d \in Revokes : Revocation(d)'
    BY <1>1, <2>2 DEF AskById, Received
  <2> QED
    BY <1>1, <2>3, <2>4 DEF AskById
<1>2. CASE v \in BySecret /\ AskBySecret(v)
  <2>1. PICK a \in Creations : Receive(v, a, "lookCache")
    BY <1>2 DEF AskBySecret
  <2>2. Received(v, a, "lookCache")
    BY <2>1, ReceiveLemma
  <2>3. \A r \in Requests : Lateness(r)'
    BY <1>2, <2>2 DEF AskBySecret, Received
  <2>4. \A d \in Revokes : Revocation(d)'
    BY <1>2, <2>2 DEF AskBySecret, Received
  <2> QED
    BY <1>2, <2>3, <2>4 DEF AskBySecret
<1>3. CASE ReadSecret(v)
  <2>1. \/ Moved(v, "lookCache") /\ request[v].agent \in stored
        \/ Moved(v, "notFound")
    BY <1>3, MoveLemma DEF ReadSecret
  <2> QED
    BY <1>3, <2>1 DEF ReadSecret, Moved
<1>4. CASE LookCache(v)
  <2>1. Moved(v, "vended") \/ Moved(v, "askIdp")
    BY <1>4, MoveLemma DEF LookCache
  <2> QED
    BY <1>4, <2>1 DEF LookCache, Moved
<1>5. CASE Vend(v)
  <2>1. Moved(v, "vended")
    BY <1>5, MoveLemma DEF Vend
  <2> QED
    BY <1>5, <2>1 DEF Vend, Moved
<1>6. CASE VendFails(v)
  <2>1. Moved(v, "failed")
    BY <1>6, MoveLemma DEF VendFails
  <2> QED
    BY <1>6, <2>1 DEF VendFails, Moved
<1> QED
  BY <1>1, <1>2, <1>3, <1>4, <1>5, <1>6 DEF VendStep

(* A revocation that comes after the agent was listed finds its task past  *)
(* saving, so that the record it removes is not written again.             *)
LEMMA RevokeSafetyStep ==
  ASSUME TypeInv, SafetyInv, NEW d \in Revokes, RevokeStep(d)
  PROVE  SafetyInv'
<1> USE LifecycleAssumption
    DEF TypeInv, TypeOK, PromiseTypeOK, RequestLocals, Vends, Requests,
        SafetyInv, Provisioned, Disclosure, Revocation, Lateness, promiseVars,
        agentVars, observations
<1>1. CASE AskRevoke(d)
  <2>1. PICK a \in Creations :
          /\ a \in known /\ AskDelete(a) /\ Receive(d, a, "atIdp")
          /\ settled' = IF a \in visible THEN settled \cup {d} ELSE settled
    BY <1>1 DEF AskRevoke
  <2>2. Received(d, a, "atIdp")
    BY <2>1, ReceiveLemma
  <2>3. \A r \in Requests : Lateness(r)'
    BY <1>1, <2>1, <2>2 DEF AskRevoke, AskDelete, Received
  <2>4. ASSUME NEW q \in Revokes PROVE Revocation(q)'
    <3>1. CASE q = d
      <4>1. /\ request'[d].at = "atIdp" /\ request'[d].agent = a
            /\ request[d].at = "idle" /\ d \notin settled
            /\ a \in deleting' /\ visible' = visible
        BY <1>1, <2>1, <2>2 DEF AskRevoke, AskDelete, Received
      <4> QED
        BY <2>1, <3>1, <4>1
    <3>2. CASE q # d
      <4>1. /\ request'[q] = request[q] /\ (q \in settled' <=> q \in settled)
            /\ deleting \subseteq deleting'
            /\ UNCHANGED <<client, visible, stored>>
        BY <1>1, <2>1, <2>2, <3>2 DEF AskRevoke, AskDelete, Received
      <4> QED
        BY <4>1
    <3> QED
      BY <3>1, <3>2
  <2> QED
    BY <1>1, <2>1, <2>3, <2>4 DEF AskRevoke, AskDelete
<1>2. CASE RevokedAtIdp(d)
  <2>1. Moved(d, "forget") /\ request[d].agent \in Creations
    BY <1>2, MoveLemma DEF RevokedAtIdp, Answered
  <2> QED
    BY <1>2, <2>1 DEF RevokedAtIdp, Confirm, Moved
<1>3. CASE Forget(d)
  <2>1. Moved(d, "forgotten") /\ request[d].agent \in Creations
    BY <1>3, MoveLemma DEF Forget, Answered
  <2> QED
    BY <1>3, <2>1 DEF Forget, Moved
<1>4. CASE Revoked(d)
  <2>1. Moved(d, "revoked") /\ request[d].agent \in Creations
    BY <1>4, MoveLemma DEF Revoked, Answered
  <2> QED
    BY <1>4, <2>1 DEF Revoked, Moved
<1>5. CASE RevokeFails(d)
  <2>1. Moved(d, "failed")
    BY <1>5, MoveLemma DEF RevokeFails
  <2> QED
    BY <1>5, <2>1 DEF RevokeFails, Moved
<1> QED
  BY <1>1, <1>2, <1>3, <1>4, <1>5 DEF RevokeStep

(* The guard's check, the expiry of a cached token and a crash.            *)
LEMMA OtherSafetyStep ==
  ASSUME TypeInv, SafetyInv,
         \/ \E u \in Uses : Use(u) \/ CheckActive(u)
         \/ \E i \in Instances, a \in Creations : TokenExpires(i, a)
         \/ \E i \in Instances : Crash(i)
         \/ UNCHANGED vars
  PROVE  SafetyInv'
<1> USE LifecycleAssumption
    DEF TypeInv, TypeOK, PromiseTypeOK, RequestLocals, Vends, Requests,
        SafetyInv, Provisioned, Disclosure, Revocation, Lateness, promiseVars,
        agentVars, observations
<1>1. ASSUME NEW u \in Uses, Use(u)
      PROVE  SafetyInv'
  <2>1. PICK a \in Creations : Receive(u, a, "check")
    BY <1>1 DEF Use
  <2>2. Received(u, a, "check")
    BY <2>1, ReceiveLemma
  <2>3. \A r \in Requests : Lateness(r)'
    BY <1>1, <2>2 DEF Use, Received
  <2>4. \A d \in Revokes : Revocation(d)'
    BY <1>1, <2>2 DEF Use, Received
  <2> QED
    BY <1>1, <2>3, <2>4 DEF Use
<1>2. ASSUME NEW u \in Uses, CheckActive(u)
      PROVE  SafetyInv'
  <2>1. \/ Moved(u, "forwarded") /\ request[u].agent \in stored
        \/ Moved(u, "refused")
    BY <1>2, MoveLemma DEF CheckActive
  <2> QED
    BY <1>2, <2>1 DEF CheckActive, Moved
<1>3. ASSUME NEW i \in Instances, NEW a \in Creations, TokenExpires(i, a)
      PROVE  SafetyInv'
  BY <1>3 DEF TokenExpires
<1>4. ASSUME NEW i \in Instances, Crash(i)
      PROVE  SafetyInv'
  <2>1. /\ UNCHANGED <<client, visible, deleting, deleted, stored, settled,
                       reveals, known, tokens, revoked>>
        /\ \A a \in Creations :
             \/ /\ task'[a] = "done" /\ entry'[a] = "none"
                /\ outcome'[a] = IF outcome[a] = "running" THEN "failed"
                                 ELSE outcome[a]
             \/ UNCHANGED <<task[a], entry[a], outcome[a]>>
    BY <1>4 DEF Crash, Die
  <2>2. \A r \in Requests :
          \/ request'[r] = request[r]
          \/ /\ request'[r].at = "failed"
             /\ request'[r].agent = request[r].agent
             /\ request'[r].late = request[r].late
             /\ request[r].at # "idle"
    BY <1>4, CrashedRequests
  <2> QED
    BY <2>1, <2>2
<1>5. CASE UNCHANGED vars
  BY <1>5 DEF vars
<1> QED
  BY <1>1, <1>2, <1>3, <1>4, <1>5

(* Every step preserves the invariant.                                     *)
LEMMA SafetyStep == TypeInv /\ SafetyInv /\ [Next]_vars => SafetyInv'
BY CreationSafetyStep, VendSafetyStep, RevokeSafetyStep, OtherSafetyStep
   DEF Next, Vends, Finished

(* So it holds in every reachable state.                                   *)
THEOREM SafetyInvariant == Spec => []SafetyInv
BY TypeInvariant, SafetyInit, SafetyStep, PTL DEF Spec

(* However many poll, and whatever expires or dies meanwhile, one answer   *)
(* at most carries an agent's secret.                                      *)
THEOREM SecretShownOnce == Spec => []OneTimeReveal
<1>1. SafetyInv => OneTimeReveal
  <2> SUFFICES ASSUME SafetyInv, NEW a \in Creations
               PROVE  reveals[a] <= 1
    BY DEF OneTimeReveal
  <2>1. reveals[a] \in {0, 1}
    BY DEF SafetyInv, Disclosure
  <2> QED
    BY <2>1
<1> QED
  BY <1>1, SafetyInvariant, PTL

(* An agent reported active has its record, and one with a record its      *)
(* client, until a revocation begins.                                      *)
THEOREM ActiveMeansUsable == Spec => []ActiveIsUsable
<1>1. TypeInv /\ SafetyInv => ActiveIsUsable
  BY DEF SafetyInv, Disclosure, Provisioned, ActiveIsUsable
<1> QED
  BY <1>1, TypeInvariant, SafetyInvariant, PTL

(* Nothing in flight brings a revoked agent's record back, nor its client, *)
(* which has gone where the provider could find it.                        *)
THEOREM RevocationIsFinal == Spec => []RevokedIsGone
<1>1. SafetyInv => RevokedIsGone
  BY DEF SafetyInv, Revocation, RevokedIsGone
<1> QED
  BY <1>1, SafetyInvariant, PTL

(* After a revocation was answered no token is vended by id, and the guard *)
(* refuses the tokens that were vended before.                             *)
THEOREM RevocationIsEffective == Spec => []RevokedIsUseless
<1>1. SafetyInv => RevokedIsUseless
  BY DEF SafetyInv, Lateness, RevokedIsUseless, Requests, Vends
<1> QED
  BY <1>1, SafetyInvariant, PTL
=============================================================================
