------------------------ MODULE ServerRegistryProofs ------------------------
(***************************************************************************)
(* Theorems about the server registry, for any number of proxy instances,  *)
(* servers, registrations, handlers and restarts.                          *)
(***************************************************************************)
EXTENDS ServerRegistry, TLAPS

(* The points at which a POST /servers handler waits for the store.        *)
Adding == {"persisting", "persisted"}

(* Where handlers of each kind may stand; a handler under way serves a     *)
(* request, on an instance that is up.                                     *)
WriterPoints == Writing \cup {"idle", "added", "rejected", "removed",
                              "notFound", "failed"}
CallPoints == {"idle", "unknown", "unavailable", "reading", "forwarded",
               "refused", "failed"}

HandlerLocals(h) ==
  /\ h \in Writers => pc[h] \in WriterPoints
  /\ h \in Calls => pc[h] \in CallPoints
  /\ pc[h] \in InFlight =>
       request[h] \in Request /\ phase[request[h].on] = "up"
  /\ pc[h] \in {"deleting", "deleted"} => request[h].config = None

(* What an instance has loaded so far.                                     *)
InstanceLocals(i) ==
  /\ phase[i] = "scan" => registry[i] = Seed
  /\ phase[i] # "load" => toLoad[i] = {}
  /\ \A id \in toLoad[i] : Seed[id] = None /\ registry[i][id] = None

TypeInv ==
  /\ TypeOK
  /\ \A h \in Handlers : HandlerLocals(h)
  /\ \A i \in Instances : InstanceLocals(i)

----------------------------------------------------------------------------
(* Types                                                                   *)

(* The initial state satisfies the type invariant.                         *)
LEMMA TypeInit == Init => TypeInv
BY RegistryAssumption
   DEF Init, TypeInv, TypeOK, HandlerLocals, InstanceLocals, Servers, Unknown,
       InFlight, Writing, WriterPoints, CallPoints, Handlers

(* What an instance does by itself keeps the types.                        *)
LEMMA InstanceTypeStep ==
  ASSUME TypeInv, NEW i \in Instances,
         \/ Start(i) \/ Scan(i) \/ Load(i) \/ Listen(i) \/ LoadFails(i)
         \/ Crash(i)
  PROVE  TypeInv'
<1> USE RegistryAssumption
    DEF TypeInv, TypeOK, HandlerLocals, InstanceLocals, Servers, Handlers,
        InFlight, Writing, WriterPoints, CallPoints, handlerVars, observations
<1>1. CASE Start(i)
  <2>1. TypeOK'
    BY <1>1 DEF Start
  <2>2. /\ \A h \in Handlers : HandlerLocals(h)'
        /\ \A j \in Instances : InstanceLocals(j)'
    BY <1>1 DEF Start
  <2> QED
    BY <2>1, <2>2
<1>2. CASE Scan(i)
  BY <1>2 DEF Scan
<1>3. CASE Load(i)
  BY <1>3 DEF Load
<1>4. CASE Listen(i)
  BY <1>4 DEF Listen
<1>5. CASE LoadFails(i)
  BY <1>5 DEF LoadFails
<1>6. CASE Crash(i)
  BY <1>6 DEF Crash
<1> QED
  BY <1>1, <1>2, <1>3, <1>4, <1>5, <1>6

(* POST and DELETE /servers keep them.                                     *)
LEMMA WriteTypeStep ==
  ASSUME TypeInv, NEW w \in Writers, Write(w)
  PROVE  TypeInv'
<1> USE RegistryAssumption
    DEF TypeInv, TypeOK, HandlerLocals, InstanceLocals, Servers, Handlers,
        InFlight, Writing, WriterPoints, CallPoints, instanceVars,
        observations, Request, Unknown
<1>1. CASE Add(w)
  BY <1>1 DEF Add, Begin, Busy
<1>2. CASE Reject(w)
  BY <1>2 DEF Reject
<1>3. CASE Persist(w)
  BY <1>3 DEF Persist
<1>4. CASE Added(w)
  BY <1>4 DEF Added, Answer, Answered
<1>5. CASE AddFails(w)
  BY <1>5 DEF AddFails
<1>6. CASE Remove(w)
  <2>1. CASE /\ pc' = [pc EXCEPT ![w] = "notFound"]
             /\ UNCHANGED <<registry, request, word, contested, disturbed>>
    BY <1>6, <2>1 DEF Remove
  <2>2. ASSUME NEW i \in Instances, NEW id \in Ids,
               registry' = [registry EXCEPT ![i][id] = None],
               pc' = [pc EXCEPT ![w] = "deleting"],
               phase[i] = "up", Begin(w, i, id, None)
        PROVE  TypeInv'
    BY <1>6, <2>2 DEF Remove, Begin, Busy
  <2> QED
    BY <1>6, <2>1, <2>2 DEF Remove
<1>7. CASE Delete(w)
  BY <1>7 DEF Delete
<1>8. CASE Removed(w)
  BY <1>8 DEF Removed, Answer, Answered
<1>9. CASE RemoveFails(w)
  BY <1>9 DEF RemoveFails
<1> QED
  BY <1>1, <1>2, <1>3, <1>4, <1>5, <1>6, <1>7, <1>8, <1>9 DEF Write

(* tools/call keeps them.                                                  *)
LEMMA CallTypeStep ==
  ASSUME TypeInv, NEW c \in Calls, Arrive(c) \/ Authorize(c)
  PROVE  TypeInv'
<1> USE RegistryAssumption
    DEF TypeInv, TypeOK, HandlerLocals, InstanceLocals, Servers, Handlers,
        InFlight, Writing, WriterPoints, CallPoints, instanceVars,
        observations, Request
<1>1. CASE Arrive(c)
  BY <1>1 DEF Arrive, Busy
<1>2. CASE Authorize(c)
  BY <1>2 DEF Authorize
<1> QED
  BY <1>1, <1>2

(* Every step preserves the type invariant.                                *)
LEMMA TypeStep == TypeInv /\ [Next]_vars => TypeInv'
<1>1. ASSUME TypeInv, UNCHANGED vars
      PROVE  TypeInv'
  BY <1>1 DEF vars, instanceVars, handlerVars, observations, TypeInv, TypeOK,
              HandlerLocals, InstanceLocals
<1> QED
  BY <1>1, InstanceTypeStep, WriteTypeStep, CallTypeStep DEF Next, Finished

(* So it holds in every reachable state.                                   *)
THEOREM TypeInvariant == Spec => []TypeInv
BY TypeInit, TypeStep, PTL DEF Spec

(* Every variable has its type, however the handlers overlap and fail.     *)
THEOREM TypeCorrect == Spec => []TypeOK
<1>1. TypeInv => TypeOK
  BY DEF TypeInv
<1> QED
  BY <1>1, TypeInvariant, PTL

----------------------------------------------------------------------------
(* The guard's policy is behind the registry only while a POST of that     *)
(* server is under way on that instance.                                   *)
InSync(i, id) ==
  /\ phase[i] = "up"
  /\ registry[i][id] # None
  /\ \A w \in Writers :
       pc[w] \in Adding => request[w].on # i \/ request[w].id # id
  => policy[i][id] = registry[i][id]

(* An undisturbed call that is reading its body: its target is still       *)
(* registered, and nobody is writing it.                                   *)
Undisturbed(c) ==
  pc[c] = "reading" /\ c \notin disturbed =>
    /\ target[c] # None
    /\ registry[request[c].on][request[c].id] = target[c]
    /\ \A w \in Writers :
         pc[w] \in Writing =>
           request[w].on # request[c].on \/ request[w].id # request[c].id

Forwarded(c) ==
  pc[c] = "forwarded" =>
    /\ checked[c] # None
    /\ c \notin disturbed => checked[c] = target[c]

(* A writer that overlaps no other writer of its server has the registry,  *)
(* and once the store has taken it the store too, to itself.               *)
Alone(w) ==
  pc[w] \in Writing /\ w \notin contested =>
    /\ \A v \in Writers \ {w} :
         pc[v] \in Writing => request[v].id # request[w].id
    /\ registry[request[w].on][request[w].id] = request[w].config
    /\ pc[w] \in {"persisted", "deleted"} =>
         stored[request[w].id] = request[w].config

(* While an answer stands nobody writes its server, the store holds what   *)
(* it said, and an instance that is loading will come to hold it.          *)
Settled(id) ==
  word[id].answered =>
    /\ \A w \in Writers : pc[w] \in Writing => request[w].id # id
    /\ stored[id] = word[id].config
    /\ Seed[id] = None =>
         \A i \in heard[id] :
           \/ phase[i] = "up" \/ (phase[i] = "load" /\ id \notin toLoad[i])
           => registry[i][id] = word[id].config

SafetyInv ==
  /\ \A i \in Instances, id \in Ids : InSync(i, id)
  /\ \A c \in Calls : Undisturbed(c) /\ Forwarded(c)
  /\ \A w \in Writers : Alone(w)
  /\ \A id \in Ids : Settled(id)

(* Nothing has happened at first.                                          *)
LEMMA SafetyInit == Init => SafetyInv
BY DEF Init, SafetyInv, InSync, Undisturbed, Forwarded, Alone, Settled,
       Unknown, Adding, Writing, Handlers

(* Start-up takes what stands; a crash takes only what its own handlers    *)
(* had to themselves.                                                      *)
LEMMA InstanceSafetyStep ==
  ASSUME TypeInv, SafetyInv, NEW i \in Instances,
         \/ Start(i) \/ Scan(i) \/ Load(i) \/ Listen(i) \/ LoadFails(i)
         \/ Crash(i)
  PROVE  SafetyInv'
<1> USE RegistryAssumption
    DEF TypeInv, TypeOK, HandlerLocals, InstanceLocals, Servers, Handlers,
        InFlight, Writing, WriterPoints, CallPoints, Adding, handlerVars,
        observations, Request, SafetyInv, InSync, Undisturbed, Forwarded,
        Alone, Settled
<1>1. CASE Start(i)
  BY <1>1 DEF Start
<1>2. CASE Scan(i)
  BY <1>2 DEF Scan
<1>3. CASE Load(i)
  BY <1>3 DEF Load
<1>4. CASE Listen(i)
  BY <1>4 DEF Listen
<1>5. CASE LoadFails(i)
  BY <1>5 DEF LoadFails
<1>6. CASE Crash(i)
  BY <1>6 DEF Crash
<1> QED
  BY <1>1, <1>2, <1>3, <1>4, <1>5, <1>6

(* What a writer that is not adding may do to the registry while it leaves *)
(* the guards alone: remove a server, or begin to add it.                  *)
LEMMA InSyncKept ==
  ASSUME \A j \in Instances, k \in Ids : InSync(j, k),
         NEW w \in Writers, pc[w] \notin Adding,
         UNCHANGED <<phase, policy>>,
         \A v \in Writers \ {w} : pc'[v] = pc[v] /\ request'[v] = request[v],
         \A j \in Instances, k \in Ids :
           \/ registry'[j][k] = registry[j][k]
           \/ registry'[j][k] = None
           \/ pc'[w] \in Adding /\ request'[w].on = j /\ request'[w].id = k
  PROVE  \A j \in Instances, k \in Ids : InSync(j, k)'
BY DEF InSync

(* POST and DELETE /servers.                                               *)
LEMMA WriteSafetyStep ==
  ASSUME TypeInv, SafetyInv, NEW w \in Writers, Write(w)
  PROVE  SafetyInv'
<1> USE RegistryAssumption
    DEF TypeInv, TypeOK, HandlerLocals, InstanceLocals, Servers, Handlers,
        InFlight, Writing, WriterPoints, CallPoints, Adding, instanceVars,
        observations, Request, Unknown, SafetyInv, InSync, Undisturbed,
        Forwarded, Alone, Settled
<1>1. CASE Add(w)
  <2>1. PICK i \in Instances, id \in Ids, config \in Configs :
          /\ pc[w] = "idle" /\ phase[i] = "up"
          /\ registry' = [registry EXCEPT ![i][id] = config]
          /\ pc' = [pc EXCEPT ![w] = "persisting"]
          /\ Begin(w, i, id, config)
    BY <1>1 DEF Add
  <2>2. \A j \in Instances, k \in Ids : InSync(j, k)'
    <3>1. /\ UNCHANGED <<phase, policy>>
          /\ \A v \in Writers \ {w} :
               pc'[v] = pc[v] /\ request'[v] = request[v]
          /\ pc[w] = "idle" /\ pc'[w] = "persisting"
          /\ request'[w].on = i /\ request'[w].id = id
          /\ \A j \in Instances, k \in Ids :
               (j = i /\ k = id) \/ registry'[j][k] = registry[j][k]
      BY <1>1, <2>1 DEF Add, Begin
    <3>2. pc'[w] \in Adding /\ pc[w] \notin Adding
      BY <3>1
    <3>3. \A j \in Instances, k \in Ids : InSync(j, k)
      OBVIOUS
    <3> HIDE DEF TypeInv, SafetyInv, InSync, Adding
    <3> QED
      BY <3>1, <3>2, <3>3, InSyncKept
  <2>3. \A c \in Calls : (Undisturbed(c) /\ Forwarded(c))'
    BY <1>1, <2>1 DEF Add, Begin, Busy
  <2>4. \A v \in Writers : Alone(v)'
    BY <1>1, <2>1 DEF Add, Begin, Busy
  <2>5. \A k \in Ids : Settled(k)'
    BY <1>1, <2>1 DEF Add, Begin, Busy
  <2> QED
    BY <2>2, <2>3, <2>4, <2>5
<1>2. CASE Reject(w)
  BY <1>2 DEF Reject
<1>3. CASE Persist(w)
  BY <1>3 DEF Persist
<1>4. CASE Added(w)
  BY <1>4 DEF Added, Answer, Answered
<1>5. CASE AddFails(w)
  BY <1>5 DEF AddFails
<1>6. CASE Remove(w)
  <2>1. CASE /\ pc' = [pc EXCEPT ![w] = "notFound"]
             /\ UNCHANGED <<registry, request, word, contested, disturbed>>
    BY <1>6, <2>1 DEF Remove
  <2>2. ASSUME NEW i \in Instances, NEW id \in Ids,
               pc[w] = "idle", phase[i] = "up",
               registry' = [registry EXCEPT ![i][id] = None],
               pc' = [pc EXCEPT ![w] = "deleting"],
               Begin(w, i, id, None)
        PROVE  SafetyInv'
    <3>1. \A j \in Instances, k \in Ids : InSync(j, k)'
      <4>1. /\ UNCHANGED <<phase, policy>>
            /\ \A v \in Writers \ {w} :
                 pc'[v] = pc[v] /\ request'[v] = request[v]
            /\ registry'[i][id] = None
            /\ \A j \in Instances, k \in Ids :
                 (j = i /\ k = id) \/ registry'[j][k] = registry[j][k]
        BY <1>6, <2>2 DEF Remove, Begin
      <4>2. pc[w] \notin Adding
        BY <2>2
      <4>3. \A j \in Instances, k \in Ids : InSync(j, k)
        OBVIOUS
      <4> HIDE DEF TypeInv, SafetyInv, InSync, Adding
      <4> QED
        BY <4>1, <4>2, <4>3, InSyncKept
    <3>2. \A c \in Calls : (Undisturbed(c) /\ Forwarded(c))'
      BY <1>6, <2>2 DEF Remove, Begin, Busy
    <3>3. \A v \in Writers : Alone(v)'
      BY <1>6, <2>2 DEF Remove, Begin, Busy
    <3>4. \A k \in Ids : Settled(k)'
      BY <1>6, <2>2 DEF Remove, Begin, Busy
    <3> QED
      BY <3>1, <3>2, <3>3, <3>4
  <2> QED
    BY <1>6, <2>1, <2>2 DEF Remove
<1>7. CASE Delete(w)
  <2>1. \A j \in Instances, k \in Ids : InSync(j, k)'
    <3>1. /\ UNCHANGED <<phase, policy, registry, request>>
          /\ \A v \in Writers \ {w} : pc'[v] = pc[v]
          /\ pc[w] \notin Adding
      BY <1>7 DEF Delete
    <3>2. \A j \in Instances, k \in Ids : InSync(j, k)
      OBVIOUS
    <3> HIDE DEF TypeInv, SafetyInv, InSync, Adding
    <3> QED
      BY <3>1, <3>2, InSyncKept
  <2>2. \A k \in Calls : (Undisturbed(k) /\ Forwarded(k))'
    BY <1>7 DEF Delete
  <2>3. \A v \in Writers : Alone(v)'
    BY <1>7 DEF Delete
  <2>4. \A k \in Ids : Settled(k)'
    BY <1>7 DEF Delete
  <2> QED
    BY <2>1, <2>2, <2>3, <2>4
<1>8. CASE Removed(w)
  BY <1>8 DEF Removed, Answer, Answered
<1>9. CASE RemoveFails(w)
  BY <1>9 DEF RemoveFails
<1> QED
  BY <1>1, <1>2, <1>3, <1>4, <1>5, <1>6, <1>7, <1>8, <1>9 DEF Write

(* tools/call.                                                             *)
LEMMA CallSafetyStep ==
  ASSUME TypeInv, SafetyInv, NEW c \in Calls, Arrive(c) \/ Authorize(c)
  PROVE  SafetyInv'
<1>1. c \notin Writers /\ c \in Handlers /\ Writers \subseteq Handlers
  BY RegistryAssumption DEF Handlers
<1>2. /\ pc = [h \in Handlers |-> pc[h]]
      /\ request = [h \in Handlers |-> request[h]]
      /\ target \in [Calls -> Configs \cup {None}]
      /\ checked \in [Calls -> Configs \cup {None}]
  BY DEF TypeInv, TypeOK, InFlight, Writing
<1> USE DEF SafetyInv, InSync, Undisturbed, Forwarded, Alone, Settled, Adding,
            Writing, instanceVars, observations
<1>3. CASE Arrive(c)
  <2>1. /\ \A w \in Writers : pc'[w] = pc[w] /\ request'[w] = request[w]
        /\ UNCHANGED <<phase, toLoad, registry, policy, restarts, stored,
                       checked, contested, word, heard>>
    BY <1>1, <1>2, <1>3 DEF Arrive
  <2>2. PICK i \in Instances, id \in Ids :
          /\ request' = [request EXCEPT
                           ![c] = [on |-> i, id |-> id, config |-> None]]
          /\ target' = [target EXCEPT ![c] = registry[i][id]]
          /\ pc' = [pc EXCEPT ![c] =
                      IF registry[i][id] = None THEN "unknown"
                      ELSE IF registry[i][id] \in NoCredential THEN "unavailable"
                      ELSE "reading"]
          /\ disturbed' = IF \E w \in Busy(id) : request[w].on = i
                          THEN disturbed \cup {c} ELSE disturbed
    BY <1>3 DEF Arrive
  <2>3. /\ request'[c].on = i /\ request'[c].id = id
        /\ target'[c] = registry[i][id]
        /\ pc'[c] \in {"unknown", "unavailable", "reading"}
        /\ pc'[c] = "reading" => registry[i][id] # None
        /\ c \notin disturbed' =>
             \A w \in Writers : pc[w] \in Writing =>
               request[w].on # i \/ request[w].id # id
    BY <1>1, <1>2, <2>2 DEF Busy
  <2>4. \A k \in Calls \ {c} :
          /\ pc'[k] = pc[k] /\ request'[k] = request[k]
          /\ target'[k] = target[k]
          /\ k \in disturbed' <=> k \in disturbed
    BY <1>1, <1>2, <2>2 DEF Handlers
  <2>5. \A k \in Calls : (Undisturbed(k) /\ Forwarded(k))'
    BY <2>1, <2>3, <2>4
  <2> QED
    BY <2>1, <2>5
<1>4. CASE Authorize(c)
  <2>1. /\ UNCHANGED <<phase, toLoad, registry, policy, restarts, stored,
                       request, target, contested, disturbed, word, heard>>
        /\ \A w \in Writers : pc'[w] = pc[w]
        /\ \A k \in Calls \ {c} : pc'[k] = pc[k] /\ checked'[k] = checked[k]
        /\ pc[c] = "reading" /\ pc'[c] \in {"forwarded", "refused"}
        /\ checked'[c] = policy[request[c].on][request[c].id]
        /\ pc'[c] = "forwarded" => checked'[c] # None
    BY <1>1, <1>2, <1>4 DEF Authorize, Handlers
  <2>2. ASSUME c \notin disturbed
        PROVE  checked'[c] = target[c]
    <3>1. /\ request[c].on \in Instances /\ request[c].id \in Ids
          /\ phase[request[c].on] = "up"
      BY <1>1, <2>1 DEF TypeInv, HandlerLocals, InFlight, Request
    <3>2. InSync(request[c].on, request[c].id)
      BY <3>1
    <3>3. Undisturbed(c)
      OBVIOUS
    <3> QED
      BY <2>1, <2>2, <3>1, <3>2, <3>3
  <2>3. \A k \in Calls : (Undisturbed(k) /\ Forwarded(k))'
    BY <2>1, <2>2
  <2> QED
    BY <2>1, <2>3
<1> QED
  BY <1>3, <1>4

(* Every step preserves the invariant.                                     *)
LEMMA SafetyStep == TypeInv /\ SafetyInv /\ [Next]_vars => SafetyInv'
<1>1. ASSUME TypeInv, SafetyInv, UNCHANGED vars
      PROVE  SafetyInv'
  BY <1>1 DEF vars, instanceVars, handlerVars, observations, SafetyInv,
              InSync, Undisturbed, Forwarded, Alone, Settled
<1> QED
  BY <1>1, InstanceSafetyStep, WriteSafetyStep, CallSafetyStep
     DEF Next, Finished

(* So it holds in every reachable state.                                   *)
THEOREM SafetyInvariant == Spec => []SafetyInv
BY TypeInvariant, SafetyInit, SafetyStep, PTL DEF Spec

(* Between the operations on a server the guard enforces the policy of the *)
(* registration the registry holds, however they overlapped and failed.    *)
THEOREM PolicyIsInSync == Spec => []PolicyFollowsRegistry
<1>1. SafetyInv => PolicyFollowsRegistry
  BY DEF SafetyInv, InSync, PolicyFollowsRegistry, Busy, Adding, Writing
<1> QED
  BY <1>1, SafetyInvariant, PTL

(* A call goes to the registration whose policy it was checked against,    *)
(* unless that server was being written meanwhile.                         *)
THEOREM CallsGoWhereTheyWereChecked == Spec => []CheckedAgainstItsTarget
<1>1. SafetyInv => CheckedAgainstItsTarget
  BY DEF SafetyInv, Forwarded, CheckedAgainstItsTarget
<1> QED
  BY <1>1, SafetyInvariant, PTL

(* What an undisputed answer said of a server stands on the instance that  *)
(* gave it and on those that started since.                                *)
THEOREM AnswersAreKept == Spec => []AnswersStand
<1>1. SafetyInv => AnswersStand
  BY DEF SafetyInv, Settled, AnswersStand, Standing
<1> QED
  BY <1>1, SafetyInvariant, PTL
=============================================================================
