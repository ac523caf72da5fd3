------------------------ MODULE ApprovalQueueProofs ------------------------
(***************************************************************************)
(* Theorems about the approval queue, for any number of handlers.          *)
(***************************************************************************)
EXTENDS ApprovalQueue, TLAPS

(* What a handler's locals hold at each of its control points.             *)
CallLocals(c) ==
  /\ pc[c] # "idle" => call[c] \in ToolsCall
  /\ pc[c] \in {"create", "readIndex", "writeIndex"} =>
       call[c].mode \in {"hold", "queue"}
  /\ pc[c] \in {"readHeld", "sleep"} => call[c].mode = "hold"
  /\ pc[c] \in {"readToken", "burnToken", "checkBurned"} =>
       call[c].mode = "token"
  /\ pc[c] \in {"burnToken", "checkBurned"} =>
       call[c].token \in Admins /\ basis[c] \in Calls

AdminLocals(a) ==
  /\ pc[a] # "idle" => order[a] \in [id: Calls, status: Decisions]
  /\ pc[a] \in {"writeRequest", "mintToken", "writePointer"} =>
       current[a] \in PendingRequest
  /\ pc[a] \in {"mintToken", "writePointer"} => order[a].status = "approved"

PollerLocals(g) ==
  pc[g] # "idle" => asked[g] \in [id: Calls, holds: Calls \cup {None}]

TypeInv ==
  /\ TypeOK
  /\ \A c \in Calls : CallLocals(c)
  /\ \A a \in Admins : AdminLocals(a)
  /\ \A g \in Pollers : PollerLocals(g)

----------------------------------------------------------------------------

(* The initial state satisfies the type invariant.                         *)
LEMMA TypeInit == Init => TypeInv
BY ConstantsAssumption
   DEF Init, TypeInv, TypeOK, CallLocals, AdminLocals, PollerLocals, Handlers

(* A tools/call handler keeps the types and its locals.                    *)
LEMMA CallTypeStep ==
  ASSUME TypeInv, NEW c \in Calls, Arrive(c) \/ CallStep(c)
  PROVE  TypeInv'
<1> USE ConstantsAssumption
    DEF TypeInv, TypeOK, CallLocals, AdminLocals, PollerLocals, Handlers, At,
        Goto, storeVars, historyVars, MidTurn, CallMidTurn, AdminMidTurn,
        PollerMidTurn, Done, CallDone, AdminDone, PollerDone
<1>1. CASE Arrive(c)
  BY <1>1 DEF Arrive, ToolsCall, AllModes
<1>2. CASE CreatePending(c)
  <2>1. [status |-> "pending", tool |-> call[c].tool] \in PendingRequest
    BY <1>2 DEF CreatePending, PendingRequest, ToolsCall
  <2>2. pending' \in [Calls -> PendingRequest \cup {None}]
    BY <1>2, <2>1 DEF CreatePending
  <2>3. audit' \subseteq {"pending", "allow", "deny"} \X Calls
    BY <1>2 DEF CreatePending, Filed
  <2>4. /\ pc[c] = "create" /\ pc' \in [Handlers -> {"idle", "sleep"} \cup MidTurn \cup Done]
        /\ \A h \in Handlers \ {c} : pc'[h] = pc[h]
        /\ pc'[c] \in {"readIndex", "readHeld", "mintPoll"}
        /\ pc'[c] = "readHeld" => call[c].mode = "hold"
    BY <1>2 DEF CreatePending, Filed
  <2>5. TypeOK'
    BY <1>2, <2>2, <2>3, <2>4, SMTT(30) DEF CreatePending
  <2>6. \A d \in Calls : CallLocals(d)'
    BY <1>2, <2>4, SMTT(30) DEF CreatePending
  <2>7. \A a \in Admins : AdminLocals(a)'
    BY <1>2, <2>4 DEF CreatePending
  <2>8. \A g \in Pollers : PollerLocals(g)'
    BY <1>2, <2>4 DEF CreatePending
  <2> QED
    BY <2>5, <2>6, <2>7, <2>8
<1>3. CASE ReadIndex(c)
  BY <1>3 DEF ReadIndex
<1>4. CASE WriteIndex(c)
  BY <1>4 DEF WriteIndex, Filed
<1>5. CASE MintPollToken(c)
  BY <1>5 DEF MintPollToken
<1>6. CASE SendQueued(c)
  BY <1>6 DEF SendQueued
<1>7. CASE ReadHeld(c)
  BY <1>7 DEF ReadHeld
<1>8. CASE Wake(c)
  BY <1>8 DEF Wake
<1>9. CASE ReadToken(c)
  <2>1. CASE UNCHANGED basis /\ pc'[c] = "tokenRefused"
    <3>1. pc' = [pc EXCEPT ![c] = "tokenRefused"]
      BY <1>9, <2>1 DEF ReadToken
    <3> QED
      BY <1>9, <2>1, <3>1 DEF ReadToken
  <2>2. CASE pc'[c] = "burnToken"
    <3>1. call[c].token \in Admins /\ approvalToken[call[c].token] # None
      BY <1>9, <2>2 DEF ReadToken, ToolsCall
    <3>2. approvalToken[call[c].token].pendingId \in Calls
      BY <3>1 DEF ApprovalTokenRecord
    <3>3. basis' = [basis EXCEPT ![c] = approvalToken[call[c].token].pendingId]
      BY <1>9, <2>2 DEF ReadToken
    <3> QED
      BY <1>9, <2>2, <3>1, <3>2, <3>3, SMTT(30) DEF ReadToken
  <2> QED
    BY <1>9, <2>1, <2>2 DEF ReadToken
<1>10. CASE BurnToken(c)
  BY <1>10 DEF BurnToken
<1>11. CASE CheckBurned(c)
  <2>1. audit' \subseteq {"pending", "allow", "deny"} \X Calls
    BY <1>11 DEF CheckBurned
  <2> QED
    BY <1>11, <2>1 DEF CheckBurned
<1> QED
  BY <1>1, <1>2, <1>3, <1>4, <1>5, <1>6, <1>7, <1>8, <1>9, <1>10, <1>11
     DEF CallStep

(* An administrator's handler keeps the types and its locals.              *)
LEMMA AdminTypeStep ==
  ASSUME TypeInv, NEW a \in Admins, Order(a) \/ AdminStep(a)
  PROVE  TypeInv'
<1> USE ConstantsAssumption
    DEF TypeInv, TypeOK, CallLocals, AdminLocals, PollerLocals, Handlers, At,
        Goto, storeVars, historyVars, MidTurn, CallMidTurn, AdminMidTurn,
        PollerMidTurn, Done, CallDone, AdminDone, PollerDone
<1>1. CASE Order(a)
  BY <1>1 DEF Order
<1>2. CASE ReadRequest(a)
  BY <1>2 DEF ReadRequest, Decisions
<1>3. CASE WriteRequest(a)
  <2>1. [current[a] EXCEPT !.status = order[a].status] \in PendingRequest
    BY <1>3, SMTT(30) DEF WriteRequest, PendingRequest
  <2> QED
    BY <1>3, <2>1 DEF WriteRequest
<1>4. CASE MintToken(a)
  <2>1. [pendingId |-> order[a].id, tool |-> current[a].tool,
         expired |-> FALSE] \in ApprovalTokenRecord
    BY <1>4 DEF MintToken, PendingRequest, ApprovalTokenRecord
  <2> QED
    BY <1>4, <2>1 DEF MintToken
<1>5. CASE WritePointer(a)
  BY <1>5 DEF WritePointer
<1>6. CASE SendDecision(a)
  BY <1>6 DEF SendDecision
<1> QED
  BY <1>1, <1>2, <1>3, <1>4, <1>5, <1>6 DEF AdminStep

(* A polling handler keeps the types and its locals.                       *)
LEMMA PollerTypeStep ==
  ASSUME TypeInv, NEW g \in Pollers, Ask(g) \/ PollerStep(g)
  PROVE  TypeInv'
<1> USE ConstantsAssumption
    DEF TypeInv, TypeOK, CallLocals, AdminLocals, PollerLocals, Handlers, At,
        Goto, storeVars, historyVars, MidTurn, CallMidTurn, AdminMidTurn,
        PollerMidTurn, Done, CallDone, AdminDone, PollerDone
<1>1. CASE Ask(g)
  BY <1>1 DEF Ask
<1>2. CASE CheckPoll(g)
  BY <1>2 DEF CheckPoll
<1>3. CASE ReadPolled(g)
  BY <1>3 DEF ReadPolled
<1>4. CASE ReadPointer(g)
  <2>1. disclosed' \subseteq Admins
    BY <1>4 DEF ReadPointer
  <2>2. \/ pc' = [pc EXCEPT ![g] = "sawToken"]
        \/ pc' = [pc EXCEPT ![g] = "sawNoToken"]
    BY <1>4 DEF ReadPointer
  <2> QED
    BY <1>4, <2>1, <2>2, SMTT(30) DEF ReadPointer
<1> QED
  BY <1>1, <1>2, <1>3, <1>4 DEF PollerStep

(* The clock, a failure and a restart keep the types.                      *)
LEMMA EnvironmentTypeStep ==
  ASSUME TypeInv,
         \/ \E c \in Calls : DeadlinePasses(c) \/ ExpirePollToken(c)
         \/ \E t \in Admins : ExpireApprovalToken(t)
         \/ \E h \in Handlers : HandlerFails(h)
         \/ Restart
  PROVE  TypeInv'
<1> USE ConstantsAssumption
    DEF TypeInv, TypeOK, CallLocals, AdminLocals, PollerLocals, Handlers,
        InFlight, Goto, handlerVars, storeVars, historyVars, MidTurn,
        CallMidTurn, AdminMidTurn, PollerMidTurn, Done, CallDone, AdminDone,
        PollerDone
<1>1. ASSUME NEW c \in Calls, DeadlinePasses(c)
      PROVE  TypeInv'
  BY <1>1 DEF DeadlinePasses
<1>2. ASSUME NEW c \in Calls, ExpirePollToken(c)
      PROVE  TypeInv'
  BY <1>2 DEF ExpirePollToken
<1>3. ASSUME NEW t \in Admins, ExpireApprovalToken(t)
      PROVE  TypeInv'
  <2> DEFINE record == approvalToken[t]
  <2>1. record \in ApprovalTokenRecord
    BY <1>3 DEF ExpireApprovalToken
  <2> HIDE DEF record
  <2>2. [record EXCEPT !.expired = TRUE] \in ApprovalTokenRecord
    BY <2>1 DEF ApprovalTokenRecord
  <2> QED
    BY <1>3, <2>2 DEF ExpireApprovalToken, record
<1>4. ASSUME NEW h \in Handlers, HandlerFails(h)
      PROVE  TypeInv'
  BY <1>4 DEF HandlerFails
<1>5. ASSUME Restart
      PROVE  TypeInv'
  BY <1>5 DEF Restart
<1> QED
  BY <1>1, <1>2, <1>3, <1>4, <1>5

(* So does a step in which nothing changes.                                *)
LEMMA TypeStutter == TypeInv /\ UNCHANGED vars => TypeInv'
BY DEF TypeInv, TypeOK, CallLocals, AdminLocals, PollerLocals, vars,
       handlerVars, storeVars, historyVars

(* Every step preserves the type invariant.                                *)
LEMMA TypeStep == TypeInv /\ [Next]_vars => TypeInv'
BY CallTypeStep, AdminTypeStep, PollerTypeStep, EnvironmentTypeStep,
   TypeStutter DEF Next, Finished

(* Every variable has its type in every reachable state, whatever the      *)
(* store: the handlers of pending-store.ts only ever write well-formed     *)
(* requests and tokens.                                                    *)
THEOREM TypeInvariant == Spec => []TypeInv
BY TypeInit, TypeStep, PTL DEF Spec

(* Every variable of the queue always has its type, with either store.     *)
THEOREM TypeCorrect == Spec => []TypeOK
<1>1. TypeInv => TypeOK
  BY DEF TypeInv
<1> QED
  BY <1>1, TypeInvariant, PTL

----------------------------------------------------------------------------
(* Where approvals come from.  With either store, every request on file    *)
(* carries the tool its call asked for and a decision someone wrote, every *)
(* token was minted by a handler that approved its request, and a call     *)
(* past validateApprovalToken holds a basis for the very tool it calls.    *)

RequestProvenance(r) ==
  pending[r] # None =>
    /\ pc[r] # "idle"
    /\ pending[r].tool = call[r].tool
    /\ pending[r].status # "pending" => pending[r].status \in decided[r]

(* t's handler approved its request. *)
Approves(t) ==
  /\ pc[t] # "idle"
  /\ order[t].status = "approved"
  /\ "approved" \in decided[order[t].id]

AdminProvenance(a) ==
  /\ pc[a] \in {"writeRequest", "mintToken", "writePointer"} =>
       /\ pc[order[a].id] # "idle"
       /\ current[a].tool = call[order[a].id].tool
  /\ pc[a] \in {"mintToken", "writePointer", "sendDecision"} =>
       order[a].status \in decided[order[a].id]

TokenProvenance(t) ==
  /\ approvalToken[t] # None =>
       /\ Approves(t)
       /\ approvalToken[t].pendingId = order[t].id
       /\ pc[order[t].id] # "idle"
       /\ approvalToken[t].tool = call[order[t].id].tool
  /\ t \in disclosed => Approves(t)

CallProvenance(c) ==
  /\ pc[c] \in {"idle", "create", "readToken"} => basis[c] = None
  /\ pc[c] \in {"readIndex", "writeIndex", "readHeld", "sleep"} =>
       basis[c] = c
  /\ pc[c] \in {"burnToken", "checkBurned"} =>
       /\ pc[basis[c]] # "idle"
       /\ call[basis[c]].tool = call[c].tool
  /\ pc[c] = "forwarded" =>
       \/ call[c].mode = "allowed" /\ basis[c] = None
       \/ /\ call[c].mode \in {"hold", "token"}
          /\ basis[c] \in Calls
          /\ pc[basis[c]] # "idle"
          /\ "approved" \in decided[basis[c]]
          /\ call[basis[c]].tool = call[c].tool
          /\ call[c].mode = "hold" => basis[c] = c

ProvenanceInv ==
  /\ \A r \in Calls : RequestProvenance(r)
  /\ \A a \in Admins : AdminProvenance(a)
  /\ \A t \in Admins : TokenProvenance(t)
  /\ \A r \in Calls : pointer[r] # None => Approves(pointer[r])
  /\ \A c \in Calls : CallProvenance(c)

(* Nothing is on file at first, so everything on file was approved.        *)
LEMMA ProvenanceInit == Init => ProvenanceInv
BY ConstantsAssumption
   DEF Init, ProvenanceInv, RequestProvenance, AdminProvenance,
       TokenProvenance, CallProvenance, Handlers

(* A tools/call handler files and uses only what it may.                   *)
LEMMA CallProvenanceStep ==
  ASSUME TypeInv, ProvenanceInv, NEW c \in Calls, Arrive(c) \/ CallStep(c)
  PROVE  ProvenanceInv'
<1> USE ConstantsAssumption
    DEF TypeInv, TypeOK, CallLocals, AdminLocals, ProvenanceInv, Approves,
        RequestProvenance, AdminProvenance, TokenProvenance, CallProvenance,
        Handlers, At, Goto, storeVars, historyVars, ToolsCall, PendingRequest,
        ApprovalTokenRecord
<1>1. CASE Arrive(c)
  BY <1>1 DEF Arrive
<1>2. CASE CreatePending(c)
  BY <1>2 DEF CreatePending, Filed
<1>3. CASE ReadIndex(c)
  BY <1>3 DEF ReadIndex
<1>4. CASE WriteIndex(c)
  BY <1>4 DEF WriteIndex, Filed
<1>5. CASE MintPollToken(c)
  BY <1>5 DEF MintPollToken
<1>6. CASE SendQueued(c)
  BY <1>6 DEF SendQueued
<1>7. CASE ReadHeld(c)
  BY <1>7 DEF ReadHeld
<1>8. CASE Wake(c)
  BY <1>8 DEF Wake
<1>9. CASE ReadToken(c)
  BY <1>9 DEF ReadToken
<1>10. CASE BurnToken(c)
  BY <1>10 DEF BurnToken
<1>11. CASE CheckBurned(c)
  BY <1>11 DEF CheckBurned
<1> QED
  BY <1>1, <1>2, <1>3, <1>4, <1>5, <1>6, <1>7, <1>8, <1>9, <1>10, <1>11
     DEF CallStep

(* What an approval writes can be traced to its decision.                  *)
LEMMA AdminProvenanceStep ==
  ASSUME TypeInv, ProvenanceInv, NEW a \in Admins, Order(a) \/ AdminStep(a)
  PROVE  ProvenanceInv'
<1> USE ConstantsAssumption
    DEF TypeInv, TypeOK, CallLocals, AdminLocals, ProvenanceInv, Approves,
        RequestProvenance, AdminProvenance, TokenProvenance, CallProvenance,
        Handlers, At, Goto, storeVars, historyVars, ToolsCall, PendingRequest,
        ApprovalTokenRecord, Decisions
<1>1. CASE Order(a)
  BY <1>1 DEF Order
<1>2. CASE ReadRequest(a)
  BY <1>2, SMTT(30) DEF ReadRequest
<1>3. CASE WriteRequest(a)
  BY <1>3 DEF WriteRequest
<1>4. CASE MintToken(a)
  BY <1>4 DEF MintToken
<1>5. CASE WritePointer(a)
  BY <1>5 DEF WritePointer
<1>6. CASE SendDecision(a)
  BY <1>6 DEF SendDecision
<1> QED
  BY <1>1, <1>2, <1>3, <1>4, <1>5, <1>6 DEF AdminStep

(* A poller is given only tokens that can be traced to a decision.         *)
LEMMA PollerProvenanceStep ==
  ASSUME TypeInv, ProvenanceInv, NEW g \in Pollers, Ask(g) \/ PollerStep(g)
  PROVE  ProvenanceInv'
<1> USE ConstantsAssumption
    DEF TypeInv, TypeOK, CallLocals, AdminLocals, PollerLocals, ProvenanceInv,
        Approves, RequestProvenance, AdminProvenance, TokenProvenance,
        CallProvenance, Handlers, At, Goto, storeVars, historyVars
<1>1. CASE Ask(g)
  BY <1>1 DEF Ask
<1>2. CASE CheckPoll(g)
  BY <1>2 DEF CheckPoll
<1>3. CASE ReadPolled(g)
  BY <1>3 DEF ReadPolled
<1>4. CASE ReadPointer(g)
  BY <1>4 DEF ReadPointer
<1> QED
  BY <1>1, <1>2, <1>3, <1>4 DEF PollerStep

(* The clock, a failure and a restart add nothing to the store.            *)
LEMMA EnvironmentProvenanceStep ==
  ASSUME TypeInv, ProvenanceInv,
         \/ \E c \in Calls : DeadlinePasses(c) \/ ExpirePollToken(c)
         \/ \E t \in Admins : ExpireApprovalToken(t)
         \/ \E h \in Handlers : HandlerFails(h)
         \/ Restart
  PROVE  ProvenanceInv'
<1> USE ConstantsAssumption
    DEF TypeInv, TypeOK, CallLocals, AdminLocals, ProvenanceInv, Approves,
        RequestProvenance, AdminProvenance, TokenProvenance, CallProvenance,
        Handlers, InFlight, Goto, handlerVars, storeVars, historyVars, MidTurn,
        CallMidTurn, AdminMidTurn, PollerMidTurn, ApprovalTokenRecord
<1>1. ASSUME NEW c \in Calls, DeadlinePasses(c)
      PROVE  ProvenanceInv'
  BY <1>1 DEF DeadlinePasses
<1>2. ASSUME NEW c \in Calls, ExpirePollToken(c)
      PROVE  ProvenanceInv'
  BY <1>2 DEF ExpirePollToken
<1>3. ASSUME NEW t \in Admins, ExpireApprovalToken(t)
      PROVE  ProvenanceInv'
  BY <1>3 DEF ExpireApprovalToken
<1>4. ASSUME NEW h \in Handlers, HandlerFails(h)
      PROVE  ProvenanceInv'
  BY <1>4 DEF HandlerFails
<1>5. ASSUME Restart
      PROVE  ProvenanceInv'
  BY <1>5 DEF Restart
<1> QED
  BY <1>1, <1>2, <1>3, <1>4, <1>5

(* Nor does a step in which nothing changes.                               *)
LEMMA ProvenanceStutter == ProvenanceInv /\ UNCHANGED vars => ProvenanceInv'
BY DEF ProvenanceInv, Approves, RequestProvenance, AdminProvenance,
       TokenProvenance, CallProvenance, vars, handlerVars, storeVars,
       historyVars

(* Every step preserves the provenance of approvals.                       *)
LEMMA ProvenanceStep == TypeInv /\ ProvenanceInv /\ [Next]_vars => ProvenanceInv'
BY CallProvenanceStep, AdminProvenanceStep, PollerProvenanceStep,
   EnvironmentProvenanceStep, ProvenanceStutter DEF Next, Finished

(* With either store, approvals and tokens can always be traced.           *)
THEOREM ProvenanceInvariant == Spec => []ProvenanceInv
BY TypeInvariant, ProvenanceInit, ProvenanceStep, PTL DEF Spec

(* With either store, through any interleaving, store failure or restart:  *)
(* a call that lacks a scope reaches the upstream server only under an     *)
(* approved request for its own tool.                                      *)
THEOREM ApprovalNeeded == Spec => []ForwardedWasApproved
<1>1. ProvenanceInv => ForwardedWasApproved
  BY ConstantsAssumption
     DEF ProvenanceInv, CallProvenance, ForwardedWasApproved, Handlers
<1> QED
  BY <1>1, ProvenanceInvariant, PTL

(* With either store, an approval token is evidence of an approval.        *)
THEOREM TokenIsEvidence == Spec => []TokenOnlyIfApproved
<1>1. ProvenanceInv => TokenOnlyIfApproved
  BY DEF ProvenanceInv, TokenProvenance, Approves, TokenOnlyIfApproved
<1> QED
  BY <1>1, ProvenanceInvariant, PTL

----------------------------------------------------------------------------
(* The in-memory store.  A turn of the event loop is not interrupted, so   *)
(* what a handler read at the start of its turn still stands when it acts  *)
(* on it.  The invariant says so at each point where the code relies on    *)
(* it, and it is false of the key-value store.                             *)

OneTurn ==
  \A g, h \in Handlers : pc[g] \in MidTurn /\ pc[h] \in MidTurn => g = h

(* a is still about to do the rest of what an approval of r does. *)
Approving(a, r, points) == order[a].id = r /\ pc[a] \in points

RequestMemory(r) ==
  /\ pc[r] \in {"idle", "create"} => pending[r] = None /\ decided[r] = {}
  /\ ~(Decisions \subseteq decided[r])
  /\ pending[r] # None =>
       /\ pending[r].status = "pending" => decided[r] = {}
       /\ <<"pending", r>> \in audit
       /\ pending[r].status = "approved" =>
            /\ \/ <<"allow", r>> \in audit
               \/ \E a \in Admins :
                    Approving(a, r, {"mintToken", "writePointer", "sendDecision"})
            /\ \/ pointer[r] # None
               \/ \E a \in Admins : Approving(a, r, {"mintToken", "writePointer"})

AdminMemory(a) ==
  pc[a] = "writeRequest" =>
    /\ pending[order[a].id] # None
    /\ pending[order[a].id].status = "pending"

(* t is past minting, so its record, once gone, stays gone. *)
Minted(t) == pc[t] \in {"writePointer", "sendDecision", "decided", "failed"}

TokenMemory(t) == approvalToken[t] # None => Minted(t)

(* c has burned its token. *)
Burned(c) == pc[c] \in {"checkBurned", "forwarded"} /\ call[c].mode = "token"

CallMemory(c) ==
  /\ pc[c] = "burnToken" => approvalToken[call[c].token] # None
  /\ Burned(c) => /\ call[c].token \in Admins
                  /\ approvalToken[call[c].token] = None
                  /\ Minted(call[c].token)
  /\ pc[c] = "forwarded" /\ basis[c] # None =>
       {<<"pending", basis[c]>>, <<"allow", basis[c]>>} \subseteq audit

PollerMemory(g) ==
  /\ pc[g] = "readPointer" => pointer[asked[g].id] # None
  /\ pc[g] # "sawNoToken"

MemoryInv ==
  /\ OneTurn
  /\ \A r \in Calls : RequestMemory(r)
  /\ \A a \in Admins : AdminMemory(a)
  /\ \A t \in Admins : TokenMemory(t)
  /\ \A c \in Calls : CallMemory(c)
  /\ \A c, d \in Calls :
       Burned(c) /\ Burned(d) /\ call[c].token = call[d].token => c = d
  /\ \A g \in Pollers : PollerMemory(g)

(* The invariant that all steps of the in-memory store preserve. *)
Inv == TypeInv /\ ProvenanceInv /\ MemoryInv

(* The initial state satisfies the invariant of the in-memory store.       *)
LEMMA MemoryInit == Init => MemoryInv
BY ConstantsAssumption
   DEF Init, MemoryInv, OneTurn, RequestMemory, AdminMemory, TokenMemory,
       CallMemory, Burned, PollerMemory, Handlers, Decisions, MidTurn,
       CallMidTurn, AdminMidTurn, PollerMidTurn

(* A step that writes neither r nor its pointer keeps what is known of r,  *)
(* as long as no administrator in the middle of approving moves.           *)
LEMMA RequestFrame ==
  ASSUME NEW r \in Calls, RequestMemory(r),
         pc'[r] \in {"idle", "create"} => pc[r] \in {"idle", "create"},
         pending'[r] = pending[r], decided'[r] = decided[r],
         pointer'[r] = pointer[r], audit \subseteq audit',
         \A a \in Admins :
           pc[a] \in {"mintToken", "writePointer", "sendDecision"} =>
             pc'[a] = pc[a] /\ order'[a] = order[a]
  PROVE  RequestMemory(r)'
<1>1. \A a \in Admins :
        /\ Approving(a, r, {"mintToken", "writePointer", "sendDecision"}) =>
             Approving(a, r, {"mintToken", "writePointer", "sendDecision"})'
        /\ Approving(a, r, {"mintToken", "writePointer"}) =>
             Approving(a, r, {"mintToken", "writePointer"})'
  BY DEF Approving
<1> QED
  BY <1>1 DEF RequestMemory

(* A step of another handler that neither mints nor burns keeps what is    *)
(* known of a call.                                                        *)
LEMMA CallFrame ==
  ASSUME NEW c \in Calls, CallMemory(c),
         pc'[c] = pc[c], call'[c] = call[c], basis'[c] = basis[c],
         approvalToken' = approvalToken, audit \subseteq audit',
         \A t \in Admins : Minted(t) => Minted(t)'
  PROVE  CallMemory(c)'
BY DEF CallMemory, Burned

(* A tools/call handler that has the event loop to itself preserves it.    *)
LEMMA CallMemoryStep ==
  ASSUME ~KvEnabled, Inv, NEW c \in Calls, Arrive(c) \/ CallStep(c)
  PROVE  MemoryInv'
<1> USE ConstantsAssumption
    DEF Inv, TypeInv, TypeOK, CallLocals, AdminLocals, ProvenanceInv,
        CallProvenance, AdminProvenance, TokenProvenance, RequestProvenance,
        MemoryInv, OneTurn, RequestMemory, AdminMemory, Approving, TokenMemory,
        Minted, CallMemory, Burned, PollerMemory, Handlers, At, MayRun, Goto,
        storeVars, historyVars, MidTurn, CallMidTurn, AdminMidTurn,
        PollerMidTurn, ToolsCall
<1>1. CASE Arrive(c)
  <2>0. /\ pc[c] = "idle" /\ c \in Handlers
        /\ \A h \in Handlers \ {c} : pc[h] \notin MidTurn /\ pc'[h] = pc[h]
        /\ pc'[c] \in {"forwarded", "denied", "readToken", "create"}
        /\ pc'[c] = "forwarded" => call'[c].mode = "allowed"
        /\ \A d \in Calls \ {c} : call'[d] = call[d]
        /\ UNCHANGED <<basis, order, asked, pending, approvalToken, pointer,
                       decided, audit>>
    BY <1>1 DEF Arrive
  <2>1. OneTurn'
    <3>1. \A h \in Handlers \ {c} : pc'[h] \notin MidTurn
      BY <2>0
    <3> HIDE DEF MidTurn, Handlers
    <3> QED
      BY <3>1
  <2>2. ASSUME NEW r \in Calls
        PROVE  RequestMemory(r)'
    <3>1. RequestMemory(r)
      OBVIOUS
    <3>2. \A a \in Admins : pc'[a] = pc[a]
      <4> HIDE DEF Inv
      <4> QED
        BY <2>0
    <3>3. pc'[r] \in {"idle", "create"} => pc[r] \in {"idle", "create"}
      BY <2>0
    <3> HIDE DEF RequestMemory
    <3> QED
      BY <2>0, <3>1, <3>2, <3>3, RequestFrame
  <2>3. \A a \in Admins : AdminMemory(a)'
    <3>1. \A a \in Admins : AdminMemory(a)
      OBVIOUS
    <3> HIDE DEF Inv
    <3> QED
      BY <2>0, <3>1
  <2>4. \A t \in Admins : TokenMemory(t)'
    <3>1. \A t \in Admins : TokenMemory(t)
      OBVIOUS
    <3> HIDE DEF Inv
    <3> QED
      BY <2>0, <3>1
  <2>5. ASSUME NEW d \in Calls
        PROVE  CallMemory(d)'
    <3>1. CASE d = c
      <4>1. ~Burned(c)' /\ basis[c] = None
        BY <2>0
      <4> QED
        BY <2>0, <3>1, <4>1
    <3>2. CASE d # c
      <4>1. CallMemory(d)
        OBVIOUS
      <4>2. pc'[d] = pc[d] /\ call'[d] = call[d]
        BY <2>0, <3>2
      <4>3. \A t \in Admins : Minted(t) => Minted(t)'
        BY <2>0
      <4> HIDE DEF CallMemory, Minted
      <4> QED
        BY <2>0, <4>1, <4>2, <4>3, CallFrame
    <3> QED
      BY <3>1, <3>2
  <2>6. \A b, d \in Calls :
          Burned(b)' /\ Burned(d)' /\ call[b].token' = call[d].token' => b = d
    <3>1. /\ ~Burned(c)'
          /\ \A d \in Calls \ {c} :
               (Burned(d)' <=> Burned(d)) /\ call'[d] = call[d]
      BY <2>0
    <3>2. \A b, d \in Calls :
            Burned(b) /\ Burned(d) /\ call[b].token = call[d].token => b = d
      OBVIOUS
    <3> HIDE DEF Burned
    <3> QED
      BY <3>1, <3>2
  <2>7. \A g \in Pollers : PollerMemory(g)'
    <3>1. \A g \in Pollers : PollerMemory(g)
      OBVIOUS
    <3> HIDE DEF Inv
    <3> QED
      BY <2>0, <3>1
  <2> QED
    BY <2>1, <2>2, <2>3, <2>4, <2>5, <2>6, <2>7
<1>2. CASE CreatePending(c)
  <2>0. /\ pc[c] = "create" /\ c \in Handlers
        /\ \A h \in Handlers \ {c} : pc[h] \notin MidTurn /\ pc'[h] = pc[h]
        /\ pc'[c] \in {"readHeld", "mintPoll"}
        /\ pending' = [pending EXCEPT ![c] =
                         [status |-> "pending", tool |-> call[c].tool]]
        /\ audit' = audit \cup {<<"pending", c>>}
        /\ basis' = [basis EXCEPT ![c] = c]
        /\ UNCHANGED <<call, order, asked, approvalToken, pointer, decided>>
    BY <1>2 DEF CreatePending, Filed
  <2>1. OneTurn'
    <3>1. \A h \in Handlers \ {c} : pc'[h] \notin MidTurn
      BY <2>0
    <3> HIDE DEF MidTurn, Handlers
    <3> QED
      BY <3>1
  <2>2. ASSUME NEW r \in Calls
        PROVE  RequestMemory(r)'
    <3>1. RequestMemory(r)
      OBVIOUS
    <3>2. \A a \in Admins : pc'[a] = pc[a]
      <4> HIDE DEF Inv
      <4> QED
        BY <2>0
    <3>3. pc'[r] \in {"idle", "create"} => pc[r] = pc'[r] /\ r # c
      BY <2>0
    <3> QED
      BY <2>0, <3>1, <3>2, <3>3
  <2>3. \A a \in Admins : AdminMemory(a)'
    <3>1. \A a \in Admins : AdminMemory(a)
      OBVIOUS
    <3> HIDE DEF Inv
    <3> QED
      BY <2>0, <3>1
  <2>4. \A t \in Admins : TokenMemory(t)'
    <3>1. \A t \in Admins : TokenMemory(t)
      OBVIOUS
    <3> HIDE DEF Inv
    <3> QED
      BY <2>0, <3>1
  <2>5. \A d \in Calls : CallMemory(d)'
    BY <2>0
  <2>6. \A b, d \in Calls :
          Burned(b)' /\ Burned(d)' /\ call[b].token' = call[d].token' => b = d
    <3>1. \A d \in Calls : Burned(d)' <=> Burned(d)
      BY <2>0
    <3>2. \A b, d \in Calls :
            Burned(b) /\ Burned(d) /\ call[b].token = call[d].token => b = d
      OBVIOUS
    <3> HIDE DEF Burned
    <3> QED
      BY <2>0, <3>1, <3>2
  <2>7. \A g \in Pollers : PollerMemory(g)'
    <3>1. \A g \in Pollers : PollerMemory(g)
      OBVIOUS
    <3> HIDE DEF Inv
    <3> QED
      BY <2>0, <3>1
  <2> QED
    BY <2>1, <2>2, <2>3, <2>4, <2>5, <2>6, <2>7
<1>3. CASE ReadIndex(c)
  BY <1>3 DEF ReadIndex
<1>4. CASE WriteIndex(c)
  BY <1>4 DEF WriteIndex, Filed
<1>5. CASE MintPollToken(c)
  BY <1>5 DEF MintPollToken
<1>6. CASE SendQueued(c)
  BY <1>6 DEF SendQueued
<1>7. CASE ReadHeld(c)
  <2>0. /\ pc[c] = "readHeld" /\ c \in Handlers /\ call[c].mode = "hold"
        /\ basis[c] = c
        /\ \A h \in Handlers \ {c} : pc[h] \notin MidTurn /\ pc'[h] = pc[h]
        /\ pc'[c] \in {"sleep", "timedOut", "denied", "forwarded"}
        /\ pc'[c] = "forwarded" =>
             pending[c] # None /\ pending[c].status = "approved"
        /\ UNCHANGED <<call, basis, order, asked, pending, approvalToken,
                       pointer, decided, audit>>
    BY <1>7 DEF ReadHeld, PendingRequest, Decisions
  <2>1. OneTurn'
    <3>1. \A h \in Handlers \ {c} : pc'[h] \notin MidTurn
      BY <2>0
    <3> HIDE DEF MidTurn, Handlers
    <3> QED
      BY <3>1
  <2>2. ASSUME NEW r \in Calls
        PROVE  RequestMemory(r)'
    <3>1. RequestMemory(r)
      OBVIOUS
    <3>2. \A a \in Admins : pc'[a] = pc[a]
      <4> HIDE DEF Inv
      <4> QED
        BY <2>0
    <3>3. pc'[r] \in {"idle", "create"} => pc[r] \in {"idle", "create"}
      BY <2>0
    <3> HIDE DEF RequestMemory
    <3> QED
      BY <2>0, <3>1, <3>2, <3>3, RequestFrame
  <2>3. \A a \in Admins : AdminMemory(a)'
    <3>1. \A a \in Admins : AdminMemory(a)
      OBVIOUS
    <3> HIDE DEF Inv
    <3> QED
      BY <2>0, <3>1
  <2>4. \A t \in Admins : TokenMemory(t)'
    <3>1. \A t \in Admins : TokenMemory(t)
      OBVIOUS
    <3> HIDE DEF Inv
    <3> QED
      BY <2>0, <3>1
  <2>5. ASSUME NEW d \in Calls
        PROVE  CallMemory(d)'
    <3>1. CASE d = c
      <4>1. \A a \in Admins :
              ~Approving(a, c, {"mintToken", "writePointer", "sendDecision"})
        BY <2>0
      <4>2. pc'[c] = "forwarded" =>
              {<<"pending", c>>, <<"allow", c>>} \subseteq audit
        <5>1. RequestMemory(c)
          OBVIOUS
        <5> HIDE DEF Approving
        <5> QED
          BY <2>0, <4>1, <5>1
      <4>3. ~Burned(c)'
        BY <2>0
      <4> QED
        BY <2>0, <3>1, <4>2, <4>3
    <3>2. CASE d # c
      <4>1. CallMemory(d)
        OBVIOUS
      <4>2. pc'[d] = pc[d] /\ basis'[d] = basis[d]
        BY <2>0, <3>2
      <4>3. \A t \in Admins : Minted(t) => Minted(t)'
        BY <2>0
      <4> HIDE DEF CallMemory, Minted
      <4> QED
        BY <2>0, <4>1, <4>2, <4>3, CallFrame
    <3> QED
      BY <3>1, <3>2
  <2>6. \A b, d \in Calls :
          Burned(b)' /\ Burned(d)' /\ call[b].token' = call[d].token' => b = d
    <3>1. \A d \in Calls : Burned(d)' <=> Burned(d)
      BY <2>0
    <3>2. \A b, d \in Calls :
            Burned(b) /\ Burned(d) /\ call[b].token = call[d].token => b = d
      OBVIOUS
    <3> HIDE DEF Burned
    <3> QED
      BY <2>0, <3>1, <3>2
  <2>7. \A g \in Pollers : PollerMemory(g)'
    <3>1. \A g \in Pollers : PollerMemory(g)
      OBVIOUS
    <3> HIDE DEF Inv
    <3> QED
      BY <2>0, <3>1
  <2> QED
    BY <2>1, <2>2, <2>3, <2>4, <2>5, <2>6, <2>7
<1>8. CASE Wake(c)
  BY <1>8 DEF Wake
<1>9. CASE ReadToken(c)
  <2>0. /\ pc[c] = "readToken" /\ c \in Handlers
        /\ \A h \in Handlers \ {c} : pc[h] \notin MidTurn /\ pc'[h] = pc[h]
        /\ pc'[c] \in {"burnToken", "tokenRefused"}
        /\ pc'[c] = "burnToken" => approvalToken[call[c].token] # None
        /\ \A d \in Calls \ {c} : basis'[d] = basis[d]
        /\ UNCHANGED <<call, order, asked, pending, approvalToken, pointer,
                       decided, audit>>
    BY <1>9 DEF ReadToken
  <2>1. OneTurn'
    <3>1. \A h \in Handlers \ {c} : pc'[h] \notin MidTurn
      BY <2>0
    <3> HIDE DEF MidTurn, Handlers
    <3> QED
      BY <3>1
  <2>2. ASSUME NEW r \in Calls
        PROVE  RequestMemory(r)'
    <3>1. RequestMemory(r)
      OBVIOUS
    <3>2. \A a \in Admins : pc'[a] = pc[a]
      <4> HIDE DEF Inv
      <4> QED
        BY <2>0
    <3>3. pc'[r] \in {"idle", "create"} => pc[r] \in {"idle", "create"}
      BY <2>0
    <3> HIDE DEF RequestMemory
    <3> QED
      BY <2>0, <3>1, <3>2, <3>3, RequestFrame
  <2>3. \A a \in Admins : AdminMemory(a)'
    <3>1. \A a \in Admins : AdminMemory(a)
      OBVIOUS
    <3> HIDE DEF Inv
    <3> QED
      BY <2>0, <3>1
  <2>4. \A t \in Admins : TokenMemory(t)'
    <3>1. \A t \in Admins : TokenMemory(t)
      OBVIOUS
    <3> HIDE DEF Inv
    <3> QED
      BY <2>0, <3>1
  <2>5. ASSUME NEW d \in Calls
        PROVE  CallMemory(d)'
    <3>1. CASE d = c
      BY <2>0, <3>1
    <3>2. CASE d # c
      <4>1. CallMemory(d)
        OBVIOUS
      <4>2. pc'[d] = pc[d] /\ basis'[d] = basis[d]
        BY <2>0, <3>2
      <4>3. \A t \in Admins : Minted(t) => Minted(t)'
        BY <2>0
      <4> HIDE DEF CallMemory, Minted
      <4> QED
        BY <2>0, <4>1, <4>2, <4>3, CallFrame
    <3> QED
      BY <3>1, <3>2
  <2>6. \A b, d \in Calls :
          Burned(b)' /\ Burned(d)' /\ call[b].token' = call[d].token' => b = d
    BY <2>0
  <2>7. \A g \in Pollers : PollerMemory(g)'
    <3>1. \A g \in Pollers : PollerMemory(g)
      OBVIOUS
    <3> HIDE DEF Inv
    <3> QED
      BY <2>0, <3>1
  <2> QED
    BY <2>1, <2>2, <2>3, <2>4, <2>5, <2>6, <2>7
<1>10. CASE BurnToken(c)
  <2>1. OneTurn'
    BY <1>10 DEF BurnToken
  <2>2. ASSUME NEW r \in Calls
        PROVE  RequestMemory(r)'
    <3>1. RequestMemory(r)
      OBVIOUS
    <3>2. pc'[r] \in {"idle", "create"} => pc[r] \in {"idle", "create"}
      BY <1>10 DEF BurnToken
    <3>3. \A a \in Admins : pc'[a] = pc[a]
      BY <1>10 DEF BurnToken
    <3>4. UNCHANGED <<order, pending, decided, pointer, audit>>
      BY <1>10 DEF BurnToken
    <3> HIDE DEF RequestMemory
    <3> QED
      BY <3>1, <3>2, <3>3, <3>4, RequestFrame
  <2>3. \A a \in Admins : AdminMemory(a)'
    BY <1>10 DEF BurnToken
  <2>4. \A t \in Admins : TokenMemory(t)'
    BY <1>10 DEF BurnToken
  <2>5. \A d \in Calls : CallMemory(d)'
    BY <1>10 DEF BurnToken
  <2>6. \A b, d \in Calls :
          Burned(b)' /\ Burned(d)' /\ call[b].token' = call[d].token' => b = d
    <3>1. approvalToken[call[c].token] # None /\ pc'[c] = "checkBurned"
      BY <1>10 DEF BurnToken
    <3>2. ASSUME NEW d \in Calls, Burned(d)
          PROVE  call[d].token # call[c].token
      <4>1. CallMemory(d)
        OBVIOUS
      <4> QED
        BY <3>1, <3>2, <4>1
    <3>3. \A d \in Calls \ {c} : Burned(d)' <=> Burned(d)
      BY <1>10 DEF BurnToken
    <3>4. call' = call
      BY <1>10 DEF BurnToken
    <3> HIDE DEF Burned
    <3> QED
      BY <3>2, <3>3, <3>4
  <2>7. \A g \in Pollers : PollerMemory(g)'
    BY <1>10 DEF BurnToken
  <2> QED
    BY <2>1, <2>2, <2>3, <2>4, <2>5, <2>6, <2>7
<1>11. CASE CheckBurned(c)
  <2>0. /\ pc[c] = "checkBurned" /\ c \in Handlers
        /\ \A h \in Handlers \ {c} : pc[h] \notin MidTurn /\ pc'[h] = pc[h]
        /\ \/ /\ pc'[c] = "forwarded"
              /\ pending[basis[c]] # None
              /\ audit' = audit \cup {<<"allow", basis[c]>>}
           \/ pc'[c] = "tokenRefused" /\ audit' = audit
        /\ UNCHANGED <<call, basis, order, asked, pending, approvalToken,
                       pointer, decided>>
    BY <1>11 DEF CheckBurned
  <2>1. OneTurn'
    <3>1. \A h \in Handlers \ {c} : pc'[h] \notin MidTurn
      BY <2>0
    <3> HIDE DEF MidTurn, Handlers
    <3> QED
      BY <3>1
  <2>2. ASSUME NEW r \in Calls
        PROVE  RequestMemory(r)'
    <3>1. RequestMemory(r)
      OBVIOUS
    <3>2. \A a \in Admins : pc'[a] = pc[a]
      <4> HIDE DEF Inv
      <4> QED
        BY <2>0
    <3>3. pc'[r] \in {"idle", "create"} => pc[r] \in {"idle", "create"}
      BY <2>0
    <3> HIDE DEF RequestMemory
    <3> QED
      BY <2>0, <3>1, <3>2, <3>3, RequestFrame
  <2>3. \A a \in Admins : AdminMemory(a)'
    <3>1. \A a \in Admins : AdminMemory(a)
      OBVIOUS
    <3> HIDE DEF Inv
    <3> QED
      BY <2>0, <3>1
  <2>4. \A t \in Admins : TokenMemory(t)'
    <3>1. \A t \in Admins : TokenMemory(t)
      OBVIOUS
    <3> HIDE DEF Inv
    <3> QED
      BY <2>0, <3>1
  <2>5. ASSUME NEW d \in Calls
        PROVE  CallMemory(d)'
    <3>1. CASE d = c
      <4>1. basis[c] \in Calls /\ CallMemory(c) /\ CallLocals(c)
        BY <2>0
      <4>2. pc'[c] = "forwarded" => RequestMemory(basis[c])
        BY <4>1
      <4>3. pc'[c] = "forwarded" =>
              {<<"pending", basis[c]>>, <<"allow", basis[c]>>} \subseteq audit'
        BY <2>0, <4>1, <4>2
      <4>4. Burned(c)' => /\ call[c].token \in Admins
                          /\ approvalToken[call[c].token] = None
                          /\ Minted(call[c].token)
        BY <2>0, <4>1
      <4> QED
        BY <2>0, <3>1, <4>3, <4>4
    <3>2. CASE d # c
      <4>1. CallMemory(d)
        OBVIOUS
      <4>2. pc'[d] = pc[d] /\ basis'[d] = basis[d]
        BY <2>0, <3>2
      <4>3. \A t \in Admins : Minted(t) => Minted(t)'
        BY <2>0
      <4> HIDE DEF CallMemory, Minted
      <4> QED
        BY <2>0, <4>1, <4>2, <4>3, CallFrame
    <3> QED
      BY <3>1, <3>2
  <2>6. \A b, d \in Calls :
          Burned(b)' /\ Burned(d)' /\ call[b].token' = call[d].token' => b = d
    BY <2>0
  <2>7. \A g \in Pollers : PollerMemory(g)'
    <3>1. \A g \in Pollers : PollerMemory(g)
      OBVIOUS
    <3> HIDE DEF Inv
    <3> QED
      BY <2>0, <3>1
  <2> QED
    BY <2>1, <2>2, <2>3, <2>4, <2>5, <2>6, <2>7
<1> QED
  BY <1>1, <1>2, <1>3, <1>4, <1>5, <1>6, <1>7, <1>8, <1>9, <1>10, <1>11
     DEF CallStep

(* An administrator's handler preserves it: read, write and mint are one.  *)
LEMMA AdminMemoryStep ==
  ASSUME ~KvEnabled, Inv, NEW a \in Admins, Order(a) \/ AdminStep(a)
  PROVE  MemoryInv'
<1> USE ConstantsAssumption
    DEF Inv, TypeInv, TypeOK, CallLocals, AdminLocals, ProvenanceInv,
        CallProvenance, AdminProvenance, TokenProvenance, RequestProvenance,
        MemoryInv, OneTurn, RequestMemory, AdminMemory, Approving, TokenMemory,
        Minted, CallMemory, Burned, PollerMemory, Handlers, At, MayRun, Goto,
        storeVars, historyVars, MidTurn, CallMidTurn, AdminMidTurn,
        PollerMidTurn, PendingRequest, Decisions
<1>1. CASE Order(a)
  <2>0. /\ pc[a] = "idle" /\ pc'[a] = "readRequest" /\ a \in Handlers
        /\ \A g \in Handlers \ {a} : pc[g] \notin MidTurn /\ pc'[g] = pc[g]
        /\ \A b \in Admins \ {a} : order'[b] = order[b]
        /\ UNCHANGED <<call, basis, asked, pending, approvalToken, pointer,
                       decided, audit>>
    BY <1>1 DEF Order
  <2>1. OneTurn'
    <3>1. \A g \in Handlers \ {a} : pc'[g] \notin MidTurn
      BY <2>0
    <3> HIDE DEF MidTurn, Handlers
    <3> QED
      BY <3>1
  <2>2. ASSUME NEW r \in Calls
        PROVE  RequestMemory(r)'
    <3>1. RequestMemory(r)
      OBVIOUS
    <3> HIDE DEF Inv, RequestMemory
    <3>2. pc'[r] = pc[r]
      BY <2>0
    <3>3. \A b \in Admins : pc[b] \in MidTurn =>
            pc'[b] = pc[b] /\ order'[b] = order[b]
      BY <2>0
    <3> QED
      BY <2>0, <3>1, <3>2, <3>3, RequestFrame
  <2>3. \A b \in Admins : AdminMemory(b)'
    <3>1. \A b \in Admins : AdminMemory(b)
      OBVIOUS
    <3> HIDE DEF Inv
    <3> QED
      BY <2>0, <3>1
  <2>4. \A u \in Admins : TokenMemory(u)'
    <3>1. \A u \in Admins : TokenMemory(u)
      OBVIOUS
    <3> HIDE DEF Inv
    <3> QED
      BY <2>0, <3>1
  <2>5. ASSUME NEW d \in Calls
        PROVE  CallMemory(d)'
    <3>1. CallMemory(d)
      OBVIOUS
    <3>2. pc'[d] = pc[d]
      BY <2>0
    <3>3. \A u \in Admins : Minted(u) => Minted(u)'
      BY <2>0
    <3> HIDE DEF CallMemory, Minted
    <3> QED
      BY <2>0, <3>1, <3>2, <3>3, CallFrame
  <2>6. \A b, d \in Calls :
          Burned(b)' /\ Burned(d)' /\ call[b].token' = call[d].token' => b = d
    BY <2>0
  <2>7. \A g \in Pollers : PollerMemory(g)'
    <3>1. \A g \in Pollers : PollerMemory(g)
      OBVIOUS
    <3> HIDE DEF Inv
    <3> QED
      BY <2>0, <3>1
  <2> QED
    BY <2>1, <2>2, <2>3, <2>4, <2>5, <2>6, <2>7
<1>2. CASE ReadRequest(a)
  <2>0. /\ pc[a] = "readRequest" /\ a \in Handlers /\ order[a].id \in Calls
        /\ \A g \in Handlers \ {a} : pc[g] \notin MidTurn /\ pc'[g] = pc[g]
        /\ pc'[a] \in AdminMidTurn \cup {"notFound"}
        /\ pc'[a] = "writeRequest" =>
             /\ pending[order[a].id] # None
             /\ pending[order[a].id].status = "pending"
        /\ UNCHANGED <<call, basis, order, asked, pending, approvalToken,
                       pointer, decided, audit>>
    BY <1>2 DEF ReadRequest
  <2>1. OneTurn'
    <3>1. \A g \in Handlers \ {a} : pc'[g] \notin MidTurn
      BY <2>0
    <3> HIDE DEF MidTurn, Handlers
    <3> QED
      BY <3>1
  <2>2. ASSUME NEW r \in Calls
        PROVE  RequestMemory(r)'
    <3>1. /\ RequestMemory(r) /\ pc'[r] = pc[r]
          /\ \A b \in Admins :
               pc[b] \in {"mintToken", "writePointer", "sendDecision"} =>
                 pc'[b] = pc[b]
      BY <2>0
    <3> HIDE DEF RequestMemory
    <3> QED
      BY <2>0, <3>1, RequestFrame
  <2>3. \A b \in Admins : AdminMemory(b)'
    <3>1. \A b \in Admins : AdminMemory(b)
      OBVIOUS
    <3> HIDE DEF Inv
    <3> QED
      BY <2>0, <3>1
  <2>4. \A u \in Admins : TokenMemory(u)'
    <3>1. \A u \in Admins : TokenMemory(u)
      OBVIOUS
    <3> HIDE DEF Inv
    <3> QED
      BY <2>0, <3>1
  <2>5. ASSUME NEW d \in Calls
        PROVE  CallMemory(d)'
    <3>1. CallMemory(d)
      OBVIOUS
    <3>2. pc'[d] = pc[d]
      BY <2>0
    <3>3. \A u \in Admins : Minted(u) => Minted(u)'
      BY <2>0
    <3> HIDE DEF CallMemory, Minted
    <3> QED
      BY <2>0, <3>1, <3>2, <3>3, CallFrame
  <2>6. \A b, d \in Calls :
          Burned(b)' /\ Burned(d)' /\ call[b].token' = call[d].token' => b = d
    <3>1. \A d \in Calls : pc'[d] = pc[d]
      BY <2>0
    <3> QED
      BY <2>0, <3>1
  <2>7. \A g \in Pollers : PollerMemory(g)'
    <3>1. \A g \in Pollers : PollerMemory(g)
      OBVIOUS
    <3> HIDE DEF Inv
    <3> QED
      BY <2>0, <3>1
  <2> QED
    BY <2>1, <2>2, <2>3, <2>4, <2>5, <2>6, <2>7
<1>3. CASE WriteRequest(a)
  <2> DEFINE id == order[a].id
  <2>0. /\ pc[a] = "writeRequest" /\ a \in Handlers
        /\ order[a] \in [id: Calls, status: Decisions]
        /\ pending[id] # None /\ pending[id].status = "pending"
        /\ \A g \in Handlers \ {a} : pc[g] \notin MidTurn /\ pc'[g] = pc[g]
        /\ pc'[a] = IF order[a].status = "approved" THEN "mintToken"
                                                   ELSE "sendDecision"
        /\ pending'[id] # None /\ pending'[id].status = order[a].status
        /\ decided'[id] = decided[id] \cup {order[a].status}
        /\ \A r \in Calls \ {id} :
             pending'[r] = pending[r] /\ decided'[r] = decided[r]
        /\ UNCHANGED <<call, basis, order, asked, approvalToken, pointer, audit>>
    <3>1. /\ pc[a] = "writeRequest" /\ a \in Handlers
          /\ order[a] \in [id: Calls, status: Decisions]
          /\ AdminMemory(a)
          /\ current[a] \in PendingRequest
      BY <1>3 DEF WriteRequest
    <3>2. [current[a] EXCEPT !.status = order[a].status] \in PendingRequest
      BY <3>1
    <3>3. [current[a] EXCEPT !.status = order[a].status].status = order[a].status
      BY <3>1
    <3>4. pending' = [pending EXCEPT ![id] =
                        [current[a] EXCEPT !.status = order[a].status]]
      BY <1>3 DEF WriteRequest
    <3>5. pending'[id] = [current[a] EXCEPT !.status = order[a].status]
      BY <3>1, <3>4
    <3>6. pending'[id] # None /\ pending'[id].status = order[a].status
      <4> DEFINE updated == [current[a] EXCEPT !.status = order[a].status]
      <4>1. /\ updated \in PendingRequest /\ updated.status = order[a].status
            /\ pending'[id] = updated
        BY <3>2, <3>3, <3>5
      <4>2. None \notin PendingRequest
        OBVIOUS
      <4> HIDE DEF updated, id
      <4> QED
        BY ONLY <4>1, <4>2
    <3>7. \A g \in Handlers \ {a} : pc[g] \notin MidTurn /\ pc'[g] = pc[g]
      BY <1>3 DEF WriteRequest
    <3>8. decided' = [decided EXCEPT ![id] = @ \cup {order[a].status}]
      BY <1>3 DEF WriteRequest
    <3> HIDE DEF id
    <3> QED
      BY <1>3, <3>1, <3>4, <3>6, <3>7, <3>8 DEF WriteRequest, id
  <2>1. OneTurn'
    <3>1. \A g \in Handlers \ {a} : pc'[g] \notin MidTurn
      BY <2>0
    <3> HIDE DEF MidTurn, Handlers
    <3> QED
      BY <3>1
  <2>2. ASSUME NEW r \in Calls
        PROVE  RequestMemory(r)'
    <3>1. RequestMemory(r) /\ pc'[r] = pc[r]
      BY <2>0
    <3>2. CASE r = id
      <4>1. pc'[r] \notin {"idle", "create"} /\ decided[r] = {}
        BY <2>0, <3>1, <3>2
      <4>2. <<"pending", r>> \in audit'
        BY <2>0, <3>1, <3>2
      <4>3. order[a].status = "approved" =>
              /\ Approving(a, r, {"mintToken", "writePointer", "sendDecision"})'
              /\ Approving(a, r, {"mintToken", "writePointer"})'
        BY <2>0, <3>2
      <4>4. pending'[r].status = order[a].status /\ order[a].status # "pending"
        BY <2>0, <3>2
      <4>5. ~(Decisions \subseteq decided'[r])
        BY <2>0, <3>2, <4>1
      <4> HIDE DEF Approving, Decisions
      <4> QED
        BY <4>1, <4>2, <4>3, <4>4, <4>5
    <3>3. CASE r # id
      <4>1. \A b \in Admins :
              pc[b] \in {"mintToken", "writePointer", "sendDecision"} =>
                pc'[b] = pc[b]
        BY <2>0
      <4> HIDE DEF RequestMemory, id
      <4> QED
        BY <2>0, <3>1, <3>3, <4>1, RequestFrame
    <3> QED
      BY <3>2, <3>3
  <2>3. \A b \in Admins : AdminMemory(b)'
    <3>1. \A b \in Admins : AdminMemory(b)
      OBVIOUS
    <3> HIDE DEF Inv
    <3> QED
      BY <2>0, <3>1
  <2>4. \A u \in Admins : TokenMemory(u)'
    <3>1. \A u \in Admins : TokenMemory(u)
      OBVIOUS
    <3> HIDE DEF Inv
    <3> QED
      BY <2>0, <3>1
  <2>5. ASSUME NEW d \in Calls
        PROVE  CallMemory(d)'
    <3>1. CallMemory(d)
      OBVIOUS
    <3>2. pc'[d] = pc[d]
      BY <2>0
    <3>3. \A u \in Admins : Minted(u) => Minted(u)'
      BY <2>0
    <3> HIDE DEF CallMemory, Minted
    <3> QED
      BY <2>0, <3>1, <3>2, <3>3, CallFrame
  <2>6. \A b, d \in Calls :
          Burned(b)' /\ Burned(d)' /\ call[b].token' = call[d].token' => b = d
    <3>1. \A d \in Calls : pc'[d] = pc[d]
      BY <2>0
    <3> QED
      BY <2>0, <3>1
  <2>7. \A g \in Pollers : PollerMemory(g)'
    <3>1. \A g \in Pollers : PollerMemory(g)
      OBVIOUS
    <3> HIDE DEF Inv
    <3> QED
      BY <2>0, <3>1
  <2> QED
    BY <2>1, <2>2, <2>3, <2>4, <2>5, <2>6, <2>7
<1>4. CASE MintToken(a)
  BY <1>4 DEF MintToken
<1>5. CASE WritePointer(a)
  BY <1>5 DEF WritePointer
<1>6. CASE SendDecision(a)
  BY <1>6 DEF SendDecision
<1> QED
  BY <1>1, <1>2, <1>3, <1>4, <1>5, <1>6 DEF AdminStep

(* A step that only moves a poller leaves the other conjuncts alone.       *)
LEMMA PollerFrame ==
  ASSUME Inv, NEW g \in Pollers,
         \A h \in Handlers \ {g} : pc[h] \notin MidTurn /\ pc'[h] = pc[h],
         \A p \in Pollers \ {g} : asked'[p] = asked[p],
         PollerMemory(g)',
         UNCHANGED <<call, basis, order, pending, approvalToken, pointer,
                     decided, audit>>
  PROVE  MemoryInv'
<1> USE ConstantsAssumption
    DEF Inv, TypeInv, TypeOK, CallLocals, MemoryInv, Handlers
<1>1. OneTurn'
  BY DEF OneTurn
<1>2. ASSUME NEW r \in Calls
      PROVE  RequestMemory(r)'
  <2>1. RequestMemory(r) /\ pc'[r] = pc[r] /\ \A a \in Admins : pc'[a] = pc[a]
    OBVIOUS
  <2> QED
    BY <2>1 DEF RequestMemory, Approving
<1>3. \A a \in Admins : AdminMemory(a)' /\ TokenMemory(a)'
  BY DEF AdminMemory, TokenMemory, Minted
<1>4. ASSUME NEW c \in Calls
      PROVE  CallMemory(c)'
  <2>1. CallMemory(c) /\ pc'[c] = pc[c] /\ \A a \in Admins : pc'[a] = pc[a]
    OBVIOUS
  <2> QED
    BY <2>1 DEF CallMemory, Burned, Minted
<1>5. \A c, d \in Calls :
        Burned(c)' /\ Burned(d)' /\ call[c].token' = call[d].token' => c = d
  BY DEF Burned
<1>6. \A p \in Pollers : PollerMemory(p)'
  BY DEF PollerMemory
<1> QED
  BY <1>1, <1>2, <1>3, <1>4, <1>5, <1>6

(* A polling handler preserves it.                                         *)
LEMMA PollerMemoryStep ==
  ASSUME ~KvEnabled, Inv, NEW g \in Pollers, Ask(g) \/ PollerStep(g)
  PROVE  MemoryInv'
<1> USE ConstantsAssumption
    DEF At, Goto, Handlers, Inv, TypeInv, TypeOK, PollerLocals, storeVars,
        historyVars
<1>1. CASE Ask(g)
  BY <1>1, PollerFrame DEF Ask, MayRun, PollerMemory
<1>2. CASE CheckPoll(g)
  BY <1>2, PollerFrame DEF CheckPoll, MayRun, PollerMemory
<1>3. CASE ReadPolled(g)
  <2>1. \A h \in Handlers \ {g} : pc[h] \notin MidTurn /\ pc'[h] = pc[h]
    BY <1>3 DEF ReadPolled, MayRun
  <2>2. asked[g].id \in Calls
    BY <1>3 DEF ReadPolled
  <2>3. RequestMemory(asked[g].id)
    BY <2>2 DEF MemoryInv
  <2>4. \A a \in Admins, r \in Calls :
          ~Approving(a, r, {"mintToken", "writePointer"})
    BY <2>1 DEF Approving, MidTurn, AdminMidTurn
  <2>5. pc'[g] = "readPointer" => pointer[asked[g].id] # None
    BY <1>3, <2>2, <2>3, <2>4 DEF ReadPolled, RequestMemory
  <2>6. PollerMemory(g)'
    BY <1>3, <2>5 DEF ReadPolled, PollerMemory
  <2> QED
    BY <1>3, <2>1, <2>6, PollerFrame DEF ReadPolled
<1>4. CASE ReadPointer(g)
  <2>1. pointer[asked[g].id] # None
    BY <1>4 DEF ReadPointer, MemoryInv, PollerMemory
  <2>2. PollerMemory(g)'
    BY <1>4, <2>1 DEF ReadPointer, PollerMemory
  <2> QED
    BY <1>4, <2>2, PollerFrame DEF ReadPointer, MayRun
<1> QED
  BY <1>1, <1>2, <1>3, <1>4 DEF PollerStep

(* The clock and a restart preserve it; no store operation fails.          *)
LEMMA EnvironmentMemoryStep ==
  ASSUME ~KvEnabled, Inv,
         \/ \E c \in Calls : DeadlinePasses(c) \/ ExpirePollToken(c)
         \/ \E t \in Admins : ExpireApprovalToken(t)
         \/ \E h \in Handlers : HandlerFails(h)
         \/ Restart
  PROVE  MemoryInv'
<1> USE ConstantsAssumption
    DEF Inv, TypeInv, TypeOK, CallLocals, AdminLocals, MemoryInv, OneTurn,
        RequestMemory, AdminMemory, Approving, TokenMemory, Minted, CallMemory,
        Burned, PollerMemory, Handlers, InFlight, Goto, handlerVars, storeVars,
        historyVars, MidTurn, CallMidTurn, AdminMidTurn, PollerMidTurn
<1>1. ASSUME NEW c \in Calls, DeadlinePasses(c)
      PROVE  MemoryInv'
  <2>1. UNCHANGED <<pc, call, basis, order, asked, pending, approvalToken,
                    pointer, decided, audit>>
    BY <1>1 DEF DeadlinePasses
  <2>2. MemoryInv
    OBVIOUS
  <2> HIDE DEF Inv
  <2> QED
    BY <2>1, <2>2
<1>2. ASSUME NEW c \in Calls, ExpirePollToken(c)
      PROVE  MemoryInv'
  BY <1>2 DEF ExpirePollToken
<1>3. ASSUME NEW t \in Admins, ExpireApprovalToken(t)
      PROVE  MemoryInv'
  <2>1. \A u \in Admins : approvalToken'[u] # None <=> approvalToken[u] # None
    <3> DEFINE record == approvalToken[t]
    <3>1. record \in ApprovalTokenRecord
      BY <1>3 DEF ExpireApprovalToken
    <3>2. approvalToken' = [approvalToken EXCEPT ![t] =
                              [record EXCEPT !.expired = TRUE]]
      BY <1>3 DEF ExpireApprovalToken
    <3> HIDE DEF record
    <3>3. [record EXCEPT !.expired = TRUE] \in ApprovalTokenRecord
      BY <3>1 DEF ApprovalTokenRecord
    <3> DEFINE older == [record EXCEPT !.expired = TRUE]
    <3>4. older # None /\ approvalToken[t] # None
      <4>1. older \in ApprovalTokenRecord /\ None \notin ApprovalTokenRecord
        BY <3>3
      <4>2. approvalToken[t] # None
        BY <1>3 DEF ExpireApprovalToken
      <4> HIDE DEF older
      <4> QED
        BY ONLY <4>1, <4>2
    <3>5. approvalToken' = [approvalToken EXCEPT ![t] = older]
      BY <3>2
    <3> HIDE DEF older
    <3> QED
      BY <3>4, <3>5
  <2>2. UNCHANGED <<pc, call, basis, order, asked, pending, pointer, decided,
                    audit>>
    BY <1>3 DEF ExpireApprovalToken
  <2>3. \A c \in Calls : CallMemory(c)'
    BY <2>1, <2>2
  <2>4. \A u \in Admins : TokenMemory(u)'
    BY <2>1, <2>2
  <2> QED
    BY <2>2, <2>3, <2>4
<1>4. ASSUME NEW h \in Handlers, HandlerFails(h)
      PROVE  MemoryInv'
  BY <1>4 DEF HandlerFails
<1>5. ASSUME Restart
      PROVE  MemoryInv'
  <2>0. /\ \A h \in Handlers : /\ pc'[h] \notin MidTurn
                               /\ pc'[h] = pc[h] \/ pc'[h] = "failed"
        /\ \A c \in Calls : pending'[c] = None
        /\ \A u \in Admins : approvalToken'[u] = None
        /\ UNCHANGED <<call, basis, order, asked, decided, audit>>
    BY <1>5 DEF Restart
  <2>1. OneTurn'
    BY <2>0
  <2>2. \A r \in Calls : RequestMemory(r)'
    BY <2>0
  <2>3. \A a \in Admins : AdminMemory(a)' /\ TokenMemory(a)'
    BY <2>0
  <2>4. ASSUME NEW c \in Calls
        PROVE  CallMemory(c)'
    <3>1. CallMemory(c)
      OBVIOUS
    <3> QED
      BY <2>0, <3>1
  <2>5. \A c, d \in Calls :
          Burned(c)' /\ Burned(d)' /\ call[c].token' = call[d].token' => c = d
    BY <2>0
  <2>6. \A g \in Pollers : PollerMemory(g)'
    BY <2>0
  <2> QED
    BY <2>1, <2>2, <2>3, <2>4, <2>5, <2>6
<1> QED
  BY <1>1, <1>2, <1>3, <1>4, <1>5

(* So does a step in which nothing changes.                                *)
LEMMA MemoryStutter == MemoryInv /\ UNCHANGED vars => MemoryInv'
<1> SUFFICES ASSUME MemoryInv, UNCHANGED vars
             PROVE  MemoryInv'
  OBVIOUS
<1>1. UNCHANGED <<pc, call, basis, order, asked, pending, approvalToken, pointer,
                  audit, decided>>
  BY DEF vars, handlerVars, storeVars, historyVars
<1> QED
  BY <1>1 DEF MemoryInv, OneTurn, RequestMemory, AdminMemory, Approving,
              TokenMemory, Minted, CallMemory, Burned, PollerMemory

(* Every step with the in-memory store preserves the invariant.            *)
LEMMA MemoryStep ==
  ASSUME ~KvEnabled
  PROVE  Inv /\ [Next]_vars => MemoryInv'
<1> SUFFICES ASSUME Inv, [Next]_vars
             PROVE  MemoryInv'
  OBVIOUS
<1>1. CASE UNCHANGED vars
  BY <1>1, MemoryStutter DEF Inv
<1>2. CASE Next
  BY <1>1, <1>2, CallMemoryStep, AdminMemoryStep, PollerMemoryStep,
     EnvironmentMemoryStep DEF Next, Finished
<1> QED
  BY <1>1, <1>2

(* With the in-memory store, what a turn has read stands until it ends.    *)
THEOREM MemoryInvariant ==
  ASSUME ~KvEnabled
  PROVE  Spec => []Inv
<1>1. Init => Inv
  BY TypeInit, ProvenanceInit, MemoryInit DEF Inv
<1>2. Inv /\ [Next]_vars => Inv'
  BY TypeStep, ProvenanceStep, MemoryStep DEF Inv
<1> QED
  BY <1>1, <1>2, PTL DEF Spec

(* With the in-memory store an approval token lets at most one call        *)
(* through, for any number of calls presenting it at any time.             *)
THEOREM MemorySingleUse ==
  ASSUME ~KvEnabled
  PROVE  Spec => []SingleUse
<1>1. Inv => SingleUse
  <2> SUFFICES ASSUME Inv, NEW c \in ForwardedByApproval,
                      NEW d \in ForwardedByApproval, c # d,
                      Redeemed(c) # None, Redeemed(c) = Redeemed(d)
               PROVE  FALSE
    BY DEF SingleUse
  <2>1. c \in Calls /\ d \in Calls /\ Burned(c) /\ Burned(d)
    BY DEF ForwardedByApproval, Burned, Redeemed
  <2>2. call[c].token = call[d].token
    BY <2>1 DEF Redeemed, Burned
  <2> QED
    BY <2>1, <2>2 DEF Inv, MemoryInv
<1> QED
  BY <1>1, MemoryInvariant, PTL

(* With the in-memory store a denial can be relied on: no call ever runs   *)
(* under a request that anyone was told is denied.                         *)
THEOREM MemoryDenialStands ==
  ASSUME ~KvEnabled
  PROVE  Spec => []DeniedNeverForwarded
<1>1. Inv => DeniedNeverForwarded
  <2> SUFFICES ASSUME Inv, NEW c \in ForwardedByApproval
               PROVE  "denied" \notin decided[basis[c]]
    BY DEF DeniedNeverForwarded
  <2>1. c \in Calls /\ pc[c] = "forwarded" /\ basis[c] # None
    BY DEF ForwardedByApproval
  <2>2. CallProvenance(c)
    BY <2>1 DEF Inv, ProvenanceInv
  <2>3. basis[c] \in Calls /\ "approved" \in decided[basis[c]]
    BY <2>1, <2>2 DEF CallProvenance
  <2>4. ~(Decisions \subseteq decided[basis[c]])
    BY <2>3 DEF Inv, MemoryInv, RequestMemory
  <2> QED
    BY <2>3, <2>4 DEF Decisions
<1> QED
  BY <1>1, MemoryInvariant, PTL

(* With the in-memory store every call let through by a person has both    *)
(* its "pending" and its "allow" row in the audit log by the time it runs. *)
THEOREM MemoryAudit ==
  ASSUME ~KvEnabled
  PROVE  Spec => []ForwardAudited
<1>1. Inv => ForwardAudited
  BY DEF Inv, MemoryInv, CallMemory, ForwardAudited, ForwardedByApproval
<1> QED
  BY <1>1, MemoryInvariant, PTL

(* With the in-memory store whoever reads an approved request is given a   *)
(* token with it.                                                          *)
THEOREM MemoryApprovedComesWithToken ==
  ASSUME ~KvEnabled
  PROVE  Spec => []ApprovedComesWithToken
<1>1. Inv => ApprovedComesWithToken
  BY DEF Inv, MemoryInv, PollerMemory, ApprovedComesWithToken
<1> QED
  BY <1>1, MemoryInvariant, PTL

----------------------------------------------------------------------------
(* Decisions are final.                                                     *)

(* No step with the in-memory store changes a decided request.             *)
LEMMA FinalStep ==
  ASSUME ~KvEnabled, Inv, [Next]_vars, NEW r \in Calls,
         pending[r] # None, pending[r].status # "pending"
  PROVE  pending'[r] \in {pending[r], None}
<1> USE DEF storeVars, handlerVars, Inv, TypeInv, TypeOK
<1>1. CASE UNCHANGED vars
  BY <1>1 DEF vars
<1>2. ASSUME NEW c \in Calls, Arrive(c) \/ CallStep(c)
      PROVE  pending'[r] \in {pending[r], None}
  <2>1. CASE CreatePending(c)
    <3>1. pc[c] = "create" /\ r # c
      BY <2>1 DEF CreatePending, At, MemoryInv, RequestMemory
    <3> QED
      BY <2>1, <3>1 DEF CreatePending
  <2> QED
    BY <1>2, <2>1 DEF Arrive, CallStep, ReadIndex, WriteIndex, MintPollToken,
      SendQueued, ReadHeld, Wake, ReadToken, BurnToken, CheckBurned
<1>3. ASSUME NEW a \in Admins, Order(a) \/ AdminStep(a)
      PROVE  pending'[r] \in {pending[r], None}
  <2>1. CASE WriteRequest(a)
    <3>1. order[a].id # r
      BY <2>1 DEF WriteRequest, At, MemoryInv, AdminMemory
    <3> QED
      BY <2>1, <3>1 DEF WriteRequest
  <2> QED
    BY <1>3, <2>1 DEF Order, AdminStep, ReadRequest, MintToken, WritePointer,
      SendDecision
<1>4. ASSUME NEW g \in Pollers, Ask(g) \/ PollerStep(g)
      PROVE  pending'[r] \in {pending[r], None}
  BY <1>4 DEF Ask, PollerStep, CheckPoll, ReadPolled, ReadPointer
<1>5. ASSUME \/ \E c \in Calls : DeadlinePasses(c) \/ ExpirePollToken(c)
             \/ \E t \in Admins : ExpireApprovalToken(t)
             \/ \E h \in Handlers : HandlerFails(h)
      PROVE  pending'[r] \in {pending[r], None}
  BY <1>5 DEF DeadlinePasses, ExpirePollToken, ExpireApprovalToken, HandlerFails
<1>6. CASE Restart
  BY <1>6 DEF Restart
<1> QED
  BY <1>1, <1>2, <1>3, <1>4, <1>5, <1>6 DEF Next, Finished

(* With the in-memory store the guard against a second resolution works:   *)
(* a request once approved or denied stays so until a restart forgets it.  *)
THEOREM MemoryDecisionFinal ==
  ASSUME ~KvEnabled
  PROVE  Spec => ResolutionIsFinal
<1>1. Inv /\ [Next]_vars =>
        [\A r \in Calls : pending[r] # None /\ pending[r].status # "pending" =>
           pending'[r] \in {pending[r], None}]_vars
  BY FinalStep
<1> QED
  BY <1>1, MemoryInvariant, PTL DEF Spec, ResolutionIsFinal

----------------------------------------------------------------------------
(* The key-value store.  What was read does not stand, but nothing deletes *)
(* a request either: no handler, and no restart.                           *)

(* From its filing on, a request is on file, undecided until the first     *)
(* decision is written.                                                    *)
OnFile(c) ==
  pc[c] \in {"readIndex", "writeIndex", "mintPoll", "sendQueued", "readHeld",
             "sleep", "queued"} =>
    /\ pending[c] \in PendingRequest
    /\ decided[c] = {} => pending[c].status = "pending"

FiledInv == \A c \in Calls : OnFile(c)

(* Every step with the key-value store keeps the requests on file.         *)
LEMMA FiledStep ==
  ASSUME KvEnabled, TypeInv, FiledInv, [Next]_vars
  PROVE  FiledInv'
<1> USE ConstantsAssumption
    DEF TypeInv, TypeOK, FiledInv, OnFile, handlerVars, storeVars, historyVars,
        At, Goto, Handlers
<1>1. CASE UNCHANGED vars
  BY <1>1 DEF vars
<1>2. ASSUME NEW c \in Calls, Arrive(c) \/ CallStep(c)
      PROVE  FiledInv'
  <2>1. CASE CreatePending(c)
    <3>1. [status |-> "pending", tool |-> call[c].tool] \in PendingRequest
      BY <2>1 DEF CreatePending, CallLocals, PendingRequest, ToolsCall
    <3>2. pending'[c] = [status |-> "pending", tool |-> call[c].tool]
      BY <2>1 DEF CreatePending
    <3>3. \A d \in Calls \ {c} :
            pending'[d] = pending[d] /\ pc'[d] = pc[d] /\ decided' = decided
      BY <2>1 DEF CreatePending, Filed
    <3> QED
      BY <3>1, <3>2, <3>3, <2>1 DEF CreatePending
  <2>2. CASE ~CreatePending(c)
    <3>1. /\ pending' = pending /\ decided' = decided
          /\ \A d \in Calls \ {c} : pc'[d] = pc[d]
      BY <1>2, <2>2
         DEF Arrive, CallStep, ReadIndex, WriteIndex, Filed, MintPollToken,
             SendQueued, ReadHeld, Wake, ReadToken, BurnToken, CheckBurned
    <3>2. pc'[c] \in {"readIndex", "writeIndex", "mintPoll", "sendQueued",
                      "readHeld", "sleep", "queued"} =>
            pc[c] \in {"readIndex", "writeIndex", "mintPoll", "sendQueued",
                       "readHeld", "sleep", "queued"}
      BY <1>2, <2>2
         DEF Arrive, CallStep, ReadIndex, WriteIndex, Filed, MintPollToken,
             SendQueued, ReadHeld, Wake, ReadToken, BurnToken, CheckBurned
    <3> QED
      BY <3>1, <3>2
  <2> QED
    BY <2>1, <2>2
<1>3. ASSUME NEW a \in Admins, Order(a) \/ AdminStep(a)
      PROVE  FiledInv'
  <2>1. \A c \in Calls : pc'[c] = pc[c]
    BY <1>3 DEF Order, AdminStep, ReadRequest, WriteRequest, MintToken,
      WritePointer, SendDecision
  <2>2. CASE WriteRequest(a)
    <3>1. current[a] \in PendingRequest /\ order[a] \in [id: Calls, status: Decisions]
      BY <2>2 DEF WriteRequest, AdminLocals
    <3>2. [current[a] EXCEPT !.status = order[a].status] \in PendingRequest
      BY <3>1 DEF PendingRequest
    <3>3. \A c \in Calls : c = order[a].id =>
            /\ pending'[c] = [current[a] EXCEPT !.status = order[a].status]
            /\ decided'[c] # {}
      BY <2>2 DEF WriteRequest
    <3>4. \A c \in Calls : c # order[a].id =>
            pending'[c] = pending[c] /\ decided'[c] = decided[c]
      BY <2>2 DEF WriteRequest
    <3> QED
      BY <2>1, <3>2, <3>3, <3>4
  <2>3. CASE ~WriteRequest(a)
    <3>1. pending' = pending /\ decided' = decided
      BY <1>3, <2>3 DEF Order, AdminStep, ReadRequest, MintToken, WritePointer,
        SendDecision
    <3> QED
      BY <2>1, <3>1
  <2> QED
    BY <2>2, <2>3
<1>4. ASSUME NEW g \in Pollers, Ask(g) \/ PollerStep(g)
      PROVE  FiledInv'
  BY <1>4 DEF Ask, PollerStep, CheckPoll, ReadPolled, ReadPointer
<1>5. CASE \/ \E c \in Calls : DeadlinePasses(c) \/ ExpirePollToken(c)
           \/ \E t \in Admins : ExpireApprovalToken(t)
  BY <1>5 DEF DeadlinePasses, ExpirePollToken, ExpireApprovalToken
<1>6. CASE \E h \in Handlers : HandlerFails(h)
  BY <1>6 DEF HandlerFails
<1>7. CASE Restart
  BY <1>7 DEF Restart
<1> QED
  BY <1>1, <1>2, <1>3, <1>4, <1>5, <1>6, <1>7 DEF Next, Finished

(* With the key-value store an administrator sees every call that waits:   *)
(* an index that lost an id to another instance does not hide a request,   *)
(* since the list is made by a scan, and a restart loses nothing.          *)
THEOREM KvWaitingIsListed ==
  ASSUME KvEnabled
  PROVE  Spec => []WaitingIsListed
<1>1. Init => FiledInv
  BY DEF Init, FiledInv, OnFile, Handlers
<1>2. TypeInv /\ FiledInv /\ [Next]_vars => FiledInv'
  BY FiledStep
<1>3. FiledInv => WaitingIsListed
  <2> SUFFICES ASSUME FiledInv, NEW c \in Calls, decided[c] = {},
                      pc[c] \in {"readHeld", "sleep", "queued"}
               PROVE  <<"request", c>> \in Listing("pending")
    BY DEF WaitingIsListed
  <2>1. pending[c] # None /\ pending[c].status = "pending"
    BY ConstantsAssumption DEF FiledInv, OnFile
  <2>2. <<"request", c>> \in Scanned
    BY <2>1 DEF Scanned
  <2> QED
    BY <2>1, <2>2 DEF Listing
<1> QED
  BY <1>1, <1>2, <1>3, TypeInvariant, PTL DEF Spec

----------------------------------------------------------------------------
(***************************************************************************)
(* With the in-memory store the approval queue implements ApprovalPromise: *)
(* writing a decision is the promise's Decide, the last step of a call let *)
(* through by a person is its Run, and everything else is a stutter.       *)
(***************************************************************************)

(* The runs are those calls that a person let through.                    *)
LEMMA RunsFrame ==
  ASSUME \A d \in Calls :
           /\ d \in ForwardedByApproval' <=> d \in ForwardedByApproval
           /\ d \in ForwardedByApproval =>
                call'[d] = call[d] /\ basis'[d] = basis[d]
  PROVE  Runs' = Runs
<1>1. ForwardedByApproval' = ForwardedByApproval
  BY DEF ForwardedByApproval
<1>2. \A d \in ForwardedByApproval :
        Redeemed(d)' = Redeemed(d) /\ basis'[d] = basis[d]
  BY DEF ForwardedByApproval, Redeemed
<1> QED
  BY <1>1, <1>2 DEF Runs

(* The last step of such a call is a step of the promise.                 *)
LEMMA RunStep ==
  ASSUME Inv, NEW c \in Calls, pc[c] # "forwarded", pc'[c] = "forwarded",
         \A d \in Calls \ {c} : pc'[d] = pc[d],
         UNCHANGED <<call, basis, decided>>,
         basis[c] \in Calls, "approved" \in decided[basis[c]],
         Redeemed(c) = None => basis[c] = c,
         Redeemed(c) # None => Redeemed(c) \in Admins /\ pc[c] = "checkBurned"
  PROVE  Promise!Run(c, basis[c], Redeemed(c))
<1> USE ConstantsAssumption
<1>1. ForwardedByApproval' = ForwardedByApproval \cup {c}
  BY DEF ForwardedByApproval, Handlers
<1>2. \A d \in Calls : Redeemed(d)' = Redeemed(d)
  BY DEF Redeemed
<1>3. Runs' = Runs \cup
        {[call |-> c, request |-> basis[c], token |-> Redeemed(c)]}
  <2> DEFINE Run(d) == [call |-> d, request |-> basis[d], token |-> Redeemed(d)]
  <2>1. \A d \in ForwardedByApproval \cup {c} : Run(d)' = Run(d)
    BY <1>2 DEF ForwardedByApproval
  <2>2. Runs' = {Run(d)' : d \in ForwardedByApproval'}
    BY DEF Runs
  <2>3. Runs = {Run(d) : d \in ForwardedByApproval}
    BY DEF Runs
  <2> HIDE DEF Run
  <2>4. ASSUME NEW run \in Runs'
        PROVE  run \in Runs \cup {Run(c)}
    BY <1>1, <2>1, <2>2, <2>3
  <2>5. ASSUME NEW run \in Runs \cup {Run(c)}
        PROVE  run \in Runs'
    BY <1>1, <2>1, <2>2, <2>3
  <2>6. Runs' = Runs \cup {Run(c)}
    BY <2>4, <2>5
  <2> QED
    BY <2>6 DEF Run
<1>4. \A run \in Runs : run.call # c
  BY DEF Runs, ForwardedByApproval
<1>5. Redeemed(c) # None => \A run \in Runs : run.token # Redeemed(c)
  <2> SUFFICES ASSUME Redeemed(c) # None, NEW d \in ForwardedByApproval,
                      Redeemed(d) = Redeemed(c)
               PROVE  FALSE
    BY DEF Runs
  <2>1. Burned(c) /\ Burned(d) /\ d \in Calls /\ d # c
    BY DEF Burned, Redeemed, ForwardedByApproval
  <2>2. call[c].token = call[d].token
    BY <2>1 DEF Redeemed, Burned
  <2> QED
    BY <2>1, <2>2 DEF Inv, MemoryInv
<1>6. Outcome[basis[c]] = "approved" /\ Outcome' = Outcome
  BY DEF Outcome
<1> QED
  BY <1>3, <1>4, <1>5, <1>6 DEF Promise!Run

(* Nothing the promise speaks of changes.                                  *)
LEMMA PromiseStutters ==
  ASSUME decided' = decided,
         \A d \in Calls :
           /\ d \in ForwardedByApproval' <=> d \in ForwardedByApproval
           /\ d \in ForwardedByApproval =>
                call'[d] = call[d] /\ basis'[d] = basis[d]
  PROVE  UNCHANGED <<Outcome, Runs>>
<1>1. Runs' = Runs
  BY RunsFrame
<1>2. Outcome' = Outcome
  BY DEF Outcome
<1> QED
  BY <1>1, <1>2

(* Nothing is decided and nothing has run.                                 *)
LEMMA PromiseInit == Init => Promise!Init
<1> SUFFICES ASSUME Init PROVE Promise!Init
  OBVIOUS
<1>1. Runs = {}
  BY DEF Init, Runs, ForwardedByApproval, Handlers
<1>2. Outcome = [r \in Calls |-> "open"]
  BY DEF Init, Outcome
<1> QED
  BY <1>1, <1>2 DEF Promise!Init

(* A tools/call handler runs under the promise, or changes nothing of it.  *)
LEMMA PromiseCallStep ==
  ASSUME ~KvEnabled, Inv, NEW c \in Calls, Arrive(c) \/ CallStep(c)
  PROVE  Promise!Next \/ UNCHANGED <<Outcome, Runs>>
<1> USE ConstantsAssumption
    DEF At, Goto, Handlers, ForwardedByApproval, storeVars, historyVars
<1>1. pc \in [Handlers -> {"idle", "sleep"} \cup MidTurn \cup Done]
      /\ call \in [Calls -> ToolsCall \cup {None}]
      /\ basis \in [Calls -> Calls \cup {None}]
  BY DEF Inv, TypeInv, TypeOK
<1>2. CallLocals(c) /\ CallProvenance(c) /\ CallMemory(c)
  BY DEF Inv, TypeInv, ProvenanceInv, MemoryInv
<1>3. CASE Arrive(c)
  <2>1. basis[c] = None /\ pc[c] = "idle"
    BY <1>2, <1>3 DEF Arrive, CallProvenance
  <2> QED
    BY <1>1, <1>3, <2>1, PromiseStutters DEF Arrive
<1>4. CASE CreatePending(c)
  BY <1>1, <1>4, PromiseStutters DEF CreatePending, Filed
<1>5. CASE ReadIndex(c) \/ WriteIndex(c) \/ MintPollToken(c) \/ SendQueued(c)
           \/ Wake(c) \/ BurnToken(c)
  BY <1>1, <1>5, PromiseStutters
     DEF ReadIndex, WriteIndex, Filed, MintPollToken, SendQueued, Wake, BurnToken
<1>6. CASE ReadToken(c)
  <2>1. /\ pc[c] = "readToken" /\ pc'[c] \in {"burnToken", "tokenRefused"}
        /\ \A d \in Calls \ {c} : pc'[d] = pc[d] /\ basis'[d] = basis[d]
        /\ call' = call /\ decided' = decided
    BY <1>1, <1>6 DEF ReadToken
  <2>2. \A d \in Calls :
          /\ d \in ForwardedByApproval' <=> d \in ForwardedByApproval
          /\ d \in ForwardedByApproval => basis'[d] = basis[d]
    BY <2>1
  <2> HIDE DEF ForwardedByApproval
  <2> QED
    BY <2>1, <2>2, PromiseStutters
<1>7. CASE ReadHeld(c)
  <2>1. /\ pc[c] = "readHeld" /\ call[c].mode = "hold" /\ basis[c] = c
        /\ \A d \in Calls \ {c} : pc'[d] = pc[d]
        /\ UNCHANGED <<call, basis, decided>>
    BY <1>1, <1>2, <1>7 DEF ReadHeld, CallLocals, CallProvenance
  <2>2. CASE pc'[c] = "forwarded"
    <3>1. pending[c] # None /\ pending[c].status = "approved"
      BY <1>1, <1>7, <2>2 DEF ReadHeld
    <3>2. "approved" \in decided[c]
      BY <3>1 DEF Inv, ProvenanceInv, RequestProvenance
    <3>3. Redeemed(c) = None
      BY <2>1 DEF Redeemed
    <3> HIDE DEF ForwardedByApproval, Handlers
    <3>4. Promise!Run(c, basis[c], Redeemed(c))
      BY <2>1, <2>2, <3>2, <3>3, RunStep
    <3> QED
      BY <2>1, <3>3, <3>4 DEF Promise!Next
  <2>3. CASE pc'[c] # "forwarded"
    <3>1. ForwardedByApproval' = ForwardedByApproval
      BY <2>1, <2>3
    <3> HIDE DEF ForwardedByApproval
    <3> QED
      BY <2>1, <3>1, PromiseStutters
  <2> QED
    BY <2>2, <2>3
<1>8. CASE CheckBurned(c)
  <2>1. /\ pc[c] = "checkBurned" /\ call[c].mode = "token"
        /\ call[c].token \in Admins /\ basis[c] \in Calls
        /\ \A d \in Calls \ {c} : pc'[d] = pc[d]
        /\ UNCHANGED <<call, basis, decided>>
    BY <1>1, <1>2, <1>8 DEF CheckBurned, CallLocals
  <2>2. CASE pc'[c] = "forwarded"
    <3>1. /\ pending[basis[c]] # None
          /\ pending[basis[c]].status = "approved"
      BY <1>1, <1>8, <2>2 DEF CheckBurned
    <3>2. "approved" \in decided[basis[c]]
      BY <2>1, <3>1 DEF Inv, ProvenanceInv, RequestProvenance
    <3>3. Redeemed(c) \in Admins
      BY <2>1 DEF Redeemed
    <3>4. Redeemed(c) # None
      BY <3>3
    <3> HIDE DEF ForwardedByApproval, Handlers
    <3>5. Promise!Run(c, basis[c], Redeemed(c))
      BY <2>1, <2>2, <3>2, <3>3, <3>4, RunStep
    <3> QED
      BY <2>1, <3>3, <3>5 DEF Promise!Next
  <2>3. CASE pc'[c] # "forwarded"
    <3>1. ForwardedByApproval' = ForwardedByApproval
      BY <2>1, <2>3
    <3> HIDE DEF ForwardedByApproval
    <3> QED
      BY <2>1, <3>1, PromiseStutters
  <2> QED
    BY <2>2, <2>3
<1> QED
  BY <1>3, <1>4, <1>5, <1>6, <1>7, <1>8 DEF CallStep

(* An administrator's handler decides once, or changes nothing of it.      *)
LEMMA PromiseAdminStep ==
  ASSUME ~KvEnabled, Inv, NEW a \in Admins, Order(a) \/ AdminStep(a)
  PROVE  Promise!Next \/ UNCHANGED <<Outcome, Runs>>
<1> USE ConstantsAssumption
    DEF At, Goto, Handlers, ForwardedByApproval, storeVars, historyVars
<1>1. pc \in [Handlers -> {"idle", "sleep"} \cup MidTurn \cup Done]
      /\ decided \in [Calls -> SUBSET Decisions]
  BY DEF Inv, TypeInv, TypeOK
<1>2. /\ \A c \in Calls : pc'[c] = pc[c]
      /\ UNCHANGED <<call, basis>>
  BY <1>1 DEF Order, AdminStep, ReadRequest, WriteRequest, MintToken,
     WritePointer, SendDecision
<1>3. CASE WriteRequest(a)
  <2> DEFINE id == order[a].id
             decision == order[a].status
  <2>1. id \in Calls /\ decision \in Decisions
    BY <1>3 DEF WriteRequest, Inv, TypeInv, AdminLocals
  <2>2. decided[id] = {}
    <3>1. pending[id] # None /\ pending[id].status = "pending"
      BY <1>3 DEF WriteRequest, Inv, MemoryInv, AdminMemory
    <3> QED
      BY <2>1, <3>1 DEF Inv, MemoryInv, RequestMemory
  <2>3. decided' = [decided EXCEPT ![id] = {decision}]
    BY <1>3, <2>2 DEF WriteRequest
  <2> HIDE DEF id, decision
  <2>4. Outcome[id] = "open"
    BY <2>1, <2>2 DEF Outcome
  <2>5. Outcome' = [Outcome EXCEPT ![id] = decision]
    BY <1>1, <2>1, <2>3 DEF Outcome, Decisions
  <2>6. Runs' = Runs
    BY <1>2, RunsFrame
  <2>7. Promise!Decide(id, decision)
    BY <2>4, <2>5, <2>6 DEF Promise!Decide
  <2> QED
    BY <2>1, <2>7 DEF Promise!Next, Decisions
<1>4. CASE Order(a) \/ ReadRequest(a) \/ MintToken(a) \/ WritePointer(a)
           \/ SendDecision(a)
  <2>1. decided' = decided
    BY <1>4 DEF Order, ReadRequest, MintToken, WritePointer, SendDecision
  <2> QED
    BY <1>2, <2>1, PromiseStutters
<1> QED
  BY <1>3, <1>4 DEF AdminStep

(* Every step of the queue is a step of the promise or a stutter.          *)
LEMMA PromiseStep ==
  ASSUME ~KvEnabled, Inv, [Next]_vars
  PROVE  [Promise!Next]_<<Outcome, Runs>>
<1> USE ConstantsAssumption
    DEF Goto, Handlers, ForwardedByApproval, storeVars, handlerVars, historyVars
<1>1. pc \in [Handlers -> {"idle", "sleep"} \cup MidTurn \cup Done]
  BY DEF Inv, TypeInv, TypeOK
<1>2. CASE UNCHANGED vars
  BY <1>2, PromiseStutters DEF vars
<1>3. ASSUME NEW c \in Calls, Arrive(c) \/ CallStep(c)
      PROVE  Promise!Next \/ UNCHANGED <<Outcome, Runs>>
  BY <1>3, PromiseCallStep
<1>4. ASSUME NEW a \in Admins, Order(a) \/ AdminStep(a)
      PROVE  Promise!Next \/ UNCHANGED <<Outcome, Runs>>
  BY <1>4, PromiseAdminStep
<1>5. ASSUME NEW g \in Pollers, Ask(g) \/ PollerStep(g)
      PROVE  UNCHANGED <<Outcome, Runs>>
  <2>1. /\ \A c \in Calls : pc'[c] = pc[c]
        /\ UNCHANGED <<call, basis, decided>>
    BY <1>1, <1>5 DEF Ask, PollerStep, CheckPoll, ReadPolled, ReadPointer
  <2> QED
    BY <2>1, PromiseStutters
<1>6. ASSUME \/ \E c \in Calls : DeadlinePasses(c) \/ ExpirePollToken(c)
             \/ \E t \in Admins : ExpireApprovalToken(t)
             \/ \E h \in Handlers : HandlerFails(h)
      PROVE  UNCHANGED <<Outcome, Runs>>
  <2>1. UNCHANGED <<pc, call, basis, decided>>
    BY <1>6 DEF DeadlinePasses, ExpirePollToken, ExpireApprovalToken,
       HandlerFails
  <2> QED
    BY <2>1, PromiseStutters
<1>7. CASE Restart
  <2>1. /\ \A c \in Calls : pc'[c] = "forwarded" <=> pc[c] = "forwarded"
        /\ UNCHANGED <<call, basis, decided>>
    BY <1>1, <1>7 DEF Restart, InFlight, MidTurn, CallMidTurn, AdminMidTurn,
       PollerMidTurn
  <2> QED
    BY <2>1, PromiseStutters
<1> QED
  BY <1>2, <1>3, <1>4, <1>5, <1>6, <1>7 DEF Next, Finished

(* With the in-memory store the queue implements what it promises the      *)
(* operator: one decision per request, a call lacking a scope runs only    *)
(* under an approved request, a held call under its own, and an approval   *)
(* token lets one call through.                                            *)
THEOREM MemoryKeepsPromise ==
  ASSUME ~KvEnabled
  PROVE  Spec => KeepsPromise
<1>1. Init => Promise!Init
  BY PromiseInit
<1>2. Inv /\ [Next]_vars => [Promise!Next]_<<Outcome, Runs>>
  BY PromiseStep
<1> QED
  BY <1>1, <1>2, MemoryInvariant, PTL DEF Spec, KeepsPromise, Promise!Spec
=============================================================================
