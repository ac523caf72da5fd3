--------------------------- MODULE ApprovalQueue ---------------------------
(***************************************************************************)
(* The approval queue of the guard proxy: what happens to a tools/call     *)
(* whose token lacks the required scope.                                   *)
(*                                                                         *)
(*   gateway/pending-store.ts          the store of requests and tokens    *)
(*   gateway/proxy-routes-mcp.ts       the tools/call handler              *)
(*   gateway/proxy-routes-pending.ts   the administrator's and the         *)
(*                                     polling agent's handlers            *)
(*                                                                         *)
(* One HTTP request is one handler, and a handler serves one request.  A   *)
(* handler is sequential code cut at its awaits.  With the REST key-value  *)
(* store every store operation is a network round trip, so any other       *)
(* handler, of this process or of another instance, may run between two of *)
(* them.  With the in-memory Maps an await is a microtask: a handler that  *)
(* has started a turn of the event loop finishes it before another handler *)
(* runs (handlers are started by separate event-loop callbacks; requests   *)
(* pipelined into one socket read are not modelled).                       *)
(*                                                                         *)
(* Ids are named by the handler that draws them: the pending request a     *)
(* call files is named by the call, the approval token an approval mints   *)
(* by the administrator's handler (randomUUID collisions are ignored).     *)
(***************************************************************************)
EXTENDS Naturals

CONSTANTS
  Calls,       \* POST /mcp/:server tools/call handlers, and pending ids
  Admins,      \* POST /pending/:id/approve|deny handlers, and token ids
  Pollers,     \* GET /pending/:id handlers
  Tools,       \* (server, tool) pairs: an approval token is bound to both
  Modes,       \* the kinds of tools/call that arrive, a subset of AllModes
  KvEnabled,   \* is the REST key-value store configured?
  None         \* the absent value: null, undefined, a missing key

(* "allowed": the guard allows the call.  "refused": it is denied for a    *)
(* reason other than a missing scope, or the queue is switched off.  The   *)
(* others lack a scope: "hold" carries X-Wait-For-Approval, "queue" does   *)
(* not, "token" carries an X-Approval-Token.                               *)
AllModes == {"allowed", "refused", "hold", "queue", "token"}

Handlers == Calls \cup Admins \cup Pollers

Decisions == {"approved", "denied"}

PendingRequest == [status: {"pending"} \cup Decisions, tool: Tools]

ApprovalTokenRecord == [pendingId: Calls, tool: Tools, expired: BOOLEAN]

ASSUME ConstantsAssumption ==
  /\ Calls \cap Admins = {} /\ Calls \cap Pollers = {}
  /\ Admins \cap Pollers = {}
  /\ None \notin Handlers \cup PendingRequest \cup ApprovalTokenRecord
  /\ Modes \subseteq AllModes
  /\ KvEnabled \in BOOLEAN

VARIABLES
  (* handlers *)
  pc,             \* where each handler is
  call,           \* what each tools/call asks for
  basis,          \* pending id whose approval the call proceeds under
  late,           \* held calls whose long-poll deadline has passed
  indexRead,      \* the pending index as each call last read it
  order,          \* what each administrator decides, about which request
  current,        \* the request as the administrator's handler read it
  asked,          \* the request each poller asks about, and its credential
  (* the store *)
  pending,        \* gateway:pending:<id>
  index,          \* gateway:pending:index
  approvalToken,  \* gateway:approval-token:<token>
  pointer,        \* gateway:pending:approval-token:<id>
  pollToken,      \* gateway:poll-token:<token>, by the request it is for
  (* observations *)
  disclosed,      \* approval tokens some agent has been given
  audit,          \* decisions logged, with the pending request they cite
  decided         \* decisions ever written to each request

handlerVars == <<pc, call, basis, late, indexRead, order, current, asked>>
storeVars == <<pending, index, approvalToken, pointer, pollToken>>
historyVars == <<disclosed, audit, decided>>
vars == <<handlerVars, storeVars, historyVars>>

----------------------------------------------------------------------------
(* Control points.  A handler at a point of MidTurn has begun a turn; at   *)
(* "sleep" a held call has yielded to the timer of its next poll.          *)

CallMidTurn == {"create", "readIndex", "writeIndex", "mintPoll", "sendQueued",
                "readHeld", "readToken", "burnToken", "checkBurned"}
AdminMidTurn == {"readRequest", "writeRequest", "mintToken", "writePointer",
                 "sendDecision"}
PollerMidTurn == {"checkPoll", "readPolled", "readPointer"}
MidTurn == CallMidTurn \cup AdminMidTurn \cup PollerMidTurn

CallDone == {"forwarded", "queued", "denied", "timedOut", "tokenRefused",
             "failed"}
AdminDone == {"decided", "notFound", "failed"}
PollerDone == {"unauthorised", "notFound", "sawStatus", "sawToken",
               "sawNoToken", "failed"}
Done == CallDone \cup AdminDone \cup PollerDone

InFlight(h) == pc[h] \in MidTurn \cup {"sleep"}

(* Variant: an await has crept into a turn.                                *)
MayRun_Interleaved(h) == TRUE

(* In memory a turn is not interrupted; over the network anyone may run.   *)
MayRun(h) == KvEnabled \/ \A g \in Handlers \ {h} : pc[g] \notin MidTurn

At(h, from) == pc[h] = from /\ MayRun(h)

Goto(h, to) == pc' = [pc EXCEPT ![h] = to]

(* The calls that have reached the upstream server because a person let    *)
(* them through.                                                           *)
ForwardedByApproval == {c \in Calls : pc[c] = "forwarded" /\ basis[c] # None}

(* The approval token a call was let through with, if any.                 *)
Redeemed(c) == IF call[c].mode = "token" THEN call[c].token ELSE None

----------------------------------------------------------------------------
(* tools/call: POST /mcp/:server                                           *)

(* guard.authorize has returned; the headers select the branch.  An agent  *)
(* can only send a token it was given, or one the proxy never issued.      *)
Arrive(c) ==
  /\ At(c, "idle")
  /\ \E tool \in Tools, mode \in Modes :
       \E token \in IF mode = "token" THEN disclosed \cup {None} ELSE {None} :
         call' = [call EXCEPT ![c] =
                    [tool |-> tool, mode |-> mode, token |-> token]]
  /\ Goto(c, CASE call'[c].mode = "allowed" -> "forwarded"
               [] call'[c].mode = "refused" -> "denied"
               [] call'[c].mode = "token"   -> "readToken"
               [] OTHER                     -> "create")
  /\ UNCHANGED <<basis, late, indexRead, order, current, asked,
                 storeVars, historyVars>>

(* After the request is on file: log the decision, then hold or answer.    *)
Filed(c) ==
  /\ audit' = audit \cup {<<"pending", c>>}
  /\ Goto(c, IF call[c].mode = "hold" THEN "readHeld" ELSE "mintPoll")

(* createPendingRequest.  Only the key-value store keeps an index.         *)
CreatePending(c) ==
  /\ At(c, "create")
  /\ pending' = [pending EXCEPT ![c] =
                   [status |-> "pending", tool |-> call[c].tool]]
  /\ basis' = [basis EXCEPT ![c] = c]
  /\ IF KvEnabled THEN Goto(c, "readIndex") /\ UNCHANGED audit
                  ELSE Filed(c)
  /\ UNCHANGED <<call, late, indexRead, order, current, asked, index,
                 approvalToken, pointer, pollToken, disclosed, decided>>

(* addToPendingIndex: read the whole index, then write it back.            *)
ReadIndex(c) ==
  /\ At(c, "readIndex")
  /\ indexRead' = [indexRead EXCEPT ![c] = index]
  /\ Goto(c, "writeIndex")
  /\ UNCHANGED <<call, basis, late, order, current, asked,
                 storeVars, historyVars>>

WriteIndex(c) ==
  /\ At(c, "writeIndex")
  /\ index' = indexRead[c] \cup {c}
  /\ Filed(c)
  /\ UNCHANGED <<call, basis, late, indexRead, order, current, asked, pending,
                 approvalToken, pointer, pollToken, disclosed, decided>>

(* generatePendingPollToken.  Its two keys are written as one step: the    *)
(* second, by request id, is read by nothing but the listing's scan.       *)
MintPollToken(c) ==
  /\ At(c, "mintPoll")
  /\ pollToken' = [pollToken EXCEPT ![c] = "live"]
  /\ Goto(c, "sendQueued")
  /\ UNCHANGED <<call, basis, late, indexRead, order, current, asked, pending,
                 index, approvalToken, pointer, historyVars>>

(* 202 with the pending id and its poll token.                             *)
SendQueued(c) ==
  /\ At(c, "sendQueued")
  /\ Goto(c, "queued")
  /\ UNCHANGED <<call, basis, late, indexRead, order, current, asked,
                 storeVars, historyVars>>

(* Variant: the loop never looks at the clock.                             *)
ReadHeld_NoDeadline(c) ==
  /\ At(c, "readHeld")
  /\ Goto(c, IF pending[c] = None THEN "timedOut"
             ELSE IF pending[c].status = "pending" THEN "sleep"
             ELSE IF pending[c].status = "approved" THEN "forwarded"
             ELSE "denied")
  /\ UNCHANGED <<call, basis, late, indexRead, order, current, asked,
                 storeVars, historyVars>>

(* Variant: the deadline is looked at before the status just read.         *)
ReadHeld_DeadlineFirst(c) ==
  /\ At(c, "readHeld")
  /\ Goto(c, IF pending[c] = None \/ c \in late THEN "timedOut"
             ELSE IF pending[c].status = "pending" THEN "sleep"
             ELSE IF pending[c].status = "approved" THEN "forwarded"
             ELSE "denied")
  /\ UNCHANGED <<call, basis, late, indexRead, order, current, asked,
                 storeVars, historyVars>>

(* One read of waitForPendingResolution, and what the handler does with it *)
(* when it is the last: forward on the held connection, 403, or 504.       *)
ReadHeld(c) ==
  LET undecided == pending[c] # None /\ pending[c].status = "pending" IN
  /\ At(c, "readHeld")
  /\ Goto(c, IF undecided /\ c \notin late THEN "sleep"
             ELSE IF pending[c] = None \/ undecided THEN "timedOut"
             ELSE IF pending[c].status = "approved" THEN "forwarded"
             ELSE "denied")
  /\ UNCHANGED <<call, basis, late, indexRead, order, current, asked,
                 storeVars, historyVars>>

Wake(c) ==
  /\ At(c, "sleep")
  /\ Goto(c, "readHeld")
  /\ UNCHANGED <<call, basis, late, indexRead, order, current, asked,
                 storeVars, historyVars>>

(* Variant: the token's server and tool are not compared.                  *)
ReadToken_AnyTool(c) ==
  LET token == call[c].token IN
  /\ At(c, "readToken")
  /\ IF token # None /\ approvalToken[token] # None
     THEN /\ basis' = [basis EXCEPT ![c] = approvalToken[token].pendingId]
          /\ Goto(c, "burnToken")
     ELSE Goto(c, "tokenRefused") /\ UNCHANGED basis
  /\ UNCHANGED <<call, late, indexRead, order, current, asked,
                 storeVars, historyVars>>

(* validateApprovalToken up to the burn: present, in date, right target.   *)
ReadToken(c) ==
  LET token == call[c].token
      valid == /\ token # None
               /\ approvalToken[token] # None
               /\ ~approvalToken[token].expired
               /\ approvalToken[token].tool = call[c].tool
  IN
  /\ At(c, "readToken")
  /\ IF valid
     THEN /\ basis' = [basis EXCEPT ![c] = approvalToken[token].pendingId]
          /\ Goto(c, "burnToken")
     ELSE Goto(c, "tokenRefused") /\ UNCHANGED basis
  /\ UNCHANGED <<call, late, indexRead, order, current, asked,
                 storeVars, historyVars>>

(* Variant: the token is checked but not burned.                           *)
BurnToken_Kept(c) ==
  /\ At(c, "burnToken")
  /\ Goto(c, "checkBurned")
  /\ UNCHANGED <<call, basis, late, indexRead, order, current, asked,
                 storeVars, historyVars>>

(* The burn: a delete that does not ask whether the key was still there.   *)
BurnToken(c) ==
  /\ At(c, "burnToken")
  /\ approvalToken' = [approvalToken EXCEPT ![call[c].token] = None]
  /\ Goto(c, "checkBurned")
  /\ UNCHANGED <<call, basis, late, indexRead, order, current, asked, pending,
                 index, pointer, pollToken, historyVars>>

(* The request behind the burned token must (still) be approved.           *)
CheckBurned(c) ==
  LET request == pending[basis[c]]
      approved == request # None /\ request.status = "approved"
  IN
  /\ At(c, "checkBurned")
  /\ IF approved
     THEN /\ audit' = audit \cup {<<"allow", basis[c]>>}
          /\ Goto(c, "forwarded")
     ELSE Goto(c, "tokenRefused") /\ UNCHANGED audit
  /\ UNCHANGED <<call, basis, late, indexRead, order, current, asked,
                 storeVars, disclosed, decided>>

CallStep(c) ==
  \/ CreatePending(c) \/ ReadIndex(c) \/ WriteIndex(c)
  \/ MintPollToken(c) \/ SendQueued(c)
  \/ ReadHeld(c) \/ Wake(c)
  \/ ReadToken(c) \/ BurnToken(c) \/ CheckBurned(c)

----------------------------------------------------------------------------
(* POST /pending/:id/approve and POST /pending/:id/deny                    *)

(* Authorised as gateway admin (a refusal changes nothing); the id in the  *)
(* path may or may not be on file.                                         *)
Order(a) ==
  /\ At(a, "idle")
  /\ \E id \in Calls, status \in Decisions :
       order' = [order EXCEPT ![a] = [id |-> id, status |-> status]]
  /\ Goto(a, "readRequest")
  /\ UNCHANGED <<call, basis, late, indexRead, current, asked,
                 storeVars, historyVars>>

(* Variant: no guard against a second resolution.                          *)
ReadRequest_NoGuard(a) ==
  LET request == pending[order[a].id] IN
  /\ At(a, "readRequest")
  /\ current' = [current EXCEPT ![a] = request]
  /\ Goto(a, IF request = None THEN "notFound" ELSE "writeRequest")
  /\ UNCHANGED <<call, basis, late, indexRead, order, asked,
                 storeVars, historyVars>>

(* Variant: a resolved request is returned whatever its outcome.           *)
ReadRequest_AnyOutcome(a) ==
  LET request == pending[order[a].id]
      again == IF order[a].status = "approved" THEN "mintToken"
                                               ELSE "sendDecision"
  IN
  /\ At(a, "readRequest")
  /\ current' = [current EXCEPT ![a] = request]
  /\ Goto(a, IF request = None THEN "notFound"
             ELSE IF request.status = "pending" THEN "writeRequest"
             ELSE again)
  /\ UNCHANGED <<call, basis, late, indexRead, order, asked,
                 storeVars, historyVars>>

(* resolvePendingRequest: read, and the guard against a second resolution. *)
(* A repeated approval is let through, and goes on to mint a token.        *)
ReadRequest(a) ==
  LET request == pending[order[a].id]
      again == IF order[a].status = "approved" THEN "mintToken"
                                               ELSE "sendDecision"
  IN
  /\ At(a, "readRequest")
  /\ current' = [current EXCEPT ![a] = request]
  /\ Goto(a, IF request = None THEN "notFound"
             ELSE IF request.status = "pending" THEN "writeRequest"
             ELSE IF request.status = order[a].status THEN again
             ELSE "notFound")
  /\ UNCHANGED <<call, basis, late, indexRead, order, asked,
                 storeVars, historyVars>>

(* Variant: the verb of the path is stored in place of the status.         *)
WriteRequest_PathVerb(a) ==
  LET id == order[a].id IN
  /\ At(a, "writeRequest")
  /\ pending' = [pending EXCEPT ![id] = [current[a] EXCEPT !.status = "approve"]]
  /\ decided' = [decided EXCEPT ![id] = @ \cup {order[a].status}]
  /\ Goto(a, "mintToken")
  /\ UNCHANGED <<call, basis, late, indexRead, order, current, asked, index,
                 approvalToken, pointer, pollToken, disclosed, audit>>

(* ... and write the whole record back with the decision.                  *)
WriteRequest(a) ==
  LET id == order[a].id IN
  /\ At(a, "writeRequest")
  /\ pending' = [pending EXCEPT ![id] =
                   [current[a] EXCEPT !.status = order[a].status]]
  /\ decided' = [decided EXCEPT ![id] = @ \cup {order[a].status}]
  /\ Goto(a, IF order[a].status = "approved" THEN "mintToken"
                                             ELSE "sendDecision")
  /\ UNCHANGED <<call, basis, late, indexRead, order, current, asked, index,
                 approvalToken, pointer, pollToken, disclosed, audit>>

(* generateApprovalToken: the token's record, then the request's pointer.  *)
MintToken(a) ==
  /\ At(a, "mintToken")
  /\ approvalToken' = [approvalToken EXCEPT ![a] =
                         [pendingId |-> order[a].id,
                          tool      |-> current[a].tool,
                          expired   |-> FALSE]]
  /\ Goto(a, "writePointer")
  /\ UNCHANGED <<call, basis, late, indexRead, order, current, asked, pending,
                 index, pointer, pollToken, historyVars>>

(* Variant: the request does not learn its token.                          *)
WritePointer_Missing(a) ==
  /\ At(a, "writePointer")
  /\ Goto(a, "sendDecision")
  /\ UNCHANGED <<call, basis, late, indexRead, order, current, asked,
                 storeVars, historyVars>>

WritePointer(a) ==
  /\ At(a, "writePointer")
  /\ pointer' = [pointer EXCEPT ![order[a].id] = a]
  /\ Goto(a, "sendDecision")
  /\ UNCHANGED <<call, basis, late, indexRead, order, current, asked, pending,
                 index, approvalToken, pollToken, historyVars>>

(* Variant: an approval is answered but not logged.                        *)
SendDecision_NoLog(a) ==
  /\ At(a, "sendDecision")
  /\ disclosed' = IF order[a].status = "approved" THEN disclosed \cup {a}
                                                  ELSE disclosed
  /\ Goto(a, "decided")
  /\ UNCHANGED <<call, basis, late, indexRead, order, current, asked,
                 storeVars, audit, decided>>

(* Log the decision and answer; an approval's answer carries its token.    *)
SendDecision(a) ==
  LET approved == order[a].status = "approved" IN
  /\ At(a, "sendDecision")
  /\ audit' = audit \cup {<<IF approved THEN "allow" ELSE "deny", order[a].id>>}
  /\ disclosed' = IF approved THEN disclosed \cup {a} ELSE disclosed
  /\ Goto(a, "decided")
  /\ UNCHANGED <<call, basis, late, indexRead, order, current, asked,
                 storeVars, decided>>

AdminStep(a) ==
  ReadRequest(a) \/ WriteRequest(a) \/ MintToken(a) \/ WritePointer(a)
  \/ SendDecision(a)

----------------------------------------------------------------------------
(* GET /pending/:id                                                        *)

(* The caller shows the poll token a 202 gave it, or is an admin (None).    *)
Ask(g) ==
  /\ At(g, "idle")
  /\ \E id \in Calls, holds \in {c \in Calls : pc[c] = "queued"} \cup {None} :
       asked' = [asked EXCEPT ![g] = [id |-> id, holds |-> holds]]
  /\ Goto(g, "checkPoll")
  /\ UNCHANGED <<call, basis, late, indexRead, order, current,
                 storeVars, historyVars>>

(* validatePendingPollToken, else the admin check.                         *)
CheckPoll(g) ==
  LET mayRead == \/ asked[g].holds = None
                 \/ /\ pollToken[asked[g].holds] = "live"
                    /\ asked[g].holds = asked[g].id
  IN
  /\ At(g, "checkPoll")
  /\ Goto(g, IF mayRead THEN "readPolled" ELSE "unauthorised")
  /\ UNCHANGED <<call, basis, late, indexRead, order, current, asked,
                 storeVars, historyVars>>

ReadPolled(g) ==
  LET request == pending[asked[g].id] IN
  /\ At(g, "readPolled")
  /\ Goto(g, IF request = None THEN "notFound"
             ELSE IF request.status = "approved" THEN "readPointer"
             ELSE "sawStatus")
  /\ UNCHANGED <<call, basis, late, indexRead, order, current, asked,
                 storeVars, historyVars>>

(* getApprovalTokenForPending: whatever the pointer names, burned or not.  *)
ReadPointer(g) ==
  LET token == pointer[asked[g].id] IN
  /\ At(g, "readPointer")
  /\ IF token = None THEN Goto(g, "sawNoToken") /\ UNCHANGED disclosed
     ELSE Goto(g, "sawToken") /\ disclosed' = disclosed \cup {token}
  /\ UNCHANGED <<call, basis, late, indexRead, order, current, asked,
                 storeVars, audit, decided>>

PollerStep(g) == CheckPoll(g) \/ ReadPolled(g) \/ ReadPointer(g)

----------------------------------------------------------------------------
(* The clock and the failures                                              *)

(* Date.now() reaches the deadline of a held call (pendingLongPollMaxMs).  *)
DeadlinePasses(c) ==
  /\ InFlight(c) /\ c \notin late
  /\ call[c].mode = "hold"
  /\ late' = late \cup {c}
  /\ UNCHANGED <<pc, call, basis, indexRead, order, current, asked,
                 storeVars, historyVars>>

(* Date.now() passes expiresAt of an approval token (1 h) ...              *)
ExpireApprovalToken(t) ==
  /\ approvalToken[t] # None
  /\ ~approvalToken[t].expired
  /\ approvalToken' = [approvalToken EXCEPT ![t].expired = TRUE]
  /\ UNCHANGED <<handlerVars, pending, index, pointer, pollToken, historyVars>>

(* ... or of a poll token (10 min).                                        *)
ExpirePollToken(c) ==
  /\ pollToken[c] = "live"
  /\ pollToken' = [pollToken EXCEPT ![c] = "expired"]
  /\ UNCHANGED <<handlerVars, pending, index, approvalToken, pointer,
                 historyVars>>

(* A store operation throws, or the instance running h dies: the client    *)
(* gets a 500 or nothing.  A write whose answer was lost is the write      *)
(* followed by this step.                                                  *)
HandlerFails(h) ==
  /\ KvEnabled
  /\ InFlight(h)
  /\ Goto(h, "failed")
  /\ UNCHANGED <<call, basis, late, indexRead, order, current, asked,
                 storeVars, historyVars>>

(* Without the key-value store a restart loses the Maps.                   *)
Restart ==
  /\ ~KvEnabled
  /\ pc' = [h \in Handlers |-> IF InFlight(h) THEN "failed" ELSE pc[h]]
  /\ pending' = [c \in Calls |-> None]
  /\ approvalToken' = [t \in Admins |-> None]
  /\ pointer' = [c \in Calls |-> None]
  /\ pollToken' = [c \in Calls |-> "none"]
  /\ UNCHANGED <<call, basis, late, indexRead, order, current, asked, index,
                 historyVars>>

----------------------------------------------------------------------------

Init ==
  /\ pc = [h \in Handlers |-> "idle"]
  /\ call = [c \in Calls |-> None]
  /\ basis = [c \in Calls |-> None]
  /\ late = {}
  /\ indexRead = [c \in Calls |-> {}]
  /\ order = [a \in Admins |-> None]
  /\ current = [a \in Admins |-> None]
  /\ asked = [g \in Pollers |-> None]
  /\ pending = [c \in Calls |-> None]
  /\ index = {}
  /\ approvalToken = [t \in Admins |-> None]
  /\ pointer = [c \in Calls |-> None]
  /\ pollToken = [c \in Calls |-> "none"]
  /\ disclosed = {}
  /\ audit = {}
  /\ decided = [c \in Calls |-> {}]

(* Every handler has served its request.                                   *)
Finished ==
  /\ \A h \in Handlers : pc[h] \in Done
  /\ UNCHANGED vars

Next ==
  \/ \E c \in Calls : Arrive(c) \/ CallStep(c)
  \/ \E a \in Admins : Order(a) \/ AdminStep(a)
  \/ \E g \in Pollers : Ask(g) \/ PollerStep(g)
  \/ \E c \in Calls : DeadlinePasses(c) \/ ExpirePollToken(c)
  \/ \E t \in Admins : ExpireApprovalToken(t)
  \/ \E h \in Handlers : HandlerFails(h)
  \/ Restart
  \/ Finished

Spec == Init /\ [][Next]_vars

(* A handler that has begun runs on, the clock advances, and a due timer   *)
(* is served even though other turns come between (the event loop's timer  *)
(* queue is first-in first-out).  Nobody is obliged to call or to decide.  *)
Fairness ==
  /\ \A c \in Calls : /\ WF_vars(CallStep(c))
                      /\ SF_vars(Wake(c))
                      /\ WF_vars(DeadlinePasses(c))
  /\ \A a \in Admins : WF_vars(AdminStep(a))
  /\ \A g \in Pollers : WF_vars(PollerStep(g))

FairSpec == Spec /\ Fairness

----------------------------------------------------------------------------
(* GET /pending.                                                           *)

(* What the store's scan turns up: in memory the requests; in the key-     *)
(* value store every key under gateway:pending: except the index.          *)
Scanned ==
  LET requests == {<<"request", c>> : c \in {c \in Calls : pending[c] # None}}
      tokens   == {<<"approvalToken", c>> :
                     c \in {c \in Calls : pointer[c] # None}}
      polls    == {<<"pollToken", c>> :
                     c \in {c \in Calls : pollToken[c] = "live"}}
  IN IF KvEnabled THEN requests \cup tokens \cup polls ELSE requests

(* Variant: the list is read from the index, as the index invites.         *)
Listing_FromIndex(status) ==
  {<<"request", c>> :
     c \in {c \in index : pending[c] # None /\ pending[c].status = status}}

(* listPendingRequests, with its optional status filter.                   *)
Listing(status) ==
  IF status = None THEN Scanned
  ELSE {entry \in Scanned :
          entry[1] = "request" /\ pending[entry[2]].status = status}

----------------------------------------------------------------------------
(* Invariants                                                              *)

ToolsCall == [tool: Tools, mode: Modes, token: Admins \cup {None}]

(* Every variable has its type: the shape of the handlers' locals, of the  *)
(* stored records and of the history.                                      *)
TypeOK ==
  /\ pc \in [Handlers -> {"idle", "sleep"} \cup MidTurn \cup Done]
  /\ \A c \in Calls : pc[c] \in {"idle", "sleep"} \cup CallMidTurn \cup CallDone
  /\ \A a \in Admins : pc[a] \in {"idle"} \cup AdminMidTurn \cup AdminDone
  /\ \A g \in Pollers : pc[g] \in {"idle"} \cup PollerMidTurn \cup PollerDone
  /\ call \in [Calls -> ToolsCall \cup {None}]
  /\ basis \in [Calls -> Calls \cup {None}]
  /\ late \subseteq Calls
  /\ indexRead \in [Calls -> SUBSET Calls]
  /\ order \in [Admins -> [id: Calls, status: Decisions] \cup {None}]
  /\ current \in [Admins -> PendingRequest \cup {None}]
  /\ asked \in [Pollers -> [id: Calls, holds: Calls \cup {None}] \cup {None}]
  /\ pending \in [Calls -> PendingRequest \cup {None}]
  /\ index \subseteq Calls
  /\ approvalToken \in [Admins -> ApprovalTokenRecord \cup {None}]
  /\ pointer \in [Calls -> Admins \cup {None}]
  /\ pollToken \in [Calls -> {"none", "live", "expired"}]
  /\ disclosed \subseteq Admins
  /\ audit \subseteq {"pending", "allow", "deny"} \X Calls
  /\ decided \in [Calls -> SUBSET Decisions]

(* A call that lacks a scope reaches the upstream server only under a      *)
(* request that an administrator approved, filed for the very same tool,   *)
(* and, for a held call, under its own request.                            *)
ForwardedWasApproved ==
  \A c \in Calls : pc[c] = "forwarded" /\ call[c].mode # "allowed" =>
    /\ basis[c] # None
    /\ "approved" \in decided[basis[c]]
    /\ call[basis[c]].tool = call[c].tool
    /\ call[c].mode = "hold" => basis[c] = c

(* No approval token lets two calls through: the burn on first use.        *)
SingleUse ==
  \A c, d \in ForwardedByApproval :
    c # d /\ Redeemed(c) # None => Redeemed(c) # Redeemed(d)

(* No call runs under a request that is ever decided the other way: an     *)
(* administrator who was answered "denied" can rely on it.                 *)
DeniedNeverForwarded ==
  \A c \in ForwardedByApproval : "denied" \notin decided[basis[c]]

(* An approval token exists, or is in an agent's hands, only if its        *)
(* request was approved and by the handler that minted it.                 *)
TokenOnlyIfApproved ==
  \A t \in Admins : approvalToken[t] # None \/ t \in disclosed =>
    order[t].status = "approved" /\ "approved" \in decided[order[t].id]

(* The audit log tells the whole story of a call let through by a person:  *)
(* that it was queued, and that it was allowed.                            *)
ForwardAudited ==
  \A c \in ForwardedByApproval :
    {<<"pending", basis[c]>>, <<"allow", basis[c]>>} \subseteq audit

(* GET /pending/:id of an approved request always comes with a token.      *)
ApprovedComesWithToken == \A g \in Pollers : pc[g] # "sawNoToken"

(* While a call waits for a decision, held open or answered 202, the       *)
(* administrator sees its request in the list of undecided requests.       *)
WaitingIsListed ==
  \A c \in Calls : pc[c] \in {"readHeld", "sleep", "queued"} /\ decided[c] = {}
    => <<"request", c>> \in Listing("pending")

----------------------------------------------------------------------------
(* Action properties                                                       *)

(* A decision is final: once approved or denied, a request never changes   *)
(* again, except that a restart may forget it.                             *)
ResolutionIsFinal ==
  [][\A r \in Calls : pending[r] # None /\ pending[r].status # "pending" =>
       pending'[r] \in {pending[r], None}]_vars

----------------------------------------------------------------------------
(* Liveness                                                                *)

(* Every request is answered, in particular a call held for an approval    *)
(* that never comes.                                                       *)
EveryHandlerAnswers == \A h \in Handlers : InFlight(h) ~> pc[h] \in Done

(* A decision taken while the call is still held reaches the call: it is   *)
(* not answered 504, however late the decision comes.                      *)
HeldCallHearsDecision ==
  \A c \in Calls, s \in Decisions :
    /\ InFlight(c)
    /\ call[c].mode = "hold"
    /\ pending[c] # None /\ pending[c].status = s
    ~> pc[c] \in {IF s = "approved" THEN "forwarded" ELSE "denied", "failed"}

----------------------------------------------------------------------------
(* Refinement                                                              *)

Outcome == [r \in Calls |-> IF "approved" \in decided[r] THEN "approved"
                            ELSE IF "denied" \in decided[r] THEN "denied"
                            ELSE "open"]

Runs == {[call |-> c, request |-> basis[c], token |-> Redeemed(c)] :
           c \in ForwardedByApproval}

Promise == INSTANCE ApprovalPromise WITH
             Tokens <- Admins, outcome <- Outcome, runs <- Runs

(* With the in-memory store the queue keeps its promise.                   *)
KeepsPromise == Promise!Spec
=============================================================================
