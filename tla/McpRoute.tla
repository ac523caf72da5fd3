------------------------------ MODULE McpRoute ------------------------------
(***************************************************************************)
(* A POST to /:serverId/mcp, from its arrival at the proxy to the last     *)
(* byte of the upstream's answer.                                          *)
(*                                                                         *)
(*   gateway/proxy-routes-mcp.ts          the route                        *)
(*   gateway/mcp-upstream.ts              the forward                      *)
(*   gateway/proxy-server.ts              what becomes of an exception     *)
(*   servers/flight/guard_middleware.py   the flight server's second guard *)
(*                                                                         *)
(* A caller has one request at a time.  The approval queue is here what    *)
(* ApprovalQueue shows of its in-memory form: filing, deciding and         *)
(* redeeming are single steps, and an approval is visible before its token *)
(* is on file.  The upstream is external: it acts once or not at all.      *)
(***************************************************************************)
EXTENDS GuardPolicy, FiniteSets

CONSTANTS
  Callers,      \* those who send requests, and the pending ids they get
  Tokens,       \* the bearer tokens that exist
  Names,        \* what a request may name as its tool, or "none"
  Setups,       \* the configurations considered
  MaxCrashes,   \* bound: how often the proxy dies
  None

Bodies == {"call", "other", "null", "unparsable", "tooLarge"}
Servers == {"flight", "vendor", "unknown"}

(* guard: MCP_GUARD_ENABLED of the proxy, second: of the flight server;    *)
(* trust, secondTrust: the identity provider is configured there; queue:   *)
(* MCP_APPROVAL_QUEUE; revocation: MCP_M2M_REVOCATION; vendorToken: the    *)
(* vendor's upstream_token_env is set; kv: the queue survives a restart.   *)
AllSetups ==
  [guard: BOOLEAN, second: BOOLEAN, trust: BOOLEAN, secondTrust: BOOLEAN,
   queue: BOOLEAN, revocation: BOOLEAN, vendorToken: BOOLEAN, kv: BOOLEAN]

ASSUME RouteAssumption ==
  /\ None \notin Callers /\ "none" \in Names
  /\ Setups \subseteq AllSetups
  /\ MaxCrashes \in Nat

(* scripts/generate-keys.mjs names no issuer in what it signs with the     *)
(* demo key.                                                               *)
ASSUME TokenAssumption ==
  \A token \in Tokens :
    /\ token.iss \in Issuers
    /\ token.by = "demo" => token.iss = "none"

VARIABLES
  setup,     \* the configuration, fixed
  active,    \* agent records say that the tokens' client has not been revoked
  at,        \* where each caller's request stands
  request,   \* what it asks for
  basis,     \* why it was let through
  upstream,  \* what the upstream did with it
  answer,    \* what has been sent back
  rows,      \* its rows of the "mcp" layer in the audit log
  filed,     \* the pending request filed for it
  minted,    \* pending requests with an approval token on file
  tickets,   \* ... which has not been redeemed
  crashes,
  (* observation *)
  runs       \* how often the upstream did what each caller asked for

queueVars == <<filed, minted, tickets>>
routeVars == <<setup, active, at, request, basis, upstream, answer, rows,
               queueVars, crashes, runs>>

Requests ==
  [server: Servers, body: Bodies, hasId: BOOLEAN, tool: Names,
   token: Tokens \cup {NoToken}, wait: BOOLEAN,
   approval: Callers \cup {None}]

InFlight == {"received", "authorize", "held", "forward", "sent", "streaming"}

(* heads: how often a head was written; body: did any of the body follow;  *)
(* whole: all of it.                                                       *)
Codes == {0, 200, 202, 403, 404, 413, 500, 502, 503, 504}

Answers == [status: Codes, heads: Nat, body: BOOLEAN, whole: BOOLEAN]

NoAnswer == [status |-> 0, heads |-> 0, body |-> FALSE, whole |-> FALSE]

Goto(c, where) == at' = [at EXCEPT ![c] = where]

(* sendJson, sendJsonRpcError, sendJsonRpcPending.                         *)
Send(c, status) ==
  /\ Goto(c, "answered")
  /\ answer' = [answer EXCEPT ![c] = [status |-> status, heads |-> @.heads + 1,
                                      body |-> TRUE, whole |-> TRUE]]

Proceed(c, why) ==
  /\ Goto(c, "forward")
  /\ basis' = [basis EXCEPT ![c] = why]
  /\ UNCHANGED answer

----------------------------------------------------------------------------
(* The route                                                               *)

Arrive(c, r) ==
  /\ at[c] \notin InFlight
  /\ Goto(c, "received")
  /\ request' = [request EXCEPT ![c] = r]
  /\ basis' = [basis EXCEPT ![c] = "none"]
  /\ upstream' = [upstream EXCEPT ![c] = "none"]
  /\ answer' = [answer EXCEPT ![c] = NoAnswer]
  /\ rows' = [rows EXCEPT ![c] = 0]
  /\ UNCHANGED <<setup, active, queueVars, crashes, runs>>

(* The status of the early returns, in their order; a body that is JSON    *)
(* null throws, and proxy-server.ts answers.                               *)
Early(r) ==
  CASE r.server = "unknown" -> 404
    [] r.server = "vendor" /\ ~setup.vendorToken -> 503
    [] r.body = "tooLarge" -> 413
    [] r.body = "null" -> 500
    [] OTHER -> 0

(* Only a tools/call is guarded, and only while the guard is enabled.      *)
Dispatch(c) ==
  LET r == request[c] IN
  /\ at[c] = "received"
  /\ IF Early(r) # 0 THEN Send(c, Early(r)) /\ UNCHANGED basis
     ELSE IF r.body = "call" /\ setup.guard
          THEN Goto(c, "authorize") /\ UNCHANGED <<answer, basis>>
          ELSE Proceed(c, "unguarded")
  /\ UNCHANGED <<setup, active, request, upstream, rows, queueVars, crashes,
                 runs>>

(* The decision, and for a missing scope the queue: a token is redeemed if *)
(* it was minted for the same server and tool, and burned with that; a     *)
(* held call waits; any other is told its pending id.                      *)
Decide(c) ==
  LET r == request[c]
      verdict == Authorize(r.tool, r.token, setup.trust, setup.revocation,
                           active)
      queued == verdict = "missingScope" /\ setup.queue
      p == r.approval
      redeemed == /\ p \in tickets
                  /\ request[p].server = r.server
                  /\ request[p].tool = r.tool
      File == filed' = [filed EXCEPT ![c] = "pending"] IN
  /\ at[c] = "authorize"
  /\ \/ /\ verdict = "allowed"
        /\ Proceed(c, "scope") /\ UNCHANGED queueVars
     \/ /\ verdict # "allowed" /\ ~queued
        /\ Send(c, 403) /\ UNCHANGED <<basis, queueVars>>
     \/ /\ queued /\ p # None
        /\ tickets' = IF redeemed THEN tickets \ {p} ELSE tickets
        /\ IF redeemed /\ filed[p] = "approved" THEN Proceed(c, "approval")
           ELSE Send(c, 403) /\ UNCHANGED basis
        /\ UNCHANGED <<filed, minted>>
     \/ /\ queued /\ p = None /\ r.wait
        /\ Goto(c, "held") /\ File /\ UNCHANGED <<answer, basis, minted, tickets>>
     \/ /\ queued /\ p = None /\ ~r.wait
        /\ Send(c, 202) /\ File /\ UNCHANGED <<basis, minted, tickets>>
  /\ UNCHANGED <<setup, active, request, upstream, rows, crashes, runs>>

(* The long poll of a held call hears a decision, or its time is up.       *)
HeldHears(c) ==
  /\ at[c] = "held"
  /\ \/ filed[c] = "approved" /\ Proceed(c, "approval")
     \/ filed[c] = "denied" /\ Send(c, 403) /\ UNCHANGED basis
     \/ filed[c] = "pending" /\ Send(c, 504) /\ UNCHANGED basis
  /\ UNCHANGED <<setup, active, request, upstream, rows, queueVars, crashes,
                 runs>>

----------------------------------------------------------------------------
(* The forward                                                             *)

Audited(c) == request[c].body = "call"

Row(c) == rows' = [rows EXCEPT ![c] = IF Audited(c) THEN @ + 1 ELSE @]

Fetch(c) ==
  /\ at[c] = "forward"
  /\ Goto(c, "sent")
  /\ upstream' = [upstream EXCEPT ![c] = "asked"]
  /\ UNCHANGED <<setup, active, request, basis, answer, rows, queueVars,
                 crashes, runs>>

(* What the upstream is shown: its own token where it has one, else the    *)
(* caller's.  The flight server's middleware asks its guard about a        *)
(* tools/call, and passes everything else to its application.              *)
SecondGuardRefuses(r) ==
  /\ r.server = "flight" /\ setup.second
  /\ r.body = "call"
  /\ ~FlightAuthorize(r.tool, r.token, setup.secondTrust)

(* The upstream acts, even if nobody waits for its answer any more.        *)
Act(c) ==
  /\ upstream[c] = "asked"
  /\ \E done \in IF SecondGuardRefuses(request[c]) THEN {"refused"}
                 ELSE {"ran", "failed"} :
       /\ upstream' = [upstream EXCEPT ![c] = done]
       /\ runs' = [runs EXCEPT ![c] = IF done = "ran" THEN @ + 1 ELSE @]
  /\ UNCHANGED <<setup, active, at, request, basis, answer, rows, queueVars,
                 crashes>>

Acted == {"ran", "failed", "refused"}

UpstreamStatus(c) ==
  CASE upstream[c] = "ran" -> 200
    [] upstream[c] = "refused" -> 403
    [] upstream[c] = "failed" -> 500

(* The upstream's head has come: an answer without a body ends here, the   *)
(* others are streamed, and their head leaves with the first chunk.        *)
Headed(c) ==
  /\ at[c] = "sent" /\ upstream[c] \in Acted
  /\ \/ /\ Goto(c, "answered")
        /\ answer' = [answer EXCEPT ![c] =
             [NoAnswer EXCEPT !.status = UpstreamStatus(c), !.heads = 1,
                              !.whole = TRUE]]
        /\ Row(c)
     \/ /\ Goto(c, "streaming")
        /\ answer' = [answer EXCEPT ![c].status = UpstreamStatus(c)]
        /\ UNCHANGED rows
  /\ UNCHANGED <<setup, active, request, basis, upstream, queueVars, crashes,
                 runs>>

Chunk(c) ==
  /\ at[c] = "streaming" /\ ~answer[c].body
  /\ answer' = [answer EXCEPT ![c] = [@ EXCEPT !.heads = 1, !.body = TRUE]]
  /\ UNCHANGED <<setup, active, at, request, basis, upstream, rows, queueVars,
                 crashes, runs>>

(* Variant: the handler answers an exception whatever was sent before it.  *)
Thrown_Answered(c, ended) ==
  [ended EXCEPT !.status = 502, !.heads = @ + 1]

(* The route's answer to an exception of the forward: none if a head has   *)
(* gone; a body that was no JSON is forwarded outside the try, and it is   *)
(* proxy-server.ts that answers.                                           *)
Thrown(c, ended) ==
  LET r == request[c] IN
  IF ended.heads > 0 THEN ended
  ELSE [heads |-> 1, body |-> TRUE, whole |-> TRUE,
        status |-> CASE r.body = "unparsable" -> 500
                     [] r.body = "call" /\ r.hasId -> 403
                     [] OTHER -> 502]

(* fetch throws: the request or its answer was lost.                       *)
FetchThrows(c) ==
  /\ at[c] = "sent"
  /\ upstream' \in {upstream, [upstream EXCEPT ![c] =
                                 IF @ = "asked" THEN "none" ELSE @]}
  /\ Row(c)
  /\ Goto(c, "answered")
  /\ answer' = [answer EXCEPT ![c] = Thrown(c, @)]
  /\ UNCHANGED <<setup, active, request, basis, queueVars, crashes,
                 runs>>

(* The stream ends or breaks.  The finally block ends the answer, which    *)
(* sends its head if nothing did before, and logs the row; then a break is *)
(* thrown on.                                                              *)
StreamOver(c) ==
  LET ended == [answer[c] EXCEPT !.heads = 1] IN
  /\ at[c] = "streaming"
  /\ Row(c)
  /\ Goto(c, "answered")
  /\ \/ answer' = [answer EXCEPT ![c] = [ended EXCEPT !.whole = TRUE]]
     \/ answer' = [answer EXCEPT ![c] = Thrown(c, ended)]
  /\ UNCHANGED <<setup, active, request, basis, upstream, queueVars, crashes,
                 runs>>

CallStep(c) ==
  \/ Dispatch(c) \/ Decide(c) \/ HeldHears(c) \/ Fetch(c) \/ Act(c)
  \/ Headed(c) \/ Chunk(c) \/ FetchThrows(c) \/ StreamOver(c)

----------------------------------------------------------------------------
(* The others                                                              *)

(* The administrator decides a pending request ...                         *)
Resolve(p) ==
  /\ filed[p] = "pending"
  /\ \E decision \in {"approved", "denied"} :
       filed' = [filed EXCEPT ![p] = decision]
  /\ UNCHANGED <<setup, active, at, request, basis, upstream, answer, rows,
                 minted, tickets, crashes, runs>>

(* ... and the approval's token is put on file.                            *)
Mint(p) ==
  /\ filed[p] = "approved" /\ p \notin minted
  /\ minted' = minted \cup {p} /\ tickets' = tickets \cup {p}
  /\ UNCHANGED <<setup, active, at, request, basis, upstream, answer, rows,
                 filed, crashes, runs>>

(* The agent behind the tokens is revoked, which the guard asks about only *)
(* where it is switched on.                                                *)
Revoke ==
  /\ setup.revocation /\ active /\ active' = FALSE
  /\ UNCHANGED <<setup, at, request, basis, upstream, answer, rows, queueVars,
                 crashes, runs>>

(* The proxy dies and is started again.  Requests in it are lost, and      *)
(* without the store so are the queue and its tokens.                      *)
Crash ==
  /\ crashes < MaxCrashes
  /\ crashes' = crashes + 1
  /\ at' = [c \in Callers |-> IF at[c] \in InFlight THEN "died" ELSE at[c]]
  /\ IF setup.kv THEN UNCHANGED queueVars
     ELSE filed' = [p \in Callers |-> "none"] /\ minted' = {} /\ tickets' = {}
  /\ UNCHANGED <<setup, active, request, basis, upstream, answer, rows, runs>>

RouteInit ==
  /\ setup \in Setups
  /\ active = TRUE
  /\ at = [c \in Callers |-> "idle"]
  /\ request = [c \in Callers |->
       [server |-> "unknown", body |-> "other", hasId |-> FALSE, tool |-> "none",
        token |-> NoToken, wait |-> FALSE, approval |-> None]]
  /\ basis = [c \in Callers |-> "none"]
  /\ upstream = [c \in Callers |-> "none"]
  /\ answer = [c \in Callers |-> NoAnswer]
  /\ rows = [c \in Callers |-> 0]
  /\ filed = [c \in Callers |-> "none"]
  /\ minted = {} /\ tickets = {} /\ crashes = 0
  /\ runs = [c \in Callers |-> 0]

----------------------------------------------------------------------------
(* Invariants                                                              *)

RouteTypeOK ==
  /\ setup \in Setups
  /\ active \in BOOLEAN
  /\ at \in [Callers -> InFlight \cup {"idle", "answered", "died"}]
  /\ request \in [Callers -> Requests]
  /\ basis \in [Callers -> {"none", "unguarded", "scope", "approval"}]
  /\ upstream \in [Callers -> Acted \cup {"none", "asked"}]
  /\ answer \in [Callers -> Answers]
  /\ rows \in [Callers -> Nat]
  /\ filed \in [Callers -> {"none", "pending", "approved", "denied"}]
  /\ tickets \subseteq minted /\ minted \subseteq Callers
  /\ crashes \in 0..MaxCrashes
  /\ runs \in [Callers -> Nat]

(* Every answer has one head, wherever its forward broke, and a forwarded  *)
(* tools/call has left one row in the "mcp" layer, any other request none. *)
AnsweredOnce ==
  \A c \in Callers : at[c] = "answered" =>
    /\ answer[c].heads = 1
    /\ rows[c] = IF Audited(c) /\ basis[c] # "none" THEN 1 ELSE 0

(* A token the flight server cannot verify although the proxy can.         *)
OnlyOursVerifies(token) ==
  token.by = "idp" /\ (~setup.secondTrust \/ token.iss = "bare")

(* The flight server's guard refuses nothing that the proxy's guard has    *)
(* let through for its scopes, but for tokens it cannot verify.            *)
GuardsAgree ==
  \A c \in Callers : basis[c] = "scope" /\ upstream[c] = "refused" =>
    OnlyOursVerifies(request[c].token)
=============================================================================
