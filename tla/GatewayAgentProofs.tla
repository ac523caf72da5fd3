------------------------- MODULE GatewayAgentProofs -------------------------
(***************************************************************************)
(* Theorems about the MCP route and the chat agent in front of it, for any *)
(* number of turns, clients, tools, polls and crashes, any policy, and any *)
(* set of tokens and configurations.                                       *)
(***************************************************************************)
EXTENDS GatewayAgent, TLAPS

(* Nothing has been decided about the request, ...                         *)
Undecided(c) == basis[c] = "none" /\ upstream[c] = "none"

(* ... and nothing been answered or logged.                                *)
Unanswered(c) == answer[c] = NoAnswer /\ rows[c] = 0

(* A request at each stage of the route.                                   *)
Stages(c) ==
  /\ at[c] = "idle" => upstream[c] = "none"
  /\ at[c] \in {"received", "authorize", "held"} => Undecided(c) /\ Unanswered(c)
  /\ at[c] = "forward" =>
       basis[c] # "none" /\ upstream[c] = "none" /\ Unanswered(c)
  /\ at[c] = "sent" => basis[c] # "none" /\ Unanswered(c)
  /\ at[c] = "streaming" =>
       /\ basis[c] # "none" /\ rows[c] = 0
       /\ answer[c].heads = IF answer[c].body THEN 1 ELSE 0

(* What a status says of the upstream.                                     *)
Statuses(c) ==
  /\ answer[c].status = 202 => at[c] = "answered" /\ upstream[c] = "none"
  /\ answer[c].status = 200 => upstream[c] = "ran"

(* Why a request was let through, and why it was refused after all.        *)
Reasons(c) ==
  /\ basis[c] = "scope" =>
       \E was \in BOOLEAN :
         Authorize(request[c].tool, request[c].token, setup.trust,
                   setup.revocation, was) = "allowed"
  /\ upstream[c] = "refused" => SecondGuardRefuses(request[c])

RouteInv ==
  /\ RouteTypeOK
  /\ AnsweredOnce
  /\ \A c \in Callers : Stages(c) /\ Statuses(c) /\ Reasons(c)

(* What a turn has done so far.                                            *)
Progress(t) ==
  /\ runs[t] = IF upstream[t] = "ran" THEN 1 ELSE 0
  /\ turn[t].at \in {"idle", "thinking", "ready"} => at[t] = "idle"
  /\ turn[t].at = "polling" => at[t] = "answered" /\ upstream[t] = "none"
  /\ turn[t].at # "done" => turn[t].said = "nothing"
  /\ turn[t].said = "result" => upstream[t] = "ran"
  /\ turn[t].said \in NoRun => at[t] \notin InFlight /\ upstream[t] = "none"

(* The token on the shared client is that of a turn that retries, and two  *)
(* turns that are under way know of each other.                            *)
Sharing ==
  /\ agent.approval # None => turn[agent.approval].at = "retrying"
  /\ \A t, u \in Busy : t # u => t \in overlapped

(* The agent's variables have their types.                                 *)
TurnRecords ==
  [at: UnderWay \cup {"idle", "done"}, tool: Tools \cup {"none"},
   polls: 0..MaxPolls, said: NoRun \cup {"nothing", "result", "toolError"}]

AgentTypeOK ==
  /\ agent \in [server: {"flight", "vendor"}, token: Tokens,
                approval: Turns \cup {None}]
  /\ turn \in [Turns -> TurnRecords]
  /\ send \in BOOLEAN
  /\ reinits \in 0..MaxReinits
  /\ mix \subseteq Callers
  /\ overlapped \subseteq Turns

Inv ==
  /\ RouteInv
  /\ AgentTypeOK
  /\ \A t \in Turns : Progress(t)
  /\ Sharing
  /\ TokenForItsCall

----------------------------------------------------------------------------
(* The route                                                               *)

(* The route's invariant, request by request.                              *)
Once(c) ==
  at[c] = "answered" =>
    /\ answer[c].heads = 1
    /\ rows[c] = IF Audited(c) /\ basis[c] # "none" THEN 1 ELSE 0

Good(c) == Once(c) /\ Stages(c) /\ Statuses(c) /\ Reasons(c)

LEMMA RequestByRequest == RouteInv <=> RouteTypeOK /\ \A c \in Callers : Good(c)
BY DEF RouteInv, AnsweredOnce, Once, Good

(* Nothing that the invariant says of a request has changed.               *)
Same(c) ==
  /\ at'[c] = at[c] /\ request'[c] = request[c] /\ basis'[c] = basis[c]
  /\ upstream'[c] = upstream[c] /\ answer'[c] = answer[c]
  /\ rows'[c] = rows[c] /\ setup' = setup

LEMMA SameIsGood ==
  ASSUME NEW c \in Callers, Good(c), Same(c)
  PROVE  Good(c)'
BY DEF Good, Same, Once, Stages, Statuses, Reasons, Undecided, Unanswered,
       Audited, SecondGuardRefuses

(* In the initial state nothing has been asked.                            *)
LEMMA RouteStart == RouteInit => RouteInv
<1> DEFINE blank ==
      [server |-> "unknown", body |-> "other", hasId |-> FALSE, tool |-> "none",
       token |-> NoToken, wait |-> FALSE, approval |-> None]
<1> SUFFICES ASSUME RouteInit PROVE RouteInv
  OBVIOUS
<1>1. NoAnswer \in Answers /\ NoAnswer.status = 0
  BY DEF NoAnswer, Answers, Codes
<1>2. blank \in Requests
  BY RouteAssumption DEF Requests, Servers, Bodies
<1>3. /\ setup \in Setups /\ active = TRUE
      /\ at = [c \in Callers |-> "idle"]
      /\ request = [c \in Callers |-> blank]
      /\ basis = [c \in Callers |-> "none"]
      /\ upstream = [c \in Callers |-> "none"]
      /\ answer = [c \in Callers |-> NoAnswer]
      /\ rows = [c \in Callers |-> 0]
      /\ filed = [c \in Callers |-> "none"]
      /\ minted = {} /\ tickets = {} /\ crashes = 0
      /\ runs = [c \in Callers |-> 0]
  BY Zenon DEF RouteInit
<1> HIDE DEF blank
<1>4. RouteTypeOK
  <2>1. request \in [Callers -> Requests] /\ answer \in [Callers -> Answers]
    BY <1>1, <1>2, <1>3
  <2>2. setup \in Setups /\ crashes \in 0..MaxCrashes
    BY <1>3, RouteAssumption
  <2> QED
    BY <1>3, <2>1, <2>2 DEF RouteTypeOK
<1>5. ASSUME NEW c \in Callers
      PROVE  Good(c)
  BY <1>1, <1>3 DEF Good, Once, Stages, Statuses, Reasons
<1> QED
  BY <1>4, <1>5, RequestByRequest

(* A request arrives.                                                      *)
LEMMA ArriveIsGood ==
  ASSUME RouteInv, NEW c \in Callers, NEW r \in Requests, Arrive(c, r)
  PROVE  RouteInv'
<1> USE DEF Arrive, Goto, queueVars
<1>1. RouteTypeOK /\ \A d \in Callers : Good(d)
  BY RequestByRequest
<1>2. NoAnswer \in Answers
  BY DEF NoAnswer, Answers, Codes
<1>3. RouteTypeOK'
  BY <1>1, <1>2 DEF RouteTypeOK, InFlight
<1>4. Good(c)'
  BY <1>1 DEF RouteTypeOK, Good, Once, Stages, Statuses, Reasons, Undecided,
              Unanswered, NoAnswer
<1>5. ASSUME NEW d \in Callers \ {c}
      PROVE  Good(d)'
  BY <1>1, SameIsGood DEF Same, RouteTypeOK
<1> QED
  BY <1>3, <1>4, <1>5 DEF RouteInv, AnsweredOnce, Once, Good

(* What an answer of the proxy itself does.                                *)
LEMMA SendLemma ==
  ASSUME RouteTypeOK, NEW c \in Callers, at[c] # "idle",
         answer[c] = NoAnswer, rows[c] = 0, basis[c] = "none",
         upstream[c] = "none",
         NEW status \in {202, 403, 404, 413, 500, 503, 504}, Send(c, status),
         UNCHANGED <<setup, request, upstream, basis, rows>>
  PROVE  /\ at' \in [Callers -> InFlight \cup {"idle", "answered", "died"}]
         /\ answer' \in [Callers -> Answers]
         /\ Good(c)'
         /\ \A d \in Callers \ {c} : Same(d)
<1> DEFINE new == [status |-> status, heads |-> answer[c].heads + 1,
                   body |-> TRUE, whole |-> TRUE]
<1>1. new \in Answers /\ new.heads = 1 /\ new.status = status
  BY DEF NoAnswer, Answers, Codes
<1>2. answer' = [answer EXCEPT ![c] = new] /\ at' = [at EXCEPT ![c] = "answered"]
  BY DEF Send, Goto
<1> HIDE DEF new
<1>3. /\ at' \in [Callers -> InFlight \cup {"idle", "answered", "died"}]
      /\ answer' \in [Callers -> Answers]
      /\ at'[c] = "answered" /\ answer'[c] = new
  BY <1>1, <1>2 DEF RouteTypeOK
<1>4. Good(c)'
  BY <1>1, <1>3 DEF Good, Once, Stages, Statuses, Reasons, InFlight
<1>5. \A d \in Callers \ {c} : Same(d)
  BY <1>2 DEF RouteTypeOK, Same
<1> QED
  BY <1>3, <1>4, <1>5

(* Every request but one is as it was, and that one is in order.           *)
LEMMA OneGood ==
  ASSUME RouteInv, RouteTypeOK', NEW c \in Callers, Good(c)',
         \A d \in Callers \ {c} : Same(d)
  PROVE  RouteInv'
<1>1. \A d \in Callers : Good(d)'
  BY SameIsGood, RequestByRequest
<1> QED
  BY <1>1 DEF RouteInv, AnsweredOnce, Once, Good

(* What letting a request through does; the reason has to be a good one.   *)
LEMMA ProceedLemma ==
  ASSUME RouteTypeOK, NEW c \in Callers, Undecided(c), Unanswered(c),
         NEW why \in {"unguarded", "scope", "approval"}, Proceed(c, why),
         UNCHANGED <<setup, request, upstream, rows>>,
         why = "scope" =>
           \E was \in BOOLEAN :
             Authorize(request[c].tool, request[c].token, setup.trust,
                       setup.revocation, was) = "allowed"
  PROVE  /\ at' \in [Callers -> InFlight \cup {"idle", "answered", "died"}]
         /\ basis' \in [Callers -> {"none", "unguarded", "scope", "approval"}]
         /\ Good(c)'
         /\ \A d \in Callers \ {c} : Same(d)
<1> USE DEF Proceed, Goto
<1>1. /\ at' \in [Callers -> InFlight \cup {"idle", "answered", "died"}]
      /\ basis' \in [Callers -> {"none", "unguarded", "scope", "approval"}]
      /\ at'[c] = "forward" /\ basis'[c] = why
  BY DEF RouteTypeOK, InFlight
<1>2. Good(c)'
  BY <1>1 DEF Good, Once, Stages, Statuses, Reasons, Undecided, Unanswered,
              NoAnswer
<1>3. \A d \in Callers \ {c} : Same(d)
  BY DEF RouteTypeOK, Same
<1> QED
  BY <1>1, <1>2, <1>3

(* A request that has only moved on, with nothing said yet.                *)
LEMMA HoldLemma ==
  ASSUME RouteTypeOK, NEW c \in Callers, Undecided(c), Unanswered(c),
         NEW where \in {"authorize", "held"}, Goto(c, where),
         UNCHANGED <<setup, request, basis, upstream, answer, rows>>
  PROVE  /\ at' \in [Callers -> InFlight \cup {"idle", "answered", "died"}]
         /\ Good(c)'
         /\ \A d \in Callers \ {c} : Same(d)
<1>1. /\ at' \in [Callers -> InFlight \cup {"idle", "answered", "died"}]
      /\ at'[c] = where
  BY DEF RouteTypeOK, InFlight, Goto
<1>2. Good(c)'
  BY <1>1 DEF Good, Once, Stages, Statuses, Reasons, Undecided, Unanswered,
              NoAnswer
<1>3. \A d \in Callers \ {c} : Same(d)
  BY DEF RouteTypeOK, Same, Goto
<1> QED
  BY <1>1, <1>2, <1>3

(* The route dispatches it: a refusal, the guard, or the forward.          *)
LEMMA DispatchIsGood ==
  ASSUME RouteInv, NEW c \in Callers, Dispatch(c)
  PROVE  RouteInv'
<1>1. RouteTypeOK /\ \A d \in Callers : Good(d)
  BY RequestByRequest
<1>2. /\ Undecided(c) /\ Unanswered(c) /\ at[c] = "received"
      /\ UNCHANGED <<setup, active, request, upstream, rows, filed, minted,
                     tickets, crashes, runs>>
  BY <1>1 DEF Dispatch, Good, Stages, queueVars
<1>3. CASE Early(request[c]) # 0
  <2>1. Send(c, Early(request[c])) /\ UNCHANGED basis
    BY <1>3 DEF Dispatch
  <2>2. Early(request[c]) \in {202, 403, 404, 413, 500, 503, 504}
    BY <1>3 DEF Early
  <2>3. RouteTypeOK' /\ Good(c)' /\ \A d \in Callers \ {c} : Same(d)
    BY <1>1, <1>2, <2>1, <2>2, SendLemma
       DEF Undecided, Unanswered, RouteTypeOK
  <2> QED
    BY <2>3, OneGood
<1>4. CASE /\ Goto(c, "authorize") /\ UNCHANGED <<answer, basis>>
  <2>1. RouteTypeOK' /\ Good(c)' /\ \A d \in Callers \ {c} : Same(d)
    BY <1>1, <1>2, <1>4, HoldLemma DEF RouteTypeOK
  <2> QED
    BY <2>1, OneGood
<1>5. CASE Proceed(c, "unguarded")
  <2>1. RouteTypeOK' /\ Good(c)' /\ \A d \in Callers \ {c} : Same(d)
    BY <1>1, <1>2, <1>5, ProceedLemma DEF RouteTypeOK, Proceed
  <2> QED
    BY <2>1, OneGood
<1> QED
  BY <1>3, <1>4, <1>5 DEF Dispatch

(* The guard and the queue.                                                *)
LEMMA DecideIsGood ==
  ASSUME RouteInv, NEW c \in Callers, Decide(c)
  PROVE  RouteInv'
<1> DEFINE r == request[c]
           verdict == Authorize(r.tool, r.token, setup.trust,
                                setup.revocation, active)
           File == filed' = [filed EXCEPT ![c] = "pending"]
<1>1. RouteTypeOK /\ \A d \in Callers : Good(d)
  BY RequestByRequest
<1>2. /\ Undecided(c) /\ Unanswered(c) /\ at[c] = "authorize"
      /\ UNCHANGED <<setup, active, request, upstream, rows, crashes, runs>>
  BY <1>1 DEF Decide, Good, Stages
<1>3. CASE verdict = "allowed" /\ Proceed(c, "scope") /\ UNCHANGED queueVars
  <2>1. active \in BOOLEAN /\ answer' = answer
    BY <1>1, <1>3 DEF RouteTypeOK, Proceed
  <2>2. \E was \in BOOLEAN :
          Authorize(request[c].tool, request[c].token, setup.trust,
                    setup.revocation, was) = "allowed"
    BY <1>3, <2>1
  <2> HIDE DEF verdict
  <2>3. RouteTypeOK' /\ Good(c)' /\ \A d \in Callers \ {c} : Same(d)
    BY <1>1, <1>2, <1>3, <2>1, <2>2, ProceedLemma DEF RouteTypeOK, queueVars
  <2> QED
    BY <2>3, OneGood
<1>4. CASE /\ \/ Send(c, 403)
              \/ Send(c, 202)
           /\ UNCHANGED <<basis, minted>>
           /\ tickets' \subseteq tickets
           /\ \/ UNCHANGED filed
              \/ File
  <2>1. filed' \in [Callers -> {"none", "pending", "approved", "denied"}]
    BY <1>1, <1>4 DEF RouteTypeOK
  <2>2. RouteTypeOK' /\ Good(c)' /\ \A d \in Callers \ {c} : Same(d)
    BY <1>1, <1>2, <1>4, <2>1, SendLemma
       DEF RouteTypeOK, Undecided, Unanswered
  <2> QED
    BY <2>2, OneGood
<1>5. CASE /\ Proceed(c, "approval")
           /\ UNCHANGED <<filed, minted>> /\ tickets' \subseteq tickets
  <2>1. RouteTypeOK' /\ Good(c)' /\ \A d \in Callers \ {c} : Same(d)
    BY <1>1, <1>2, <1>5, ProceedLemma DEF RouteTypeOK, Proceed
  <2> QED
    BY <2>1, OneGood
<1>6. CASE Goto(c, "held") /\ File /\ UNCHANGED <<answer, basis, minted, tickets>>
  <2>1. filed' \in [Callers -> {"none", "pending", "approved", "denied"}]
    BY <1>1, <1>6 DEF RouteTypeOK
  <2>2. RouteTypeOK' /\ Good(c)' /\ \A d \in Callers \ {c} : Same(d)
    BY <1>1, <1>2, <1>6, <2>1, HoldLemma DEF RouteTypeOK
  <2> QED
    BY <2>2, OneGood
<1> QED
  BY <1>3, <1>4, <1>5, <1>6 DEF Decide, queueVars

(* A held call hears of its decision.                                      *)
LEMMA HeldHearsIsGood ==
  ASSUME RouteInv, NEW c \in Callers, HeldHears(c)
  PROVE  RouteInv'
<1>1. RouteTypeOK /\ \A d \in Callers : Good(d)
  BY RequestByRequest
<1>2. /\ Undecided(c) /\ Unanswered(c) /\ at[c] = "held"
      /\ UNCHANGED <<setup, active, request, upstream, rows, filed, minted,
                     tickets, crashes, runs>>
  BY <1>1 DEF HeldHears, Good, Stages, queueVars
<1>3. CASE Proceed(c, "approval")
  <2>1. RouteTypeOK' /\ Good(c)' /\ \A d \in Callers \ {c} : Same(d)
    BY <1>1, <1>2, <1>3, ProceedLemma DEF RouteTypeOK, Proceed
  <2> QED
    BY <2>1, OneGood
<1>4. CASE (Send(c, 403) \/ Send(c, 504)) /\ UNCHANGED basis
  <2>1. RouteTypeOK' /\ Good(c)' /\ \A d \in Callers \ {c} : Same(d)
    BY <1>1, <1>2, <1>4, SendLemma DEF RouteTypeOK, Undecided, Unanswered
  <2> QED
    BY <2>1, OneGood
<1> QED
  BY <1>3, <1>4 DEF HeldHears

----------------------------------------------------------------------------
(* The forward                                                             *)

(* The request is sent, and the upstream acts.                             *)
LEMMA UpstreamIsGood ==
  ASSUME RouteInv, NEW c \in Callers, Fetch(c) \/ Act(c)
  PROVE  RouteInv'
<1> USE DEF queueVars
<1>1. RouteTypeOK /\ \A d \in Callers : Good(d)
  BY RequestByRequest
<1>2. CASE Fetch(c)
  <2> USE <1>2 DEF Fetch, Goto
  <2>1. RouteTypeOK'
    BY <1>1 DEF RouteTypeOK, InFlight
  <2>2. Good(c)'
    BY <1>1 DEF RouteTypeOK, Good, Once, Stages, Statuses, Reasons, Undecided,
                Unanswered, NoAnswer
  <2>3. \A d \in Callers \ {c} : Same(d)
    BY <1>1 DEF RouteTypeOK, Same
  <2> QED
    BY <2>1, <2>2, <2>3, OneGood
<1>3. CASE Act(c)
  <2>1. PICK done \in Acted :
          /\ done = "refused" => SecondGuardRefuses(request[c])
          /\ upstream' = [upstream EXCEPT ![c] = done]
          /\ runs' = [runs EXCEPT ![c] = IF done = "ran" THEN @ + 1 ELSE @]
    BY <1>3 DEF Act, Acted
  <2> USE <1>3, <2>1 DEF Act
  <2>2. RouteTypeOK'
    BY <1>1 DEF RouteTypeOK
  <2>3. Good(c)'
    BY <1>1 DEF RouteTypeOK, Good, Once, Stages, Statuses, Reasons, Undecided,
                Unanswered, Acted, Audited, SecondGuardRefuses
  <2>4. \A d \in Callers \ {c} : Same(d)
    BY <1>1 DEF RouteTypeOK, Same
  <2> QED
    BY <2>2, <2>3, <2>4, OneGood
<1> QED
  BY <1>2, <1>3

(* What ends a forward: the answer has one head, and the row is logged.    *)
LEMMA EndLemma ==
  ASSUME RouteTypeOK, NEW c \in Callers, basis[c] # "none", rows[c] = 0,
         NEW last \in Answers, last.heads = 1, last.status # 202,
         last.status = 200 => upstream'[c] = "ran",
         upstream'[c] = "refused" => upstream[c] = "refused",
         Reasons(c),
         at' = [at EXCEPT ![c] = "answered"], Row(c),
         answer' = [answer EXCEPT ![c] = last],
         UNCHANGED <<setup, request, basis>>,
         \A d \in Callers \ {c} : upstream'[d] = upstream[d]
  PROVE  /\ at' \in [Callers -> InFlight \cup {"idle", "answered", "died"}]
         /\ answer' \in [Callers -> Answers]
         /\ rows' \in [Callers -> Nat]
         /\ Good(c)'
         /\ \A d \in Callers \ {c} : Same(d)
<1>1. /\ at' \in [Callers -> InFlight \cup {"idle", "answered", "died"}]
      /\ answer' \in [Callers -> Answers]
      /\ rows' \in [Callers -> Nat]
      /\ at'[c] = "answered" /\ answer'[c] = last
      /\ rows'[c] = IF Audited(c) THEN 1 ELSE 0
  BY DEF RouteTypeOK, Row
<1>2. Good(c)'
  BY <1>1 DEF Good, Once, Stages, Statuses, Reasons, Audited,
              SecondGuardRefuses
<1>3. \A d \in Callers \ {c} : Same(d)
  BY DEF RouteTypeOK, Row, Same
<1> QED
  BY <1>1, <1>2, <1>3

(* The upstream answers.                                                   *)
LEMMA HeadedIsGood ==
  ASSUME RouteInv, NEW c \in Callers, Headed(c)
  PROVE  RouteInv'
<1>1. RouteTypeOK /\ \A d \in Callers : Good(d)
  BY RequestByRequest
<1>2. /\ at[c] = "sent" /\ basis[c] # "none" /\ Unanswered(c) /\ Reasons(c)
      /\ upstream[c] \in Acted
      /\ UNCHANGED <<setup, active, request, basis, upstream, filed, minted,
                     tickets, crashes, runs>>
  BY <1>1 DEF Headed, Good, Stages, queueVars
<1>3. PICK code \in Codes :
        /\ code = UpstreamStatus(c) /\ code # 202
        /\ code = 200 => upstream[c] = "ran"
  BY <1>2 DEF UpstreamStatus, Acted, Codes
<1> DEFINE last == [NoAnswer EXCEPT !.status = code, !.heads = 1, !.whole = TRUE]
           begun == [NoAnswer EXCEPT !.status = code]
<1>4. last \in Answers /\ last.heads = 1 /\ last.status = code
  BY DEF NoAnswer, Answers
<1>5. /\ begun \in Answers /\ begun.heads = 0 /\ begun.body = FALSE
      /\ begun.status = code
  BY DEF NoAnswer, Answers
<1>6. CASE /\ Goto(c, "answered") /\ Row(c)
           /\ answer' = [answer EXCEPT ![c] = last]
  <2> HIDE DEF last
  <2>1. last.status # 202 /\ (last.status = 200 => upstream'[c] = "ran")
    BY <1>2, <1>3, <1>4
  <2>2. /\ upstream' = upstream /\ rows[c] = 0
        /\ at' = [at EXCEPT ![c] = "answered"]
    BY <1>2, <1>6 DEF Goto, Unanswered
  <2>3. /\ at' \in [Callers -> InFlight \cup {"idle", "answered", "died"}]
        /\ answer' \in [Callers -> Answers]
        /\ rows' \in [Callers -> Nat]
        /\ Good(c)'
        /\ \A d \in Callers \ {c} : Same(d)
    BY <1>1, <1>2, <1>4, <1>6, <2>1, <2>2, EndLemma
  <2>4. RouteTypeOK'
    BY <1>1, <1>2, <2>3 DEF RouteTypeOK
  <2> QED
    BY <2>3, <2>4, OneGood
<1>7. CASE /\ Goto(c, "streaming") /\ UNCHANGED rows
           /\ answer' = [answer EXCEPT ![c] = begun]
  <2> HIDE DEF begun
  <2>1. RouteTypeOK'
    BY <1>1, <1>2, <1>5, <1>7 DEF RouteTypeOK, Goto, InFlight
  <2>2. /\ at'[c] = "streaming" /\ answer'[c] = begun
        /\ \A d \in Callers \ {c} : Same(d)
    BY <1>1, <1>2, <1>7 DEF RouteTypeOK, Goto, Same
  <2>3. /\ rows'[c] = 0 /\ basis'[c] # "none"
        /\ answer'[c].status # 202 /\ answer'[c].heads = 0
        /\ answer'[c].body = FALSE
        /\ answer'[c].status = 200 => upstream'[c] = "ran"
    BY <1>2, <1>3, <1>5, <1>7, <2>2 DEF Unanswered
  <2>4. Good(c)'
    BY <1>2, <2>2, <2>3
       DEF Good, Once, Stages, Statuses, Reasons, SecondGuardRefuses
  <2> QED
    BY <2>1, <2>2, <2>4, OneGood
<1>8. /\ [NoAnswer EXCEPT !.status = UpstreamStatus(c), !.heads = 1,
                          !.whole = TRUE] = last
      /\ [answer EXCEPT ![c].status = UpstreamStatus(c)]
           = [answer EXCEPT ![c] = begun]
  BY <1>2, <1>3 DEF Unanswered
<1> QED
  BY <1>6, <1>7, <1>8 DEF Headed

(* A part of the body follows.                                             *)
LEMMA ChunkIsGood ==
  ASSUME RouteInv, NEW c \in Callers, Chunk(c)
  PROVE  RouteInv'
<1>1. RouteTypeOK /\ \A d \in Callers : Good(d)
  BY RequestByRequest
<1> DEFINE new == [answer[c] EXCEPT !.heads = 1, !.body = TRUE]
<1>2. /\ new \in Answers /\ new.heads = 1 /\ new.body = TRUE
      /\ new.status = answer[c].status
  <2>1. answer[c] \in Answers
    BY <1>1 DEF RouteTypeOK
  <2> QED
    BY <2>1 DEF Answers
<1>3. answer' = [answer EXCEPT ![c] = new]
  BY DEF Chunk
<1>4. /\ at[c] = "streaming"
      /\ UNCHANGED <<setup, active, at, request, basis, upstream, rows, filed,
                     minted, tickets, crashes, runs>>
  BY DEF Chunk, queueVars
<1> HIDE DEF new
<1>5. RouteTypeOK'
  BY <1>1, <1>2, <1>3, <1>4 DEF RouteTypeOK
<1>6. answer'[c] = new /\ \A d \in Callers \ {c} : Same(d)
  BY <1>1, <1>3, <1>4 DEF RouteTypeOK, Same
<1>7. Good(c)'
  BY <1>1, <1>2, <1>4, <1>6
     DEF Good, Once, Stages, Statuses, Reasons, SecondGuardRefuses
<1> QED
  BY <1>5, <1>6, <1>7, OneGood

(* The forward is lost.                                                    *)
LEMMA FetchThrowsIsGood ==
  ASSUME RouteInv, NEW c \in Callers, FetchThrows(c)
  PROVE  RouteInv'
<1>1. RouteTypeOK /\ \A d \in Callers : Good(d)
  BY RequestByRequest
<1>2. /\ at[c] = "sent" /\ basis[c] # "none" /\ Unanswered(c) /\ Reasons(c)
      /\ at' = [at EXCEPT ![c] = "answered"] /\ Row(c)
      /\ UNCHANGED <<setup, active, request, basis, filed, minted, tickets,
                     crashes, runs>>
  BY <1>1 DEF FetchThrows, Goto, Good, Stages, queueVars
<1>3. /\ upstream' \in [Callers -> Acted \cup {"none", "asked"}]
      /\ upstream'[c] = "refused" => upstream[c] = "refused"
      /\ \A d \in Callers \ {c} : upstream'[d] = upstream[d]
  BY <1>1 DEF FetchThrows, RouteTypeOK
<1> DEFINE given == CASE request[c].body = "unparsable" -> 500
                      [] request[c].body = "call" /\ request[c].hasId -> 403
                      [] OTHER -> 502
           last == [heads |-> 1, body |-> TRUE, whole |-> TRUE, status |-> given]
<1>4. Thrown(c, NoAnswer) = last
  <2>1. NoAnswer.heads = 0
    BY DEF NoAnswer
  <2>2. ~(NoAnswer.heads > 0)
    BY <2>1
  <2> QED
    BY <2>2, Zenon DEF Thrown
<1>5. /\ last \in Answers /\ last.heads = 1
      /\ last.status # 202 /\ last.status # 200
  <2>1. given \in {500, 403, 502}
    OBVIOUS
  <2> HIDE DEF given
  <2> QED
    BY <2>1 DEF Answers, Codes
<1>6. answer' = [answer EXCEPT ![c] = last]
  BY <1>2, <1>4 DEF FetchThrows, Unanswered
<1> HIDE DEF last
<1>7. /\ at' \in [Callers -> InFlight \cup {"idle", "answered", "died"}]
      /\ answer' \in [Callers -> Answers]
      /\ rows' \in [Callers -> Nat]
      /\ Good(c)'
      /\ \A d \in Callers \ {c} : Same(d)
  BY <1>1, <1>2, <1>3, <1>5, <1>6, EndLemma DEF Unanswered
<1>8. RouteTypeOK'
  BY <1>1, <1>2, <1>3, <1>7 DEF RouteTypeOK
<1> QED
  BY <1>7, <1>8, OneGood

(* The stream ends or breaks; what has been sent stands.                   *)
LEMMA StreamOverIsGood ==
  ASSUME RouteInv, NEW c \in Callers, StreamOver(c)
  PROVE  RouteInv'
<1> DEFINE ended == [answer[c] EXCEPT !.heads = 1]
           whole == [answer[c] EXCEPT !.heads = 1, !.whole = TRUE]
<1>1. RouteTypeOK /\ \A d \in Callers : Good(d)
  BY RequestByRequest
<1>2. /\ at[c] = "streaming" /\ basis[c] # "none" /\ rows[c] = 0
      /\ Reasons(c) /\ Statuses(c)
      /\ at' = [at EXCEPT ![c] = "answered"] /\ Row(c)
      /\ UNCHANGED <<setup, active, request, basis, upstream, filed, minted,
                     tickets, crashes, runs>>
  BY <1>1 DEF StreamOver, Goto, Good, Stages, queueVars
<1>3. answer[c] \in Answers
  BY <1>1 DEF RouteTypeOK
<1>4. /\ ended \in Answers /\ ended.heads = 1 /\ ended.status = answer[c].status
      /\ whole \in Answers /\ whole.heads = 1 /\ whole.status = answer[c].status
  BY <1>3 DEF Answers
<1>5. [ended EXCEPT !.whole = TRUE] = whole /\ Thrown(c, ended) = ended
  BY <1>3 DEF Thrown, Answers
<1>6. PICK last \in Answers :
        /\ last.heads = 1 /\ last.status = answer[c].status
        /\ answer' = [answer EXCEPT ![c] = last]
  BY <1>4, <1>5 DEF StreamOver
<1> HIDE DEF ended, whole
<1>7. last.status # 202 /\ (last.status = 200 => upstream'[c] = "ran")
  BY <1>2, <1>6 DEF Statuses
<1>8. /\ at' \in [Callers -> InFlight \cup {"idle", "answered", "died"}]
      /\ answer' \in [Callers -> Answers]
      /\ rows' \in [Callers -> Nat]
      /\ Good(c)'
      /\ \A d \in Callers \ {c} : Same(d)
  BY <1>1, <1>2, <1>6, <1>7, EndLemma
<1>9. RouteTypeOK'
  BY <1>1, <1>2, <1>8 DEF RouteTypeOK
<1> QED
  BY <1>8, <1>9, OneGood

(* So whatever becomes of a request, the route's invariant is kept.        *)
LEMMA CallStepIsGood ==
  ASSUME RouteInv, NEW c \in Callers, CallStep(c)
  PROVE  RouteInv'
BY DispatchIsGood, DecideIsGood, HeldHearsIsGood, UpstreamIsGood, HeadedIsGood,
   ChunkIsGood, FetchThrowsIsGood, StreamOverIsGood
   DEF CallStep

(* The administrator, a revocation, a crash.                               *)
LEMMA OthersAreGood ==
  ASSUME RouteInv,
         \/ \E p \in Callers : Resolve(p) \/ Mint(p)
         \/ Revoke
         \/ Crash
  PROVE  RouteInv'
<1> USE DEF queueVars
<1>1. RouteTypeOK /\ \A d \in Callers : Good(d)
  BY RequestByRequest
<1>2. CASE \E p \in Callers : Resolve(p) \/ Mint(p)
  <2>1. RouteTypeOK'
    BY <1>1, <1>2 DEF RouteTypeOK, Resolve, Mint
  <2>2. \A d \in Callers : Same(d)
    BY <1>2 DEF Resolve, Mint, Same
  <2> QED
    BY <1>1, <2>1, <2>2, SameIsGood, RequestByRequest
       DEF RouteInv, AnsweredOnce, Once, Good
<1>3. CASE Revoke
  <2>1. RouteTypeOK'
    BY <1>1, <1>3 DEF RouteTypeOK, Revoke
  <2>2. \A d \in Callers : Same(d)
    BY <1>3 DEF Revoke, Same
  <2> QED
    BY <1>1, <2>1, <2>2, SameIsGood DEF RouteInv, AnsweredOnce, Once, Good
<1>4. CASE Crash
  <2>1. /\ at' \in [Callers -> InFlight \cup {"idle", "answered", "died"}]
        /\ \A d \in Callers : at'[d] = IF at[d] \in InFlight THEN "died" ELSE at[d]
    BY <1>1, <1>4 DEF RouteTypeOK, Crash
  <2>2. RouteTypeOK'
    BY <1>1, <1>4, <2>1, RouteAssumption DEF RouteTypeOK, Crash
  <2>3. ASSUME NEW d \in Callers
        PROVE  Good(d)'
    BY <1>1, <1>4, <2>1
       DEF Crash, Good, Once, Stages, Statuses, Reasons, Undecided, Unanswered,
           Audited, SecondGuardRefuses, InFlight
  <2> QED
    BY <2>2, <2>3 DEF RouteInv, AnsweredOnce, Once, Good
<1> QED
  BY <1>2, <1>3, <1>4

----------------------------------------------------------------------------
(* Turns                                                                   *)

LEMMA TypeSplit == TypeOK <=> RouteTypeOK /\ AgentTypeOK
BY DEF TypeOK, AgentTypeOK, TurnRecords

(* Only one turn has moved; this is where it is and what it has said.      *)
Moved(t, where, said) ==
  /\ turn' \in [Turns -> TurnRecords]
  /\ \A u \in Turns \ {t} : turn'[u] = turn[u]
  /\ turn'[t].at = where /\ turn'[t].said = said

LEMMA Replace ==
  ASSUME AgentTypeOK, NEW t \in Turns, NEW new \in TurnRecords,
         turn' = [turn EXCEPT ![t] = new]
  PROVE  Moved(t, new.at, new.said)
BY DEF AgentTypeOK, Moved

(* The updates of a turn that the actions make.                            *)
LEMMA MoveLemma ==
  ASSUME AgentTypeOK, NEW t \in Turns, NEW where \in UnderWay
  PROVE  /\ turn' = [turn EXCEPT ![t].at = where] =>
              Moved(t, where, turn[t].said)
         /\ turn[t].polls < MaxPolls
              /\ turn' = [turn EXCEPT ![t] = [@ EXCEPT !.at = where,
                                               !.polls = turn[t].polls + 1]] =>
              Moved(t, where, turn[t].said)
         /\ turn[t].polls < MaxPolls
              /\ turn' = [turn EXCEPT ![t].polls = @ + 1] =>
              Moved(t, turn[t].at, turn[t].said)
         /\ \A tool \in Tools :
              turn' = [turn EXCEPT ![t] = [@ EXCEPT !.at = where, !.tool = tool]] =>
              Moved(t, where, turn[t].said)
         /\ \A said \in NoRun \cup {"result", "toolError"} :
              Reply(t, said) => Moved(t, "done", said)
<1> DEFINE old == turn[t]
<1>1. old \in TurnRecords
  BY DEF AgentTypeOK
<1>2. ASSUME turn' = [turn EXCEPT ![t].at = where]
      PROVE  Moved(t, where, old.said)
  <2> DEFINE new == [old EXCEPT !.at = where]
  <2>1. new \in TurnRecords /\ new.at = where /\ new.said = old.said
    BY <1>1 DEF TurnRecords
  <2>2. turn' = [turn EXCEPT ![t] = new]
    BY <1>2
  <2> HIDE DEF new
  <2> QED
    BY <2>1, <2>2, Replace
<1>3. ASSUME old.polls < MaxPolls
      PROVE  old.polls + 1 \in 0..MaxPolls
  BY <1>1, <1>3, AgentAssumption DEF TurnRecords
<1>4. ASSUME old.polls < MaxPolls,
             turn' = [turn EXCEPT ![t] = [@ EXCEPT !.at = where,
                                                   !.polls = old.polls + 1]]
      PROVE  Moved(t, where, old.said)
  <2> DEFINE new == [old EXCEPT !.at = where, !.polls = old.polls + 1]
  <2>1. new \in TurnRecords /\ new.at = where /\ new.said = old.said
    BY <1>1, <1>3, <1>4 DEF TurnRecords
  <2>2. turn' = [turn EXCEPT ![t] = new]
    BY <1>4
  <2> HIDE DEF new
  <2> QED
    BY <2>1, <2>2, Replace
<1>5. ASSUME old.polls < MaxPolls, turn' = [turn EXCEPT ![t].polls = @ + 1]
      PROVE  Moved(t, old.at, old.said)
  <2> DEFINE new == [old EXCEPT !.polls = @ + 1]
  <2>1. new \in TurnRecords /\ new.at = old.at /\ new.said = old.said
    BY <1>1, <1>3, <1>5 DEF TurnRecords
  <2>2. turn' = [turn EXCEPT ![t] = new]
    BY <1>5
  <2> HIDE DEF new
  <2> QED
    BY <2>1, <2>2, Replace
<1>6. ASSUME NEW tool \in Tools,
             turn' = [turn EXCEPT ![t] = [@ EXCEPT !.at = where, !.tool = tool]]
      PROVE  Moved(t, where, old.said)
  <2> DEFINE new == [old EXCEPT !.at = where, !.tool = tool]
  <2>1. new \in TurnRecords /\ new.at = where /\ new.said = old.said
    BY <1>1 DEF TurnRecords
  <2>2. turn' = [turn EXCEPT ![t] = new]
    BY <1>6
  <2> HIDE DEF new
  <2> QED
    BY <2>1, <2>2, Replace
<1>7. ASSUME NEW said \in NoRun \cup {"result", "toolError"}, Reply(t, said)
      PROVE  Moved(t, "done", said)
  <2> DEFINE new == [old EXCEPT !.at = "done", !.said = said]
  <2>1. new \in TurnRecords /\ new.at = "done" /\ new.said = said
    BY <1>1 DEF TurnRecords
  <2>2. turn' = [turn EXCEPT ![t] = new]
    BY <1>7 DEF Reply
  <2> HIDE DEF new
  <2> QED
    BY <2>1, <2>2, Replace
<1> QED
  BY <1>2, <1>4, <1>5, <1>6, <1>7

(* A step that leaves the route alone leaves its invariant alone.          *)
LEMMA RouteStutter ==
  ASSUME RouteInv, UNCHANGED routeVars
  PROVE  RouteInv'
<1>1. RouteTypeOK'
  BY DEF RouteInv, RouteTypeOK, routeVars, queueVars
<1>2. \A d \in Callers : Same(d)
  BY DEF Same, routeVars
<1> QED
  BY <1>1, <1>2, SameIsGood, RequestByRequest
     DEF RouteInv, AnsweredOnce, Once, Good

(* What is left when the route does nothing: that the turn is in order,    *)
(* and that it has not begun to be under way.                              *)
LEMMA QuietMove ==
  ASSUME Inv, NEW t \in Turns, NEW where, NEW said, Moved(t, where, said),
         UNCHANGED <<routeVars, agent, reinits, mix>>, send' \in BOOLEAN,
         overlapped' = overlapped,
         turn[t].at \in UnderWay, turn[t].at # "retrying",
         Progress(t)'
  PROVE  Inv'
<1>1. RouteInv'
  BY RouteStutter DEF Inv
<1>2. AgentTypeOK'
  BY DEF Inv, AgentTypeOK, Moved
<1>3. \A u \in Turns : Progress(u)'
  BY DEF Inv, Moved, Progress, routeVars
<1>4. Sharing'
  <2>1. Busy' \subseteq Busy
    BY DEF Busy, Moved
  <2>2. agent.approval # None => agent.approval # t /\ agent.approval \in Turns
    BY DEF Inv, Sharing, AgentTypeOK
  <2> QED
    BY <2>1, <2>2 DEF Inv, Sharing, Moved
<1>5. TokenForItsCall'
  BY DEF Inv, TokenForItsCall, routeVars
<1> QED
  BY <1>1, <1>2, <1>3, <1>4, <1>5 DEF Inv

(* A turn's call is a request like any other.                              *)
LEMMA CallToolLemma ==
  ASSUME Inv, NEW t \in Turns, NEW approval \in Turns \cup {None},
         turn[t].tool \in Tools \cup {"none"}, CallTool(t, approval)
  PROVE  /\ RouteInv'
         /\ at'[t] = "received" /\ upstream'[t] = "none" /\ runs' = runs
         /\ request'[t].approval = approval
         /\ \A u \in Turns \ {t} :
              at'[u] = at[u] /\ upstream'[u] = upstream[u]
                /\ request'[u] = request[u]
<1> DEFINE r == [server |-> agent.server, body |-> "call", hasId |-> TRUE,
                 tool |-> turn[t].tool, token |-> agent.token, wait |-> FALSE,
                 approval |-> approval]
<1>1. r \in Requests /\ r.approval = approval
  BY AgentAssumption, RouteAssumption
     DEF Inv, AgentTypeOK, Requests, Servers, Bodies
<1>2. Arrive(t, r)
  BY DEF CallTool
<1>3. t \in Callers /\ Turns \subseteq Callers
  BY AgentAssumption
<1> HIDE DEF r
<1>4. RouteInv'
  BY <1>1, <1>2, <1>3, ArriveIsGood DEF Inv
<1> QED
  BY <1>1, <1>2, <1>3, <1>4 DEF Inv, RouteInv, RouteTypeOK, Arrive, Goto

(* A message is sent: the turns under way know of each other from then on. *)
LEMMA SayKeepsInv ==
  ASSUME Inv, NEW t \in Turns, Say(t)
  PROVE  Inv'
<1>1. Moved(t, "thinking", turn[t].said)
  BY MoveLemma DEF Inv, Say, UnderWay
<1>2. RouteInv'
  BY RouteStutter DEF Inv, Say
<1>3. AgentTypeOK'
  BY <1>1 DEF Inv, AgentTypeOK, Moved, Say, Busy
<1>4. \A u \in Turns : Progress(u)'
  BY <1>1 DEF Inv, Moved, Progress, Say, routeVars
<1>5. Sharing'
  <2>1. Busy' \subseteq Busy \cup {t}
    BY <1>1 DEF Busy, Moved
  <2>2. Busy = {} \/ overlapped' = overlapped \cup Busy \cup {t}
    BY DEF Say
  <2>3. \A u, v \in Busy' : u # v => u \in overlapped'
    BY <2>1, <2>2
  <2>4. agent.approval # None => agent.approval # t /\ agent.approval \in Turns
    BY DEF Inv, Sharing, AgentTypeOK, Say
  <2> QED
    BY <1>1, <2>3, <2>4 DEF Inv, Sharing, Moved, Say
<1>6. TokenForItsCall'
  BY DEF Inv, TokenForItsCall, Say, routeVars
<1> QED
  BY <1>2, <1>3, <1>4, <1>5, <1>6 DEF Inv

(* The steps of a turn that ask nothing of the route.                      *)
LEMMA QuietStepKeepsInv ==
  ASSUME Inv, NEW t \in Turns,
         \/ Think(t) \/ Hear(t) \/ PollAgain(t) \/ PollDenied(t)
         \/ PollTimesOut(t)
  PROVE  Inv'
<1>1. /\ AgentTypeOK /\ RouteInv /\ Progress(t) /\ t \in Callers
      /\ at[t] = "answered" /\ answer[t].status = 202 => upstream[t] = "none"
      /\ answer[t].status = 200 => upstream[t] = "ran"
  BY AgentAssumption DEF Inv, RouteInv, Statuses
<1>2. /\ UNCHANGED <<routeVars, agent, reinits, mix>>
      /\ overlapped' = overlapped
  BY DEF Think, Hear, PollAgain, PollDenied, PollTimesOut
<1>3. turn[t].at \in UnderWay /\ turn[t].at # "retrying" /\ send' \in BOOLEAN
  BY <1>1
     DEF AgentTypeOK, Think, Hear, PollAgain, PollDenied, PollTimesOut, Reply,
         UnderWay
<1>4. at' = at /\ upstream' = upstream /\ runs' = runs
  BY <1>2 DEF routeVars
<1>5. CASE Think(t)
  <2>1. \/ \E said \in {"text", "failed", "blocked"} : Reply(t, said)
        \/ \E tool \in Tools :
             turn' = [turn EXCEPT ![t] = [@ EXCEPT !.at = "ready", !.tool = tool]]
    BY <1>5, Zenon DEF Think
  <2>2. \/ \E said \in NoRun : Moved(t, "done", said)
        \/ Moved(t, "ready", turn[t].said)
    BY <1>1, <2>1, MoveLemma DEF UnderWay, NoRun
  <2>3. at[t] = "idle" /\ upstream[t] = "none"
    BY <1>1, <1>5 DEF Think, Progress, RouteInv, Stages
  <2>4. Progress(t)'
    BY <1>1, <1>4, <1>5, <2>2, <2>3
       DEF Think, Progress, Moved, NoRun, InFlight
  <2> QED
    BY <1>2, <1>3, <2>2, <2>4, QuietMove
<1>6. CASE Hear(t)
  <2>1. CASE /\ at[t] = "answered" /\ answer[t].status = 202
             /\ turn' = [turn EXCEPT ![t].at = "polling"]
    <3>1. Moved(t, "polling", turn[t].said)
      BY <1>1, <2>1, MoveLemma DEF UnderWay
    <3>2. Progress(t)'
      BY <1>1, <1>4, <1>6, <2>1, <3>1 DEF Hear, Progress, Moved, NoRun
    <3> QED
      BY <1>2, <1>3, <3>1, <3>2, QuietMove
  <2>2. CASE Succeeded(t) /\ Reply(t, "result")
    <3>1. Moved(t, "done", "result")
      BY <1>1, <2>2, MoveLemma DEF UnderWay
    <3>2. Progress(t)'
      BY <1>1, <1>4, <2>2, <3>1 DEF Succeeded, Progress, Moved, NoRun
    <3> QED
      BY <1>2, <1>3, <3>1, <3>2, QuietMove
  <2>3. CASE Reply(t, "toolError")
    <3>1. Moved(t, "done", "toolError")
      BY <1>1, <2>3, MoveLemma DEF UnderWay
    <3>2. Progress(t)'
      BY <1>1, <1>4, <3>1 DEF Progress, Moved, NoRun
    <3> QED
      BY <1>2, <1>3, <3>1, <3>2, QuietMove
  <2> QED
    BY <1>6, <2>1, <2>2, <2>3 DEF Hear
<1>7. CASE PollAgain(t)
  <2>1. Moved(t, "polling", turn[t].said)
    BY <1>1, <1>7, MoveLemma DEF PollAgain, UnderWay
  <2>2. Progress(t)'
    BY <1>1, <1>4, <1>7, <2>1 DEF PollAgain, Progress, Moved
  <2> QED
    BY <1>2, <1>3, <2>1, <2>2, QuietMove
<1>8. CASE PollDenied(t) \/ PollTimesOut(t)
  <2>1. \E said \in {"denied", "timeout"} : Reply(t, said)
    BY <1>8 DEF PollDenied, PollTimesOut
  <2>2. \E said \in {"denied", "timeout"} : Moved(t, "done", said)
    BY <1>1, <2>1, MoveLemma DEF UnderWay, NoRun
  <2>3. Progress(t)'
    BY <1>1, <1>4, <1>8, <2>2
       DEF PollDenied, PollTimesOut, Progress, Moved, NoRun, InFlight
  <2> QED
    BY <1>2, <1>3, <2>2, <2>3, QuietMove
<1> QED
  BY <1>5, <1>6, <1>7, <1>8

(* The first call of a turn.  The token on the shared client, if there is  *)
(* one, is that of another turn under way.                                 *)
LEMMA CallKeepsInv ==
  ASSUME Inv, NEW t \in Turns, Call(t)
  PROVE  Inv'
<1>1. /\ AgentTypeOK /\ Sharing /\ TokenForItsCall /\ \A u \in Turns : Progress(u)
      /\ turn[t].at = "ready" /\ CallTool(t, agent.approval)
      /\ UNCHANGED <<agent, send, reinits, mix, overlapped>>
  BY DEF Inv, Call
<1>2. /\ turn[t].tool \in Tools \cup {"none"}
      /\ agent.approval \in Turns \cup {None}
  BY <1>1 DEF AgentTypeOK, TurnRecords
<1>3. /\ RouteInv'
      /\ at'[t] = "received" /\ upstream'[t] = "none" /\ runs' = runs
      /\ request'[t].approval = agent.approval
      /\ \A u \in Turns \ {t} :
           at'[u] = at[u] /\ upstream'[u] = upstream[u] /\ request'[u] = request[u]
  BY <1>1, <1>2, CallToolLemma
<1>4. Moved(t, "calling", turn[t].said)
  BY <1>1, MoveLemma DEF Call, UnderWay
<1>5. AgentTypeOK'
  BY <1>1, <1>4 DEF AgentTypeOK, Moved
<1>6. at[t] = "idle" /\ t \in Callers /\ upstream[t] = "none"
  BY <1>1, AgentAssumption DEF Inv, Progress, RouteInv, Stages
<1>7. \A u \in Turns : Progress(u)'
  BY <1>1, <1>3, <1>4, <1>6 DEF Progress, Moved, NoRun
<1>8. Sharing'
  <2>1. Busy' \subseteq Busy
    BY <1>1, <1>4 DEF Busy, Moved, UnderWay
  <2>2. agent.approval # None => agent.approval # t
    BY <1>1 DEF Sharing
  <2> QED
    BY <1>1, <1>2, <1>4, <2>1, <2>2 DEF Sharing, Moved
<1>9. TokenForItsCall'
  <2>1. ASSUME agent.approval # None
        PROVE  t \in overlapped
    BY <1>1, <1>2, <2>1 DEF Sharing, Busy, UnderWay
  <2> QED
    BY <1>1, <1>3, <2>1 DEF TokenForItsCall
<1> QED
  BY <1>3, <1>5, <1>7, <1>8, <1>9 DEF Inv

(* The second call, with the turn's own token.                             *)
LEMMA PollApprovedKeepsInv ==
  ASSUME Inv, NEW t \in Turns, PollApproved(t)
  PROVE  Inv'
<1>1. /\ AgentTypeOK /\ Sharing /\ TokenForItsCall /\ \A u \in Turns : Progress(u)
      /\ turn[t].at = "polling" /\ CallTool(t, t)
      /\ UNCHANGED <<send, reinits, mix, overlapped>>
      /\ agent' = [agent EXCEPT !.approval = t]
  BY DEF Inv, PollApproved
<1>2. turn[t].tool \in Tools \cup {"none"}
  BY <1>1 DEF AgentTypeOK, TurnRecords
<1>3. /\ RouteInv'
      /\ at'[t] = "received" /\ upstream'[t] = "none" /\ runs' = runs
      /\ request'[t].approval = t
      /\ \A u \in Turns \ {t} :
           at'[u] = at[u] /\ upstream'[u] = upstream[u] /\ request'[u] = request[u]
  BY <1>1, <1>2, CallToolLemma
<1>4. Moved(t, "retrying", turn[t].said)
  BY <1>1, MoveLemma DEF PollApproved, UnderWay
<1>5. AgentTypeOK' /\ agent'.approval = t
  BY <1>1, <1>4 DEF AgentTypeOK, Moved
<1>6. \A u \in Turns : Progress(u)'
  BY <1>1, <1>3, <1>4 DEF Progress, Moved, NoRun
<1>7. Sharing'
  <2>1. Busy' \subseteq Busy
    BY <1>1, <1>4 DEF Busy, Moved, UnderWay
  <2> QED
    BY <1>1, <1>4, <1>5, <2>1 DEF Sharing, Moved
<1>8. TokenForItsCall'
  BY <1>1, <1>3 DEF TokenForItsCall
<1> QED
  BY <1>3, <1>5, <1>6, <1>7, <1>8 DEF Inv

(* Its answer ends the turn, and takes the token off the client.           *)
LEMMA HearRetryKeepsInv ==
  ASSUME Inv, NEW t \in Turns, HearRetry(t)
  PROVE  Inv'
<1>1. /\ AgentTypeOK /\ Sharing /\ TokenForItsCall /\ \A u \in Turns : Progress(u)
      /\ turn[t].at = "retrying"
      /\ UNCHANGED <<routeVars, reinits, mix, overlapped>>
      /\ agent' = [agent EXCEPT !.approval = None]
      /\ RouteInv'
  BY RouteStutter DEF Inv, HearRetry
<1>2. at' = at /\ upstream' = upstream /\ runs' = runs /\ request' = request
  BY <1>1 DEF routeVars
<1>3. PICK said \in {"result", "toolError"} :
        /\ Reply(t, said)
        /\ said = "result" => upstream[t] = "ran"
  BY AgentAssumption DEF Inv, HearRetry, Succeeded, RouteInv, Statuses
<1>4. Moved(t, "done", said) /\ send' \in BOOLEAN
  BY <1>1, <1>3, MoveLemma DEF Reply, UnderWay
<1>5. AgentTypeOK' /\ agent'.approval = None
  BY <1>1, <1>4 DEF AgentTypeOK, Moved
<1>6. \A u \in Turns : Progress(u)'
  BY <1>1, <1>2, <1>3, <1>4 DEF Progress, Moved, NoRun
<1>7. Sharing'
  <2>1. Busy' \subseteq Busy
    BY <1>1, <1>4 DEF Busy, Moved, UnderWay
  <2> QED
    BY <1>1, <1>5, <2>1 DEF Sharing
<1>8. TokenForItsCall'
  BY <1>1, <1>2 DEF TokenForItsCall
<1> QED
  BY <1>1, <1>5, <1>6, <1>7, <1>8 DEF Inv

----------------------------------------------------------------------------
(* The rest of the system                                                  *)

(* What a step of a request can change of what a turn relies on: either    *)
(* the upstream acts, which it was asked to, or the request is in the      *)
(* proxy.                                                                  *)
Touches(c) ==
  /\ \A d \in Callers \ {c} :
       at'[d] = at[d] /\ upstream'[d] = upstream[d] /\ runs'[d] = runs[d]
  /\ \/ /\ at'[c] = at[c] /\ upstream[c] = "asked"
        /\ upstream'[c] \in Acted
        /\ runs'[c] = IF upstream'[c] = "ran" THEN runs[c] + 1 ELSE runs[c]
     \/ /\ at[c] \in InFlight /\ runs'[c] = runs[c]
        /\ upstream'[c] = "ran" <=> upstream[c] = "ran"

LEMMA CallStepTouches ==
  ASSUME RouteInv, NEW c \in Callers, CallStep(c)
  PROVE  Touches(c)
<1> USE DEF RouteInv, RouteTypeOK, Touches, InFlight, Goto
<1>1. CASE Dispatch(c)
  BY <1>1 DEF Dispatch, Send, Proceed
<1>2. CASE Decide(c)
  <2>1. /\ UNCHANGED <<upstream, runs>> /\ at[c] = "authorize"
        /\ \E where \in {"forward", "answered", "held"} : Goto(c, where)
    BY <1>2 DEF Decide, Send, Proceed
  <2> QED
    BY <2>1
<1>3. CASE HeldHears(c)
  BY <1>3 DEF HeldHears, Send, Proceed
<1>4. CASE Fetch(c)
  <2>1. upstream[c] = "none"
    BY <1>4 DEF Fetch, Stages
  <2> QED
    BY <1>4, <2>1 DEF Fetch
<1>5. CASE Act(c)
  <2>1. PICK done \in Acted :
          /\ upstream' = [upstream EXCEPT ![c] = done]
          /\ runs' = [runs EXCEPT ![c] = IF done = "ran" THEN @ + 1 ELSE @]
    BY <1>5 DEF Act, Acted
  <2> QED
    BY <1>5, <2>1 DEF Act
<1>6. CASE Headed(c)
  BY <1>6 DEF Headed
<1>7. CASE Chunk(c)
  BY <1>7 DEF Chunk
<1>8. CASE FetchThrows(c)
  BY <1>8 DEF FetchThrows
<1>9. CASE StreamOver(c)
  BY <1>9 DEF StreamOver
<1> QED
  BY <1>1, <1>2, <1>3, <1>4, <1>5, <1>6, <1>7, <1>8, <1>9 DEF CallStep

(* A turn keeps its promise whatever its request goes through.             *)
LEMMA TouchedProgress ==
  ASSUME RouteInv, NEW c \in Callers, Touches(c), NEW t \in Turns, Progress(t),
         turn' = turn
  PROVE  Progress(t)'
<1>1. t \in Callers /\ runs[t] \in Nat /\ (at[t] = "idle" => upstream[t] = "none")
  BY AgentAssumption DEF RouteInv, RouteTypeOK, Stages
<1>2. CASE t # c
  BY <1>1, <1>2 DEF Touches, Progress
<1>3. CASE t = c
  BY <1>1, <1>3 DEF Touches, Progress, InFlight, Acted
<1> QED
  BY <1>2, <1>3

(* Steps of the route leave the agent alone.                               *)
LEMMA RouteStepKeepsInv ==
  ASSUME Inv,
         \/ \E c \in Callers : CallStep(c) \/ Resolve(c) \/ Mint(c)
         \/ Revoke
         \/ Crash,
         UNCHANGED agentVars
  PROVE  Inv'
<1>1. RouteInv'
  BY CallStepIsGood, OthersAreGood DEF Inv
<1>2. AgentTypeOK' /\ Sharing' /\ turn' = turn
  BY DEF Inv, AgentTypeOK, Sharing, Busy, agentVars
<1>3. \A t \in Turns : Progress(t)'
  <2>1. CASE \E c \in Callers : CallStep(c)
    BY <1>2, <2>1, CallStepTouches, TouchedProgress DEF Inv
  <2>2. CASE (\E c \in Callers : Resolve(c) \/ Mint(c)) \/ Revoke
    BY <1>2, <2>2 DEF Inv, Progress, Resolve, Mint, Revoke
  <2>3. CASE Crash
    BY <1>2, <2>3, AgentAssumption DEF Inv, Progress, Crash, InFlight
  <2> QED
    BY <2>1, <2>2, <2>3
<1>4. TokenForItsCall'
  <2>1. request' = request
    BY DEF CallStep, Dispatch, Decide, HeldHears, Fetch, Act, Headed, Chunk,
           FetchThrows, StreamOver, Resolve, Mint, Revoke, Crash
  <2> QED
    BY <2>1 DEF Inv, TokenForItsCall, agentVars
<1> QED
  BY <1>1, <1>2, <1>3, <1>4 DEF Inv

(* Nor does a client's request, which is none of a turn's.                 *)
LEMMA ClientCallsKeepsInv ==
  ASSUME Inv, NEW c \in Clients, ClientCalls(c)
  PROVE  Inv'
<1>1. PICK r \in Requests : Arrive(c, r)
  BY AgentAssumption DEF ClientCalls
<1>2. c \in Callers /\ c \notin Turns /\ Turns \subseteq Callers
  BY AgentAssumption
<1>3. RouteInv'
  BY <1>1, <1>2, ArriveIsGood DEF Inv
<1>4. \A t \in Turns :
        at'[t] = at[t] /\ upstream'[t] = upstream[t] /\ request'[t] = request[t]
          /\ runs'[t] = runs[t]
  BY <1>1, <1>2 DEF Inv, RouteInv, RouteTypeOK, Arrive, Goto
<1>5. AgentTypeOK' /\ Sharing' /\ turn' = turn /\ overlapped' = overlapped
  BY DEF ClientCalls, Inv, AgentTypeOK, Sharing, Busy, agentVars
<1>6. (\A t \in Turns : Progress(t)') /\ TokenForItsCall'
  BY <1>4, <1>5 DEF Inv, Progress, TokenForItsCall
<1> QED
  BY <1>3, <1>5, <1>6 DEF Inv

----------------------------------------------------------------------------
(* The theorems                                                            *)

(* The initial state satisfies the invariant.                              *)
LEMMA InvInit == Init => Inv
<1> SUFFICES ASSUME Init PROVE Inv
  OBVIOUS
<1>1. RouteInv
  BY RouteStart DEF Init
<1>2. PICK scene \in Scenes :
        /\ mix = scene.callers
        /\ agent = [server |-> scene.server, token |-> scene.token,
                    approval |-> None]
  BY DEF Init
<1>3. /\ scene.callers \subseteq Callers /\ scene.token \in Tokens
      /\ scene.server \in {"flight", "vendor"}
  BY AgentAssumption
<1> DEFINE fresh == [at |-> "idle", tool |-> "none", polls |-> 0, said |-> "nothing"]
<1>4. fresh \in TurnRecords /\ fresh.at = "idle" /\ fresh.said = "nothing"
  BY AgentAssumption DEF TurnRecords
<1>5. /\ turn = [t \in Turns |-> fresh]
      /\ send = TRUE /\ reinits = 0 /\ overlapped = {}
  BY DEF Init
<1> HIDE DEF fresh
<1>6. AgentTypeOK
  BY <1>2, <1>3, <1>4, <1>5, AgentAssumption DEF AgentTypeOK
<1>7. /\ \A t \in Turns : turn[t].at = "idle" /\ turn[t].said = "nothing"
      /\ \A c \in Callers :
           /\ at[c] = "idle" /\ upstream[c] = "none" /\ runs[c] = 0
           /\ request[c].approval = None
  BY <1>4, <1>5 DEF Init, RouteInit
<1>8. \A t \in Turns : Progress(t)
  BY <1>7, AgentAssumption DEF Progress, NoRun
<1>9. Sharing /\ TokenForItsCall
  BY <1>2, <1>7, AgentAssumption DEF Sharing, Busy, UnderWay, TokenForItsCall
<1> QED
  BY <1>1, <1>6, <1>8, <1>9 DEF Inv

(* Every step preserves it.                                                *)
LEMMA InvStep == Inv /\ [Next]_vars => Inv'
<1>1. ASSUME Inv, UNCHANGED vars
      PROVE  Inv'
  <2>1. RouteInv'
    BY <1>1, RouteStutter DEF Inv, vars
  <2> QED
    BY <1>1, <2>1
       DEF Inv, AgentTypeOK, Progress, Sharing, Busy, TokenForItsCall, vars,
           routeVars, agentVars
<1>2. ASSUME Inv, InitializeFails
      PROVE  Inv'
  <2>1. RouteInv'
    BY <1>2, RouteStutter DEF Inv, InitializeFails
  <2>2. AgentTypeOK'
    BY <1>2, AgentAssumption DEF Inv, AgentTypeOK, InitializeFails
  <2> QED
    BY <1>2, <2>1, <2>2
       DEF Inv, Progress, Sharing, Busy, TokenForItsCall, InitializeFails,
           routeVars
<1>3. ASSUME Inv, NEW t \in Turns, Say(t) \/ TurnStep(t)
      PROVE  Inv'
  BY <1>3, SayKeepsInv, QuietStepKeepsInv, CallKeepsInv, PollApprovedKeepsInv,
     HearRetryKeepsInv
     DEF TurnStep
<1> QED
  BY <1>1, <1>2, <1>3, ClientCallsKeepsInv, RouteStepKeepsInv DEF Next, Finished

(* So it holds in every reachable state.                                   *)
THEOREM Invariant == Spec => []Inv
BY InvInit, InvStep, PTL DEF Spec

(* Every variable has its type.                                            *)
THEOREM TypeCorrect == Spec => []TypeOK
<1>1. Inv => TypeOK
  BY TypeSplit DEF Inv, RouteInv
<1> QED
  BY <1>1, Invariant, PTL

(* Every answer has one head, wherever its forward broke, and a forwarded  *)
(* tools/call leaves one row in the audit log: the catch of the fetch, the *)
(* finally block of the stream and the catch around the whole route answer *)
(* only what has not been answered.                                        *)
THEOREM OneAnswerOneRow == Spec => []AnsweredOnce
<1>1. Inv => AnsweredOnce
  BY DEF Inv, RouteInv
<1> QED
  BY <1>1, Invariant, PTL

(* A turn's tool runs once at most, and its reply says whether it did: the *)
(* retry is sent only when the proxy answered 202 to the first call, which *)
(* it does before anything has been forwarded.                             *)
THEOREM RepliesAreTrue == Spec => []SaysWhatHappened
<1>1. Inv => SaysWhatHappened
  BY DEF Inv, Progress, SaysWhatHappened
<1> QED
  BY <1>1, Invariant, PTL

(* An approval token reaches no call but its own, unless turns overlapped: *)
(* the shared client holds it exactly while its turn retries.              *)
THEOREM TokensStayWithTheirCalls == Spec => []TokenForItsCall
<1>1. Inv => TokenForItsCall
  BY DEF Inv
<1> QED
  BY <1>1, Invariant, PTL

----------------------------------------------------------------------------
(* The two guards                                                          *)

(* Of claims that all count, or of those among them that say something,    *)
(* the second choice reads at least what the first does.                   *)
LEMMA FirstThatSaysSomething ==
  ASSUME NEW token
  PROVE  FirstScopeClaim(token, DOMAIN token.claims)
           \subseteq FirstScopeClaim(token, NotEmpty(token))
<1> DEFINE Found(counting) == {i \in DOMAIN ScopeClaims : ScopeClaims[i] \in counting}
           Least(S) == CHOOSE i \in S : \A j \in S : i <= j
           present == Found(DOMAIN token.claims)
           telling == Found(NotEmpty(token))
<1>1. /\ FirstScopeClaim(token, DOMAIN token.claims) =
           IF present = {} THEN {} ELSE Claim(token, ScopeClaims[Least(present)])
      /\ FirstScopeClaim(token, NotEmpty(token)) =
           IF telling = {} THEN {} ELSE Claim(token, ScopeClaims[Least(telling)])
  BY DEF FirstScopeClaim
<1>2. DOMAIN ScopeClaims = 1..3
  BY DEF ScopeClaims
<1>3. /\ present \subseteq 1..3 /\ telling \subseteq present
      /\ \A i \in present : Claim(token, ScopeClaims[i]) # {} => i \in telling
  BY <1>2 DEF NotEmpty, Claim
<1> HIDE DEF present, telling
<1>4. ASSUME NEW S \in SUBSET (1..3), S # {}
      PROVE  Least(S) \in S /\ \A j \in S : Least(S) <= j
  <2>1. \E i \in S : \A j \in S : i <= j
    <3>1. CASE 1 \in S
      BY <3>1
    <3>2. CASE 1 \notin S /\ 2 \in S
      BY <3>2
    <3>3. CASE 1 \notin S /\ 2 \notin S
      <4>1. \A i \in S : i = 3
        BY <3>3
      <4>2. PICK i \in S : i = 3
        BY <1>4, <4>1
      <4>3. \A j \in S : i <= j
        BY <4>1, <4>2
      <4> QED
        BY <4>3
    <3> QED
      BY <1>4, <3>1, <3>2, <3>3
  <2> QED
    BY <2>1
<1> HIDE DEF Least
<1>5. CASE present = {} \/ Claim(token, ScopeClaims[Least(present)]) = {}
  BY <1>1, <1>5
<1>6. CASE present # {} /\ Claim(token, ScopeClaims[Least(present)]) # {}
  <2>1. Least(present) \in telling /\ telling # {}
    BY <1>3, <1>4, <1>6
  <2>2. /\ Least(telling) \in 1..3 /\ Least(present) \in 1..3
        /\ Least(telling) <= Least(present)
        /\ Least(present) <= Least(telling)
    BY <1>3, <1>4, <1>6, <2>1
  <2>3. Least(telling) = Least(present)
    BY <2>2
  <2> QED
    BY <1>1, <1>6, <2>1, <2>3
<1> QED
  BY <1>5, <1>6

(* So guard.py finds every scope that guard.ts does, "or" for "??".        *)
LEMMA FlightFindsAllScopes ==
  ASSUME NEW token
  PROVE  ExtractScopes(token) \subseteq FlightExtractScopes(token)
BY FirstThatSaysSomething DEF ExtractScopes, FlightExtractScopes

(* What the proxy allows, the flight server allows, unless it cannot       *)
(* verify the token.                                                       *)
LEMMA FlightAllowsNoLess ==
  ASSUME NEW tool \in Names, NEW token \in Tokens \cup {NoToken},
         NEW trust \in BOOLEAN, NEW revocation \in BOOLEAN, NEW was \in BOOLEAN,
         Authorize(tool, token, trust, revocation, was) = "allowed",
         ~OnlyOursVerifies(token)
  PROVE  FlightAuthorize(tool, token, setup.secondTrust)
<1>1. /\ ValidateToken(token, trust, revocation, was)
      /\ tool \in DOMAIN Policy
      /\ HasScope(ExtractScopes(token), Policy[tool])
  BY DEF Authorize, CheckScope
<1>2. FlightValidateToken(token, setup.secondTrust)
  <2>1. token \in Tokens
    BY <1>1 DEF ValidateToken
  <2> QED
    BY <1>1, <2>1, TokenAssumption
       DEF ValidateToken, FlightValidateToken, OnlyOursVerifies, Issuers
<1>3. FlightHasScope(FlightExtractScopes(token), Policy[tool])
  BY <1>1, FlightFindsAllScopes DEF HasScope, FlightHasScope
<1> QED
  BY <1>1, <1>2, <1>3 DEF FlightAuthorize

(* Nothing that the proxy has let through for its scopes is refused by the *)
(* flight server's guard, which was written separately, in another         *)
(* language, but for tokens that only the proxy can verify.                *)
THEOREM SecondGuardAgrees == Spec => []GuardsAgree
<1>1. ASSUME Inv, NEW c \in Callers, basis[c] = "scope", upstream[c] = "refused",
             ~OnlyOursVerifies(request[c].token)
      PROVE  FALSE
  <2>1. PICK was \in BOOLEAN :
          Authorize(request[c].tool, request[c].token, setup.trust,
                    setup.revocation, was) = "allowed"
    BY <1>1 DEF Inv, RouteInv, Reasons
  <2>2. ~FlightAuthorize(request[c].tool, request[c].token, setup.secondTrust)
    BY <1>1 DEF Inv, RouteInv, Reasons, SecondGuardRefuses
  <2>3. /\ request[c].tool \in Names /\ request[c].token \in Tokens \cup {NoToken}
        /\ setup.trust \in BOOLEAN /\ setup.revocation \in BOOLEAN
    BY <1>1, RouteAssumption DEF Inv, RouteInv, RouteTypeOK, Requests, AllSetups
  <2> QED
    BY <1>1, <2>1, <2>2, <2>3, FlightAllowsNoLess
<1>2. Inv => GuardsAgree
  BY <1>1 DEF GuardsAgree
<1> QED
  BY <1>2, Invariant, PTL
=============================================================================
