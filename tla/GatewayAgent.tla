---------------------------- MODULE GatewayAgent ----------------------------
(***************************************************************************)
(* The chat agent of the console in front of the route, next to MCP        *)
(* clients of any other kind.                                              *)
(*                                                                         *)
(*   ui/src/gateway-agent.ts   a turn: one user message, one tool at most  *)
(*   ui/src/mcp-client.ts      the client that every turn shares           *)
(*   ui/src/agents-main.ts     the Send button                             *)
(*   gateway/proxy-routes-pending.ts   GET /pending/:id, polled by a turn  *)
(*                                                                         *)
(* Send is disabled while a turn is under way, but an Initialize that      *)
(* fails meanwhile enables it again, with the same agent behind it.        *)
(* A turn's calls are those of the caller with its name, and the pending   *)
(* id, poll token and approval token it is given are named by it.          *)
(***************************************************************************)
EXTENDS McpRoute

CONSTANTS
  Turns,       \* messages sent to the agent
  Clients,     \* MCP clients other than the agent, one request each
  Scenes,      \* a configuration, the callers that come at all, and the
               \* server and bearer token that the agent is given
  Raw,         \* the requests of the clients
  Tools,       \* what the language model may call
  MaxPolls,    \* maxAttempts (60)
  MaxReinits   \* bound: how often Initialize fails during a turn

ASSUME AgentAssumption ==
  /\ Callers = Turns \cup Clients /\ Turns \cap Clients = {}
  /\ Scenes \subseteq [setup: Setups, callers: SUBSET Callers,
                      server: {"flight", "vendor"}, token: Tokens]
  /\ Raw \subseteq Requests /\ Tools \subseteq Names
  /\ MaxPolls \in Nat \ {0} /\ MaxReinits \in Nat

VARIABLES
  agent,      \* GatewayAgent: its server and bearer token, fixed, and the
              \* approvalToken of its McpHttpClient
  turn,       \* where each turn stands, how often it has polled, its reply
  send,       \* is the Send button enabled?
  reinits,
  mix,        \* the callers of this behaviour
  (* observation *)
  overlapped  \* turns that were under way together with another

agentVars == <<agent, turn, send, reinits, mix, overlapped>>
vars == <<routeVars, agentVars>>

UnderWay == {"thinking", "ready", "calling", "polling", "retrying"}

(* Replies that say that the tool did not run.                             *)
NoRun == {"text", "failed", "blocked", "denied", "timeout"}

Busy == {t \in Turns : turn[t].at \in UnderWay}

----------------------------------------------------------------------------
(* The console                                                             *)

Say(t) ==
  /\ t \in mix /\ send
  /\ turn[t].at = "idle"
  /\ turn' = [turn EXCEPT ![t].at = "thinking"]
  /\ send' = FALSE
  /\ overlapped' = IF Busy = {} THEN overlapped ELSE overlapped \cup Busy \cup {t}
  /\ UNCHANGED <<routeVars, agent, reinits, mix>>

(* syncSendButtonState at the end of a failed Initialize.                  *)
InitializeFails ==
  /\ reinits < MaxReinits /\ Busy # {}
  /\ reinits' = reinits + 1 /\ send' = TRUE
  /\ UNCHANGED <<routeVars, agent, turn, mix, overlapped>>

(* A turn ends with a reply, and the console enables Send.                 *)
Reply(t, said) ==
  /\ turn' = [turn EXCEPT ![t] = [@ EXCEPT !.at = "done", !.said = said]]
  /\ send' = TRUE

----------------------------------------------------------------------------
(* A turn                                                                  *)

(* The language model answers with a text, fails, or asks for a tool; what *)
(* the pre-check refuses for another reason than a missing scope ends      *)
(* here.  The pre-check has the proxy's policy and keys, and asks nobody   *)
(* about revocation.                                                       *)
Think(t) ==
  /\ turn[t].at = "thinking"
  /\ \/ \E said \in {"text", "failed"} : Reply(t, said)
     \/ \E tool \in Tools :
          IF Authorize(tool, agent.token, setup.trust, FALSE, TRUE)
               \in {"allowed", "missingScope"}
          THEN /\ turn' = [turn EXCEPT ![t] = [@ EXCEPT !.at = "ready", !.tool = tool]]
               /\ UNCHANGED send
          ELSE Reply(t, "blocked")
  /\ UNCHANGED <<routeVars, agent, reinits, mix, overlapped>>

(* callTool: the request carries whatever approval token the shared client *)
(* has just then.                                                          *)
CallTool(t, approval) ==
  Arrive(t, [server |-> agent.server, body |-> "call", hasId |-> TRUE,
             tool |-> turn[t].tool, token |-> agent.token, wait |-> FALSE,
             approval |-> approval])

Call(t) ==
  /\ turn[t].at = "ready"
  /\ CallTool(t, agent.approval)
  /\ turn' = [turn EXCEPT ![t].at = "calling"]
  /\ UNCHANGED <<agent, send, reinits, mix, overlapped>>

Over(t) == at[t] \in {"answered", "died"}

(* callTool returns a result, and does not throw.                          *)
Succeeded(t) == at[t] = "answered" /\ answer[t].status = 200 /\ answer[t].whole
                  /\ answer[t].body

Hear(t) ==
  /\ turn[t].at = "calling" /\ Over(t)
  /\ IF at[t] = "answered" /\ answer[t].status = 202
     THEN turn' = [turn EXCEPT ![t].at = "polling"] /\ UNCHANGED send
     ELSE Reply(t, IF Succeeded(t) THEN "result" ELSE "toolError")
  /\ UNCHANGED <<routeVars, agent, reinits, mix, overlapped>>

(* Variant: one poll too many.                                             *)
PollAgain_OneMore(t) ==
  /\ turn[t].at = "polling" /\ turn[t].polls <= MaxPolls
  /\ turn' = [turn EXCEPT ![t].polls = @ + 1]
  /\ UNCHANGED <<routeVars, agent, send, reinits, mix, overlapped>>

(* Variant: a poll that says nothing new is not counted.                   *)
PollAgain_Uncounted(t) ==
  /\ turn[t].at = "polling" /\ turn[t].polls < MaxPolls
  /\ UNCHANGED vars

(* A poll that says nothing new: it failed, was refused, the request was   *)
(* forgotten, is not decided, or is approved without a token on file.      *)
PollAgain(t) ==
  /\ turn[t].at = "polling" /\ turn[t].polls < MaxPolls
  /\ turn' = [turn EXCEPT ![t].polls = @ + 1]
  /\ UNCHANGED <<routeVars, agent, send, reinits, mix, overlapped>>

(* A poll that brings an approval token: it is set on the client, and the  *)
(* tool is called again at once.                                           *)
PollApproved(t) ==
  /\ turn[t].at = "polling" /\ turn[t].polls < MaxPolls
  /\ filed[t] = "approved" /\ t \in minted
  /\ agent' = [agent EXCEPT !.approval = t]
  /\ CallTool(t, t)
  /\ turn' = [turn EXCEPT ![t] = [@ EXCEPT !.at = "retrying",
                                         !.polls = turn[t].polls + 1]]
  /\ UNCHANGED <<send, reinits, mix, overlapped>>

PollDenied(t) ==
  /\ turn[t].at = "polling" /\ turn[t].polls < MaxPolls
  /\ filed[t] = "denied"
  /\ Reply(t, "denied")
  /\ UNCHANGED <<routeVars, agent, reinits, mix, overlapped>>

PollTimesOut(t) ==
  /\ turn[t].at = "polling" /\ turn[t].polls = MaxPolls
  /\ Reply(t, "timeout")
  /\ UNCHANGED <<routeVars, agent, reinits, mix, overlapped>>

(* Variant: the client keeps the token when the retry fails.               *)
HearRetry_TokenKept(t) ==
  /\ turn[t].at = "retrying" /\ Over(t)
  /\ agent' = IF Succeeded(t) THEN [agent EXCEPT !.approval = None] ELSE agent
  /\ Reply(t, IF Succeeded(t) THEN "result" ELSE "toolError")
  /\ UNCHANGED <<routeVars, reinits, mix, overlapped>>

(* Variant: a retry that fails is followed by further polls.               *)
HearRetry_PollsOn(t) ==
  /\ turn[t].at = "retrying" /\ Over(t)
  /\ agent' = [agent EXCEPT !.approval = None]
  /\ IF Succeeded(t) THEN Reply(t, "result")
     ELSE turn' = [turn EXCEPT ![t].at = "polling"] /\ UNCHANGED send
  /\ UNCHANGED <<routeVars, reinits, mix, overlapped>>

(* The second call is the last, whether it succeeds or not.                *)
HearRetry(t) ==
  /\ turn[t].at = "retrying" /\ Over(t)
  /\ agent' = [agent EXCEPT !.approval = None]
  /\ Reply(t, IF Succeeded(t) THEN "result" ELSE "toolError")
  /\ UNCHANGED <<routeVars, reinits, mix, overlapped>>

TurnStep(t) ==
  \/ Think(t) \/ Call(t) \/ Hear(t)
  \/ PollAgain(t) \/ PollApproved(t) \/ PollDenied(t) \/ PollTimesOut(t)
  \/ HearRetry(t)

----------------------------------------------------------------------------
(* The specification                                                       *)

ClientCalls(c) ==
  /\ c \in mix /\ at[c] = "idle"
  /\ \E r \in Raw : Arrive(c, r)
  /\ UNCHANGED agentVars

Init ==
  /\ RouteInit
  /\ \E scene \in Scenes :
       /\ setup = scene.setup /\ mix = scene.callers
       /\ agent = [server |-> scene.server, token |-> scene.token,
                   approval |-> None]
  /\ turn = [t \in Turns |->
               [at |-> "idle", tool |-> "none", polls |-> 0, said |-> "nothing"]]
  /\ send = TRUE /\ reinits = 0 /\ overlapped = {}

(* Everything that was said has been answered.                             *)
Finished ==
  /\ Busy = {} /\ \A c \in Callers : at[c] \notin InFlight
  /\ UNCHANGED vars

Next ==
  \/ \E t \in Turns : Say(t) \/ TurnStep(t)
  \/ InitializeFails
  \/ \E c \in Clients : ClientCalls(c)
  \/ /\ \/ \E c \in Callers : CallStep(c) \/ Resolve(c) \/ Mint(c)
        \/ Revoke
        \/ Crash
     /\ UNCHANGED agentVars
  \/ Finished

Spec == Init /\ [][Next]_vars

(* Timers fire, fetch and the language model answer or give up.  Nobody    *)
(* has to decide, to send a message or to initialize again.                *)
FairSpec ==
  /\ Spec
  /\ \A t \in Turns : WF_vars(TurnStep(t))
  /\ \A c \in Callers : WF_vars(CallStep(c) /\ UNCHANGED agentVars)

----------------------------------------------------------------------------
(* Properties                                                              *)

(* Every variable has its type.                                            *)
TypeOK ==
  /\ RouteTypeOK
  /\ agent \in [server: {"flight", "vendor"}, token: Tokens,
                approval: Turns \cup {None}]
  /\ turn \in [Turns -> [at: UnderWay \cup {"idle", "done"},
                         tool: Tools \cup {"none"}, polls: 0..MaxPolls,
                         said: NoRun \cup {"nothing", "result", "toolError"}]]
  /\ send \in BOOLEAN
  /\ reinits \in 0..MaxReinits
  /\ mix \subseteq Callers
  /\ overlapped \subseteq Turns

(* A tool runs once at most in a turn, whatever was polled, retried or     *)
(* lost; it has run if the reply is its result, and it has not, and never  *)
(* will, if the reply says that nothing was done.                          *)
SaysWhatHappened ==
  \A t \in Turns :
    /\ runs[t] <= 1
    /\ turn[t].said = "result" => runs[t] = 1
    /\ turn[t].said \in NoRun => runs[t] = 0

(* An approval token goes with the call it was given for, although the     *)
(* client that carries it is shared, unless turns overlapped.              *)
TokenForItsCall ==
  \A t \in Turns \ overlapped : request[t].approval \in {None, t}

(* Every turn ends.                                                        *)
TurnsEnd ==
  \A t \in Turns : turn[t].at \in UnderWay ~> turn[t].at = "done"
=============================================================================
