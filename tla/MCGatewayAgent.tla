-------------------------- MODULE MCGatewayAgent --------------------------
(* A turn or two of the chat agent, or one request of another client, with *)
(* a token of every shape that the providers and the demo key sign.        *)
EXTENDS GatewayAgent, TLC

CONSTANTS t1, t2, c1

MCPolicy == ("search" :> <<"flights", "read">>) @@ ("book" :> <<"flights", "write">>)

Shape(by, iss, claims, names, gty) ==
  [by |-> by, iss |-> iss, ours |-> TRUE, fresh |-> TRUE, claims |-> claims,
   names |-> names, gty |-> gty]

Read == {<<"flights", "read">>}
All == {<<"flights", "*">>}

Auth0Client(scopes) ==
  Shape("idp", "slash", "scope" :> scopes, {"azp", "sub@clients"}, TRUE)
Auth0Person(scopes) ==
  Shape("idp", "slash", ("scope" :> {}) @@ ("permissions" :> scopes), {"azp"}, FALSE)
EntraClient(scopes) == Shape("idp", "bare", "roles" :> scopes, {"azp"}, FALSE)
EntraPerson(scopes) ==
  Shape("idp", "bare", ("scp" :> {}) @@ ("roles" :> scopes), {"azp"}, FALSE)
Demo(scopes) == Shape("demo", "none", "scope" :> scopes, {}, FALSE)

Expired == [Auth0Client(All) EXCEPT !.fresh = FALSE]
Forged == [Demo(All) EXCEPT !.by = "stranger"]
Foreign == [Auth0Client(All) EXCEPT !.ours = FALSE]

MCTokens ==
  {Auth0Client(Read), Auth0Person(Read), EntraClient(Read), EntraPerson(Read),
   Demo(Read), Demo({<<"*">>}), Expired, Forged, Foreign}

Plain == [guard |-> TRUE, second |-> TRUE, trust |-> FALSE, secondTrust |-> FALSE,
          queue |-> TRUE, revocation |-> FALSE, vendorToken |-> FALSE, kv |-> FALSE]
Trusting == [Plain EXCEPT !.trust = TRUE, !.secondTrust = TRUE]

Unwatched == [Plain EXCEPT !.second = FALSE, !.kv = TRUE]

MCSetups ==
  {Plain, Trusting, Unwatched,
   [Plain EXCEPT !.guard = FALSE],
   [Trusting EXCEPT !.queue = FALSE, !.revocation = TRUE],
   [Trusting EXCEPT !.secondTrust = FALSE, !.vendorToken = TRUE]}

Whole == [server |-> "flight", body |-> "call", hasId |-> TRUE, tool |-> "search",
          token |-> NoToken, wait |-> FALSE, approval |-> None]

MCRaw ==
  {[Whole EXCEPT !.server = server, !.body = body, !.hasId = id] :
     server \in Servers, body \in Bodies, id \in BOOLEAN}
  \cup {[Whole EXCEPT !.tool = tool, !.token = token, !.hasId = id] :
          tool \in {"search", "ghost"}, token \in Tokens, id \in BOOLEAN}
  \cup {[Whole EXCEPT !.tool = "book", !.token = token, !.wait = wait,
                      !.approval = approval, !.server = server] :
          token \in Tokens, wait \in BOOLEAN, approval \in {None, c1},
          server \in {"flight", "vendor"}}

MCScenes ==
  [setup: MCSetups, callers: {{c1}}, server: {"flight"}, token: {Forged}]
  \cup [setup: {Plain, Unwatched}, callers: {{t1, t2}}, server: {"flight"},
        token: {Demo(Read)}]
  \cup [setup: MCSetups, callers: {{t1}}, server: {"flight", "vendor"},
        token: {Auth0Person(Read), EntraPerson(Read), Demo(Read), Forged}]
=============================================================================
