---------------------------- MODULE XeroConnection ----------------------------
(***************************************************************************)
(* One company's connection to Xero: the refresh token on file, the access *)
(* tokens in memory (xero/token-cache.js), the OAuth flow and its state    *)
(* (xero/oauth.js, oauth-state.js), the Custom Connection (connect.js) and *)
(* the routes an admin uses (routes/xero.js).                              *)
(*                                                                         *)
(* Xero rotates a refresh token on every use, so a token is worth keeping  *)
(* only until the next one is issued.  A call to Xero is two steps: Xero   *)
(* deals with it, then its answer is dealt with here; anything may happen  *)
(* in between.                                                             *)
(***************************************************************************)
EXTENDS Naturals, FiniteSets

CONSTANTS
  Tenant,     \* organisations
  Admin,      \* who may connect and disconnect
  MaxIssued,  \* bound: refresh tokens Xero issues
  MaxCalls    \* bound: a call starts only while fewer are under way

ASSUME XeroConnectionAssumption == MaxIssued \in Nat /\ MaxCalls \in Nat

VARIABLES
  issued,      \* how many refresh tokens Xero has issued
  alive,       \* the ones it would take
  refreshToken,    \* XERO_OAUTH_REFRESH_TOKEN, 0 when there is none
  connectionType,  \* XERO_CONNECTION_TYPE
  xeroTenants,     \* the rows of xero_tenants
  tokens,      \* cache.tokens: how each was got and whether it has expired
  states,      \* _states: whose authorization is under way
  calls,       \* the calls to Xero under way
  spoilt       \* an answer never came back, or the server stopped before it did

xeroVars == <<issued, alive, refreshToken, connectionType, xeroTenants, tokens, states, calls, spoilt>>

Kind == {"refresh",    \* getValidToken of an expired token
         "reconnect",  \* getValidToken with a cold cache
         "test",       \* POST /test: autoConnect
         "complete",   \* POST /oauth/complete
         "disconnect"} \* DELETE /oauth/disconnect
Way  == {"oauth", "custom"}

\* `redeem' is a refresh token the call was sent with, 0 when it needs none;
\* `got' the one in the answer.  A connection then lists its organisations.
Call == [kind : Kind, way : Way, leg : {"sent", "answered", "refused", "listing"},
         redeem : 0..MaxIssued, got : 0..MaxIssued]

NoToken == [way |-> "none", fresh |-> FALSE]

XeroTypeOK ==
  /\ issued \in 0..MaxIssued
  /\ alive \subseteq 1..MaxIssued
  /\ refreshToken \in 0..MaxIssued
  /\ connectionType \in Way \cup {"none"}
  /\ xeroTenants \subseteq Tenant
  /\ tokens \in [Tenant -> [way : Way \cup {"none"}, fresh : BOOLEAN]]
  /\ states \subseteq Admin
  /\ calls \subseteq Call
  /\ spoilt \in BOOLEAN

XeroInit ==
  /\ issued = 0 /\ alive = {}
  /\ refreshToken = 0 /\ connectionType = "none" /\ xeroTenants = {}
  /\ tokens = [t \in Tenant |-> NoToken]
  /\ states = {} /\ calls = {} /\ spoilt = FALSE

-----------------------------------------------------------------------------
(* Calls begin.                                                            *)

Sent(kind, way, token) ==
  /\ Cardinality(calls) < MaxCalls
  /\ calls' = calls \cup {[kind |-> kind, way |-> way, leg |-> "sent", redeem |-> token, got |-> 0]}

UnderWay(kind) == \E c \in calls : c.kind = kind

\* refreshAuthCodeToken throws before it calls when nothing is on file.
Redeemable(way) == way = "oauth" => refreshToken # 0
Redeems(way) == IF way = "oauth" THEN refreshToken ELSE 0

\* Whoever meets the expiry while a refresh is under way waits for that one.
BeginRefresh(t) ==
  /\ tokens[t].way # "none" /\ ~tokens[t].fresh
  /\ ~UnderWay("refresh")
  /\ Redeemable(tokens[t].way)
  /\ Sent("refresh", tokens[t].way, Redeems(tokens[t].way))
  /\ UNCHANGED <<issued, alive, refreshToken, connectionType, xeroTenants, tokens, states, spoilt>>

\* A tenant known from the database, and no token for it in memory.
BeginReconnect(t) ==
  LET way == IF connectionType = "oauth" THEN "oauth" ELSE "custom" IN
  /\ t \in xeroTenants /\ tokens[t].way = "none"
  /\ ~UnderWay("reconnect")
  /\ Redeemable(way)
  /\ Sent("reconnect", way, Redeems(way))
  /\ UNCHANGED <<issued, alive, refreshToken, connectionType, xeroTenants, tokens, states, spoilt>>

BeginTest ==
  /\ Sent("test", "custom", 0)
  /\ UNCHANGED <<issued, alive, refreshToken, connectionType, xeroTenants, tokens, states, spoilt>>

\* GET /oauth/connect: a state bound to the person.
Connect(u) ==
  /\ states' = states \cup {u}
  /\ UNCHANGED <<issued, alive, refreshToken, connectionType, xeroTenants, tokens, calls, spoilt>>

\* Ten minutes pass.
StateExpires(u) ==
  /\ u \in states
  /\ states' = states \ {u}
  /\ UNCHANGED <<issued, alive, refreshToken, connectionType, xeroTenants, tokens, calls, spoilt>>

\* Used once, whether or not it was good.
Consume(u, v) == states' = states \ {v}

\* Somebody signed in as u comes back from Xero with the state made for v.
CompleteBegins(u, v) ==
  /\ v \in states
  /\ Consume(u, v)
  /\ IF u = v THEN Sent("complete", "oauth", 0) ELSE UNCHANGED calls
  /\ UNCHANGED <<issued, alive, refreshToken, connectionType, xeroTenants, tokens, spoilt>>

BeginDisconnect ==
  /\ Sent("disconnect", "oauth", refreshToken)
  /\ UNCHANGED <<issued, alive, refreshToken, connectionType, xeroTenants, tokens, states, spoilt>>

-----------------------------------------------------------------------------
(* Xero.                                                                   *)

Becomes(c, leg, got) == calls' = (calls \ {c}) \cup {[c EXCEPT !.leg = leg, !.got = got]}

\* A refresh token is taken once and replaced; one that was replaced already,
\* or revoked, is refused.  A consent issues a token of its own.
XeroIssues(c) ==
  /\ c.leg = "sent" /\ c.way = "oauth" /\ c.kind # "disconnect"
  /\ c.kind = "complete" \/ c.redeem \in alive
  /\ issued < MaxIssued
  /\ issued' = issued + 1
  /\ alive' = (alive \ {c.redeem}) \cup {issued + 1}
  /\ Becomes(c, "answered", issued + 1)
  /\ UNCHANGED <<refreshToken, connectionType, xeroTenants, tokens, states, spoilt>>

XeroRefuses(c) ==
  /\ c.leg = "sent" /\ c.way = "oauth" /\ c.kind \in {"refresh", "reconnect"}
  /\ c.redeem \notin alive
  /\ Becomes(c, "refused", 0)
  /\ UNCHANGED <<issued, alive, refreshToken, connectionType, xeroTenants, tokens, states, spoilt>>

\* Client credentials give an access token and no refresh token.
XeroGrants(c) ==
  /\ c.leg = "sent" /\ c.way = "custom"
  /\ Becomes(c, "answered", 0)
  /\ UNCHANGED <<issued, alive, refreshToken, connectionType, xeroTenants, tokens, states, spoilt>>

XeroRevokes(c) ==
  /\ c.leg = "sent" /\ c.kind = "disconnect"
  /\ alive' = alive \ {c.redeem}
  /\ Becomes(c, "answered", 0)
  /\ UNCHANGED <<issued, refreshToken, connectionType, xeroTenants, tokens, states, spoilt>>

-----------------------------------------------------------------------------
(* The answers.                                                            *)

Ends(c) == calls' = calls \ {c}
Unheard == {c \in calls : c.leg = "answered"}

\* An error is the caller's; nothing is stored or forgotten.
Refused(c) ==
  /\ c.leg = "refused"
  /\ Ends(c)
  /\ UNCHANGED <<issued, alive, refreshToken, connectionType, xeroTenants, tokens, states, spoilt>>

\* mutant: the answer is cached for every tenant, connected that way or not.
RefreshedForAll(c) ==
  /\ c.kind = "refresh" /\ c.leg = "answered"
  /\ refreshToken' = IF c.way = "oauth" THEN c.got ELSE refreshToken
  /\ tokens' = [t \in Tenant |-> [way |-> c.way, fresh |-> TRUE]]
  /\ Ends(c)
  /\ UNCHANGED <<issued, alive, connectionType, xeroTenants, states, spoilt>>

\* The new token is on file before anything else; every tenant connected the
\* same way gets the new access token.
Refreshed(c) ==
  /\ c.kind = "refresh" /\ c.leg = "answered"
  /\ refreshToken' = IF c.way = "oauth" THEN c.got ELSE refreshToken
  /\ tokens' = [t \in Tenant |-> [tokens[t] EXCEPT !.fresh = @ \/ tokens[t].way = c.way]]
  /\ Ends(c)
  /\ UNCHANGED <<issued, alive, connectionType, xeroTenants, states, spoilt>>

\* The first half of reconnect and of completeConnection: the token is on file,
\* the organisations are asked for next.  autoConnect stores nothing here.
Listing(c) ==
  /\ c.kind \in {"reconnect", "test", "complete"} /\ c.leg = "answered"
  /\ refreshToken' = IF c.way = "oauth" THEN c.got ELSE refreshToken
  /\ connectionType' = IF c.kind = "complete" THEN "oauth" ELSE connectionType
  /\ Becomes(c, "listing", c.got)
  /\ UNCHANGED <<issued, alive, xeroTenants, tokens, states, spoilt>>

\* Every organisation listed gets the token and a row, every other loses both.
Listed(c) ==
  /\ c.leg = "listing"
  /\ \E listed \in SUBSET Tenant \ {{}} :
       /\ tokens' = [t \in Tenant |-> IF t \in listed THEN [way |-> c.way, fresh |-> TRUE] ELSE NoToken]
       /\ xeroTenants' = listed
  /\ connectionType' = IF c.way = "custom" THEN "custom" ELSE connectionType
  /\ Ends(c)
  /\ UNCHANGED <<issued, alive, refreshToken, states, spoilt>>

\* Nothing listed, or no answer.
ListFails(c) ==
  /\ c.leg = "listing"
  /\ Ends(c)
  /\ UNCHANGED <<issued, alive, refreshToken, connectionType, xeroTenants, tokens, states, spoilt>>

Disconnected(c) ==
  /\ c.kind = "disconnect" /\ c.leg = "answered"
  /\ tokens' = [t \in Tenant |-> NoToken]
  /\ xeroTenants' = {}
  /\ refreshToken' = 0 /\ connectionType' = "none"
  /\ Ends(c)
  /\ UNCHANGED <<issued, alive, states, spoilt>>

\* No answer within ten seconds, whether or not Xero dealt with the call: an
\* error, except that a disconnect goes on without it.
Lost(c) ==
  /\ c.leg \in {"sent", "answered"}
  /\ IF c.kind = "disconnect"
     THEN /\ tokens' = [t \in Tenant |-> NoToken]
          /\ xeroTenants' = {} /\ refreshToken' = 0 /\ connectionType' = "none"
     ELSE UNCHANGED <<tokens, xeroTenants, refreshToken, connectionType>>
  /\ Ends(c)
  /\ spoilt' = (spoilt \/ (c.leg = "answered" /\ c.got # 0))
  /\ UNCHANGED <<issued, alive, states>>

Expires(t) ==
  /\ tokens[t].fresh
  /\ tokens' = [tokens EXCEPT ![t].fresh = FALSE]
  /\ UNCHANGED <<issued, alive, refreshToken, connectionType, xeroTenants, states, calls, spoilt>>

\* Access tokens and states are in memory only.
XeroRestart ==
  /\ tokens' = [t \in Tenant |-> NoToken]
  /\ states' = {} /\ calls' = {}
  /\ spoilt' = (spoilt \/ Unheard # {})
  /\ UNCHANGED <<issued, alive, refreshToken, connectionType, xeroTenants>>

XeroNext ==
  \/ \E t \in Tenant : BeginRefresh(t) \/ BeginReconnect(t) \/ Expires(t)
  \/ BeginTest \/ BeginDisconnect
  \/ \E u \in Admin : Connect(u) \/ StateExpires(u)
  \/ \E u \in Admin, v \in Admin : CompleteBegins(u, v)
  \/ \E c \in calls :
       \/ XeroIssues(c) \/ XeroRefuses(c) \/ XeroGrants(c) \/ XeroRevokes(c)
       \/ Refused(c) \/ Refreshed(c) \/ Listing(c) \/ Listed(c) \/ ListFails(c)
       \/ Disconnected(c) \/ Lost(c)
  \/ XeroRestart

XeroSpec == XeroInit /\ [][XeroNext]_xeroVars

-----------------------------------------------------------------------------
(* Properties.                                                             *)

\* While the company is connected by OAuth there is a token on file, and it is
\* one Xero would take, however refreshes, reconnects, consents and disconnects
\* overlap: the loser of a race neither stores its token over the winner's nor
\* forgets it.  Only an answer that never arrived can break the connection.
TokenOnFileWorks ==
  connectionType = "oauth" =>
    refreshToken # 0 /\ (Unheard = {} /\ ~spoilt => refreshToken \in alive)

\* An organisation with a token in memory is one the database lists, so none that
\* was dropped or disconnected can be posted to by a refresh that ends late.
CachedIsListed == \A t \in Tenant : tokens[t].way # "none" => t \in xeroTenants

\* The connection in memory, on file and at Xero agree (token-cache.js, oauth.js).
XeroHolds == XeroTypeOK /\ TokenOnFileWorks /\ CachedIsListed

\* Disconnected, nothing is on file and no organisation is shown as connected,
\* once what was under way has ended: routes/xero.js, "Revoked at Xero, then
\* forgotten here."
DisconnectForgets ==
  connectionType = "none" /\ calls = {} => refreshToken = 0 /\ xeroTenants = {}
=============================================================================
