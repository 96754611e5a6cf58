---------------------------- MODULE AgentGateway ----------------------------
(***************************************************************************)
(* The AI gateway: the coordinator authorises each request of an agent key *)
(* against its daily quotas and reserves tokens, the gateway forwards it   *)
(* and reports the usage, which settles the reservation                    *)
(* (blaktail-coord/src/agent_gateway.rs, blaktail-agentgw/src/lib.rs).     *)
(*                                                                         *)
(* One key and one model.  The two providers that serve the model are      *)
(* named by their residency.  A request costs one token of prompt and asks *)
(* for 1..MaxOutput tokens of output.                                      *)
(***************************************************************************)
EXTENDS Integers, FiniteSets

CONSTANTS
  Reqs,                   \* requests agents make
  RequestQuotas,          \* daily request quotas the key may have
  TOKEN_QUOTA,
  PENDING_TIMEOUT, DAY_SECS,
  AnswersInTime,          \* the coordinator answers before the gateway's timeout
  MaxOutput, MaxAgwClock, \* bounds on a request's output and on the clock
  MaxAgwEdits             \* bound on console changes

ASSUME AgwAssumption ==
  /\ RequestQuotas \subseteq Nat \ {0} /\ TOKEN_QUOTA \in Nat \ {0}
  /\ DAY_SECS \in Nat \ {0} /\ AnswersInTime \in BOOLEAN
  /\ IsFiniteSet(Reqs) /\ MaxOutput \in Nat /\ MaxAgwClock \in Nat

VARIABLES
  agKey,       \* agent_keys: revoked, logging mode, request quota
  agProviders, \* enabled providers that serve the model
  offshoreOk,  \* agent_settings.allow_offshore
  designated,  \* the gateway node is designated, capable and active
  quota,       \* agent_quota_days: requests and tokens per day
  agReqs,      \* agent_requests
  flow,        \* what the gateway does with each request
  posts,       \* the usage report's two attempts at the coordinator
  granted_at,  \* days on which each request was granted (history)
  agClock, agEdits

agwVars == <<agKey, agProviders, offshoreOk, designated, quota, agReqs, flow, posts,
             granted_at, agClock, agEdits>>
consoleVars == <<agKey, agProviders, offshoreOk, designated, agEdits>>

Residencies == {"onshore", "offshore"}
Modes == {"off", "metadata", "full"}
Days == 0 .. MaxAgwClock \div DAY_SECS
Today == agClock \div DAY_SECS
NoRow == [status |-> "none"]
Waiting == [step |-> "waiting"]
NoPost == [step |-> "none"]

AgwInit ==
  /\ \E limit \in RequestQuotas : agKey = [revoked |-> FALSE, mode |-> "metadata", quota |-> limit]
  /\ agProviders = Residencies /\ offshoreOk = FALSE /\ designated = TRUE
  /\ quota = [d \in Days |-> [requests |-> 0, tokens |-> 0]]
  /\ agReqs = [q \in Reqs |-> NoRow]
  /\ flow = [q \in Reqs |-> Waiting]
  /\ posts = [q \in Reqs |-> [n \in 1 .. 2 |-> NoPost]]
  /\ granted_at = [d \in Days |-> {}]
  /\ agClock = 0 /\ agEdits = 0

-----------------------------------------------------------------------------
(* Authorisation.                                                          *)

(* choose_provider(): onshore first, offshore only where it is allowed.    *)
Choose(providers, offshore) ==
  IF "onshore" \in providers THEN "onshore"
  ELSE IF "offshore" \in providers /\ offshore THEN "offshore" ELSE "none"

(* purge(): content past its time goes, a reservation that was never       *)
(* closed is abandoned; its tokens stay charged.                           *)
PurgedRequests ==
  [q \in Reqs |->
     IF agReqs[q].status = "pending" /\ agReqs[q].started + PENDING_TIMEOUT <= agClock
     THEN [agReqs[q] EXCEPT !.status = "abandoned"] ELSE agReqs[q]]

(* authorize() and decide() up to the reads of the quota row.              *)
AuthorizeRead(q, output) ==
  LET chosen == Choose(agProviders, offshoreOk)
      used == quota[Today].tokens
      allowance == IF output < TOKEN_QUOTA - used - 1 THEN output ELSE TOKEN_QUOTA - used - 1
  IN /\ flow[q] = Waiting
     /\ flow' = [flow EXCEPT ![q] =
          IF designated /\ ~agKey.revoked /\ chosen # "none"
          THEN [step |-> "deciding", output |-> allowance, day |-> Today,
                provider |-> chosen, mode |-> agKey.mode]
          ELSE [step |-> "refused"]]
     /\ UNCHANGED <<consoleVars, quota, agReqs, posts, granted_at, agClock>>

(* Mutant: the tokens are checked on the value read before.                *)
FitsAsRead(q) == flow[q].output >= 1 /\ quota[flow[q].day].requests < agKey.quota

(* The conditional UPDATE of agent_quota_days.                             *)
Fits(q) ==
  LET row == quota[flow[q].day]
  IN /\ flow[q].output >= 1 /\ row.requests < agKey.quota
     /\ row.tokens + flow[q].output + 1 <= TOKEN_QUOTA

(* decide() from the reservation on: the grant or the 429, and the commit  *)
(* that also purges.                                                       *)
AuthorizeCommit(q) ==
  LET f == flow[q]
  IN /\ f.step = "deciding"
     /\ IF Fits(q)
        THEN /\ quota' = [quota EXCEPT ![f.day].requests = @ + 1,
                                       ![f.day].tokens = @ + f.output + 1]
             /\ agReqs' = [PurgedRequests EXCEPT ![q] =
                  [status |-> "pending", day |-> f.day, reserved |-> f.output + 1,
                   started |-> agClock, used |-> 0, content |-> FALSE]]
             /\ granted_at' = [granted_at EXCEPT ![f.day] = @ \cup {q}]
             /\ flow' = [flow EXCEPT ![q] = [step |-> "granted", limit |-> f.output,
                                             mode |-> f.mode, provider |-> f.provider]]
        ELSE /\ agReqs' = PurgedRequests
             /\ flow' = [flow EXCEPT ![q] = [step |-> "refused"]]
             /\ UNCHANGED <<quota, granted_at>>
     /\ UNCHANGED <<consoleVars, posts, agClock>>

-----------------------------------------------------------------------------
(* The gateway.                                                            *)

(* chat_completions() forwards with the allowance as the limit, and has a  *)
(* usage to report whatever happened upstream (Finisher for a stream that  *)
(* is dropped); a provider may ignore the limit.                           *)
Forward(q) ==
  /\ flow[q].step = "granted"
  /\ \E used \in 0 .. MaxOutput + 2 :
       flow' = [flow EXCEPT ![q] = [step |-> "reporting", used |-> used,
                                    full |-> flow[q].mode = "full"]]
  /\ posts' = [posts EXCEPT ![q][1] = [step |-> "sent"]]
  /\ UNCHANGED <<consoleVars, quota, agReqs, granted_at, agClock>>

(* record(): an attempt that failed or timed out is made once more; the    *)
(* coordinator may still be working on the first.                          *)
RetryUsage(q) ==
  /\ flow[q].step = "reporting" /\ posts[q][2] = NoPost
  /\ AnswersInTime => posts[q][1].step \in {"lost", "ended"}
  /\ posts' = [posts EXCEPT ![q][2] = [step |-> "sent"]]
  /\ UNCHANGED <<consoleVars, quota, agReqs, flow, granted_at, agClock>>

(* The gateway stops: what it had not sent is never sent.                  *)
GatewayStops(q) ==
  /\ flow[q].step = "granted"
  /\ flow' = [flow EXCEPT ![q] = [step |-> "refused"]]
  /\ UNCHANGED <<consoleVars, quota, agReqs, posts, granted_at, agClock>>

PostLost(q, n) ==
  /\ posts[q][n].step = "sent"
  /\ posts' = [posts EXCEPT ![q][n] = [step |-> "lost"]]
  /\ UNCHANGED <<consoleVars, quota, agReqs, flow, granted_at, agClock>>

-----------------------------------------------------------------------------
(* Settlement.                                                             *)

(* ingest_usage() refuses a request that is no longer pending.             *)
Open(q) == agReqs[q].status = "pending"

(* ingest_usage() reads the request and the key's present logging mode.    *)
IngestRead(q, n) ==
  /\ posts[q][n].step = "sent"
  /\ posts' = [posts EXCEPT ![q][n] =
       IF designated /\ Open(q)
       THEN [step |-> "read", mode |-> agKey.mode, reserved |-> agReqs[q].reserved]
       ELSE [step |-> "ended"]]
  /\ UNCHANGED <<consoleVars, quota, agReqs, flow, granted_at, agClock>>

(* ... and settles: what was reserved and not used goes back, an overrun   *)
(* is charged, and content is kept only in full mode.                      *)
IngestCommit(q, n) ==
  LET p == posts[q][n]
      used == flow[q].used
  IN /\ p.step = "read"
     /\ quota' = [quota EXCEPT ![agReqs[q].day].tokens = @ + used - p.reserved]
     /\ agReqs' = [agReqs EXCEPT ![q].status = IF p.mode = "off" THEN "deleted" ELSE "closed",
                                 ![q].used = used,
                                 ![q].content = p.mode = "full" /\ flow[q].full]
     /\ posts' = [posts EXCEPT ![q][n] = [step |-> "ended"]]
     /\ UNCHANGED <<consoleVars, flow, granted_at, agClock>>

-----------------------------------------------------------------------------
(* The console and the clock.                                              *)

ConsoleEdit == agEdits < MaxAgwEdits /\ agEdits' = agEdits + 1

(* update_key() and revoke_key() drop stored content with the mode; the    *)
(* quotas stay (a lower one would only bind the next decisions).           *)
PutKey(revoked, mode) ==
  /\ ConsoleEdit /\ ~agKey.revoked /\ <<agKey.revoked, agKey.mode>> # <<revoked, mode>>
  /\ agKey' = [agKey EXCEPT !.revoked = revoked, !.mode = mode]
  /\ agReqs' = [q \in Reqs |->
       IF agReqs[q] # NoRow /\ (revoked \/ mode # "full")
       THEN [agReqs[q] EXCEPT !.content = FALSE] ELSE agReqs[q]]
  /\ UNCHANGED <<agProviders, offshoreOk, designated, quota, flow, posts, granted_at, agClock>>

(* create_provider(), update_provider(), delete_provider().                *)
PutProviders(set) ==
  /\ ConsoleEdit /\ set # agProviders /\ agProviders' = set
  /\ UNCHANGED <<agKey, offshoreOk, designated, quota, agReqs, flow, posts, granted_at, agClock>>

(* put_settings() and designate_gateway().                                 *)
PutAgwSettings(offshore, gateway) ==
  /\ ConsoleEdit /\ <<offshore, gateway>> # <<offshoreOk, designated>>
  /\ offshoreOk' = offshore /\ designated' = gateway
  /\ UNCHANGED <<agKey, agProviders, quota, agReqs, flow, posts, granted_at, agClock>>

AgwTick == /\ agClock < MaxAgwClock /\ agClock' = agClock + 1
           /\ UNCHANGED <<consoleVars, quota, agReqs, flow, posts, granted_at>>

AgwNext ==
  \/ \E q \in Reqs :
       \/ \E o \in 1 .. MaxOutput : AuthorizeRead(q, o)
       \/ AuthorizeCommit(q) \/ Forward(q) \/ RetryUsage(q) \/ GatewayStops(q)
       \/ \E n \in 1 .. 2 : PostLost(q, n) \/ IngestRead(q, n) \/ IngestCommit(q, n)
  \/ \E r \in BOOLEAN, mode \in Modes : PutKey(r, mode)
  \/ \E set \in SUBSET Residencies : PutProviders(set)
  \/ \E o, g \in BOOLEAN : PutAgwSettings(o, g)
  \/ AgwTick

AgwSpec == AgwInit /\ [][AgwNext]_agwVars

-----------------------------------------------------------------------------
(* No more requests are granted in a day than the key's request quota,     *)
(* however many were being decided at once and whichever day they began.   *)
RequestsWithinQuota ==
  \A d \in Days : /\ Cardinality(granted_at[d]) = quota[d].requests
                  /\ quota[d].requests <= agKey.quota

(* "Concurrent requests cannot together overrun the quota": unless a       *)
(* provider ignored its output limit, a day's charges stay within the      *)
(* token quota.                                                            *)
TokensWithinQuota ==
  \A d \in Days : (\A q \in granted_at[d] : agReqs[q].used <= agReqs[q].reserved)
                    => quota[d].tokens <= TOKEN_QUOTA

(* What a request costs: its reservation while that is open or abandoned,  *)
(* and what was really used once it is settled.                            *)
Charged(q) == IF agReqs[q].status \in {"pending", "abandoned"} THEN agReqs[q].reserved ELSE agReqs[q].used
ChargedUnits(d) == UNION {{q} \X (1 .. Charged(q)) : q \in granted_at[d]}

(* Each token of a day's counter is one unit of one request granted that   *)
(* day ("Closes a reservation once, from the gateway that opened it").     *)
LedgerExact == \A d \in Days : quota[d].tokens = Cardinality(ChargedUnits(d))

(* A key stays within its quotas, by a ledger that counts every request    *)
(* once.                                                                   *)
GatewayInv == RequestsWithinQuota /\ TokensWithinQuota /\ LedgerExact
=============================================================================
