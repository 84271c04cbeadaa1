------------------------------ MODULE RedisClient ------------------------------
(***************************************************************************)
(* The server's one connection to Redis and what travels over it: loading  *)
(* the scripts at start-up, executeScript (EVALSHA, on NOSCRIPT EVAL and   *)
(* SCRIPT LOAD) and the PING of a health check.  The other modules take a  *)
(* call of Redis as one step that may fail; this one shows what a call may *)
(* come to when the connection breaks, Redis restarts and its script cache *)
(* is lost.                                                                *)
(*                                                                         *)
(* ioredis is external, configured by redis.module.ts.  It queues commands *)
(* while it reconnects, sends unanswered ones again on the new connection, *)
(* fails all of them at every (RetriesPerRequest + 1)th attempt, and gives *)
(* up for good when retryStrategy does.  All calls use one script.         *)
(***************************************************************************)
EXTENDS Naturals

CONSTANTS
  Startup,            \* the script loading of onModuleInit
  Calls,              \* executeScript calls
  Probes,             \* health checks
  MaxRetries,         \* attempts after which retryStrategy gives up, 10 in the code
  RetriesPerRequest,  \* maxRetriesPerRequest, 3 in the code
  MaxDisruptions      \* bound on broken connections, outages and emptied caches

ASSUME ClientAssumption ==
  /\ Startup \notin Calls \cup Probes /\ Calls \cap Probes = {}
  /\ MaxRetries \in Nat \ {0} /\ RetriesPerRequest \in Nat \ {0} /\ MaxDisruptions \in Nat

Requests == {Startup} \cup Calls \cup Probes
Commands == {"evalsha", "eval", "load", "ping"}
Replies == {"none", "ok", "noscript"}

VARIABLES
  redisUp,      \* Redis accepts connections
  scriptKnown,  \* the script is in Redis's script cache
  mongoUp,      \* MongoDB answers
  link,         \* the connection: connected, waiting to reconnect, ended
  attempts,     \* failed and pending attempts since the link was last ready
  request,      \* the command each request waits for, and the reply on its way
  mongoHealth,  \* what each health check knows of MongoDB
  history,      \* of each request: runs of its script, their lost replies, trouble
  disruptions   \* disruptions so far

outside == << redisUp, scriptKnown, mongoUp, disruptions >>
clientVars == << outside, link, attempts, request, mongoHealth, history >>

At(pc) == [pc |-> pc, reply |-> "none"]
Waits(r) == request[r].pc \in Commands
RequestEnds(r) == request[r].pc \in {"done", "failed"}

(***************************************************************************)
(* The server                                                              *)
(***************************************************************************)
FirstCommand(r) == IF r = Startup THEN "load" ELSE IF r \in Calls THEN "evalsha" ELSE "ping"

(* No request is served before onModuleInit has loaded the scripts (if     *)
(* that fails the server does not start).  On an ended link a command      *)
(* fails at once.                                                          *)
Send(r) ==
  /\ request[r].pc = "idle"
  /\ r # Startup => request[Startup].pc = "done"
  /\ request' = [request EXCEPT ![r] = At(IF link = "ended" THEN "failed" ELSE FirstCommand(r))]
  /\ history' = [history EXCEPT ![r].trouble = link # "connected"]
  /\ UNCHANGED << outside, link, attempts, mongoHealth >>

(* What executeScript does with a reply: it runs the script by its text if *)
(* Redis does not know it, and loads it again afterwards.                  *)
OnlyReloads(r) == "load"
Rethrows(r) == "failed"
FallsBackTo(r) == "eval"

RunsBySha(r) == "evalsha"
AfterEval(r) == "load"

Continues(r) ==
  CASE request[r].reply = "noscript" -> FallsBackTo(r)
    [] request[r].pc = "eval"        -> AfterEval(r)
    [] OTHER                         -> "done"

Answer(r) ==
  /\ link = "connected" /\ Waits(r) /\ request[r].reply # "none"
  /\ request' = [request EXCEPT ![r] = At(Continues(r))]
  /\ UNCHANGED << outside, link, attempts, mongoHealth, history >>

(* checkMongoDB, beside the PING: the connection's state, then a ping.     *)
PingMongo(h) ==
  /\ request[h].pc # "idle" /\ mongoHealth[h] = "unknown"
  /\ mongoHealth' = [mongoHealth EXCEPT ![h] = IF mongoUp THEN "up" ELSE "down"]
  /\ UNCHANGED << outside, link, attempts, request, history >>

(* check() answers when both are in.                                       *)
ProbeEnds(h) == RequestEnds(h) /\ mongoHealth[h] # "unknown"

(***************************************************************************)
(* Redis                                                                   *)
(***************************************************************************)
RedisExecutes(r) ==
  LET pc == request[r].pc
      refuses == pc = "evalsha" /\ ~ scriptKnown
      runs == pc = "eval" \/ (pc = "evalsha" /\ scriptKnown)
  IN  /\ link = "connected" /\ Waits(r) /\ request[r].reply = "none"
      /\ request' = [request EXCEPT ![r].reply = IF refuses THEN "noscript" ELSE "ok"]
      /\ scriptKnown' = (scriptKnown \/ pc \in {"eval", "load"})
      /\ history' = [history EXCEPT ![r].runs = IF runs THEN @ + 1 ELSE @]
      /\ UNCHANGED << redisUp, mongoUp, disruptions, link, attempts, mongoHealth >>

(***************************************************************************)
(* ioredis: attempt n to have a connection failed, n = 1 when it broke.    *)
(***************************************************************************)
GivesUpLate(n) == n > MaxRetries + 1
GivesUp(n) == n > MaxRetries

NeverFails(n) == FALSE
FailsRequests(n) == GivesUp(n) \/ n % (RetriesPerRequest + 1) = 0

LinkFails(n) ==
  /\ link' = IF GivesUp(n) THEN "ended" ELSE "waiting"
  /\ attempts' = n
  /\ request' = [r \in Requests |->
       IF Waits(r) THEN At(IF FailsRequests(n) THEN "failed" ELSE request[r].pc) ELSE request[r]]
  /\ history' = [r \in Requests |->
       IF Waits(r)
       THEN [history[r] EXCEPT !.trouble = TRUE,
               !.lost = IF request[r].reply = "ok" /\ request[r].pc \in {"evalsha", "eval"}
                        THEN @ + 1 ELSE @]
       ELSE history[r]]

RetryFails ==
  /\ link = "waiting" /\ ~ redisUp
  /\ LinkFails(attempts + 1)
  /\ UNCHANGED << outside, mongoHealth >>

Reconnects ==
  /\ link = "waiting" /\ redisUp
  /\ link' = "connected" /\ attempts' = 0
  /\ UNCHANGED << outside, request, mongoHealth, history >>

(***************************************************************************)
(* Disruptions                                                             *)
(***************************************************************************)
Disruption == disruptions < MaxDisruptions /\ disruptions' = disruptions + 1

ConnectionBreaks ==
  /\ Disruption
  /\ link = "connected" /\ LinkFails(1)
  /\ UNCHANGED << redisUp, scriptKnown, mongoUp, mongoHealth >>

(* The data survive in the append-only file, the script cache does not.    *)
RedisStops ==
  /\ Disruption
  /\ redisUp /\ redisUp' = FALSE /\ scriptKnown' = FALSE
  /\ \/ link = "connected" /\ LinkFails(1)
     \/ link # "connected" /\ UNCHANGED << link, attempts, request, history >>
  /\ UNCHANGED << mongoUp, mongoHealth >>

RedisStarts ==
  /\ ~ redisUp /\ redisUp' = TRUE
  /\ UNCHANGED << scriptKnown, mongoUp, disruptions, link, attempts, request, mongoHealth, history >>

ScriptsFlushed ==
  /\ Disruption
  /\ scriptKnown /\ scriptKnown' = FALSE
  /\ UNCHANGED << redisUp, mongoUp, link, attempts, request, mongoHealth, history >>

MongoStops ==
  /\ Disruption
  /\ mongoUp /\ mongoUp' = FALSE
  /\ UNCHANGED << redisUp, scriptKnown, link, attempts, request, mongoHealth, history >>

(***************************************************************************)
(* A server that starts on a connected link to a Redis without scripts.    *)
(***************************************************************************)
ClientInit ==
  /\ redisUp = TRUE /\ scriptKnown = FALSE /\ mongoUp = TRUE
  /\ link = "connected" /\ attempts = 0
  /\ request = [r \in Requests |-> At("idle")]
  /\ mongoHealth = [h \in Probes |-> "unknown"]
  /\ history = [r \in Requests |-> [runs |-> 0, lost |-> 0, trouble |-> FALSE]]
  /\ disruptions = 0

ClientNext ==
  \/ \E r \in Requests : Send(r) \/ RedisExecutes(r) \/ Answer(r)
  \/ \E h \in Probes : PingMongo(h)
  \/ RetryFails \/ Reconnects
  \/ ConnectionBreaks \/ RedisStops \/ RedisStarts \/ ScriptsFlushed \/ MongoStops

(* A connected Redis executes and answers, MongoDB answers or is found to  *)
(* be down, and the client goes on trying to reconnect.  Redis need not    *)
(* come back.                                                              *)
ClientFairness ==
  /\ \A r \in Requests : WF_clientVars(RedisExecutes(r)) /\ WF_clientVars(Answer(r))
  /\ \A h \in Probes : WF_clientVars(PingMongo(h))
  /\ WF_clientVars(RetryFails \/ Reconnects)

ClientSpec == ClientInit /\ [][ClientNext]_clientVars /\ ClientFairness

(***************************************************************************)
(* Properties                                                              *)
(***************************************************************************)
ClientTypeOK ==
  /\ redisUp \in BOOLEAN /\ scriptKnown \in BOOLEAN /\ mongoUp \in BOOLEAN
  /\ link \in {"connected", "waiting", "ended"}
  /\ attempts \in 0..(MaxRetries + 1) /\ (link = "connected" <=> attempts = 0)
  /\ request \in [Requests -> [pc: {"idle", "done", "failed"} \cup Commands, reply: Replies]]
  /\ mongoHealth \in [Probes -> {"unknown", "up", "down"}]
  /\ history \in [Requests -> [runs: Nat, lost: Nat, trouble: BOOLEAN]]
  /\ disruptions \in 0..MaxDisruptions

(* A script runs a second time for one call only because the reply of an   *)
(* earlier run was lost with the connection and the command sent again;    *)
(* neither the fallback to EVAL nor the reload after it repeats a run.     *)
RunsRepeatOnlyLostReplies == \A c \in Calls : history[c].runs <= 1 + history[c].lost

(* The result executeScript returns is one of a run of its script.         *)
ResultComesFromARun == \A c \in Calls : request[c].pc = "done" => history[c].runs >= 1

(* A request fails only when the connection was down while it waited.  To  *)
(* lose the script cache, at a restart of Redis or by SCRIPT FLUSH, at any *)
(* moment of a call, never fails it.                                       *)
FailsOnlyInTrouble == \A r \in Requests : request[r].pc = "failed" => history[r].trouble

(* Every call and every health check is answered, with an error at worst,  *)
(* though Redis never comes back: none waits in a queue for ever.          *)
RequestsEnd ==
  /\ \A r \in Requests : Waits(r) ~> RequestEnds(r)
  /\ \A h \in Probes : request[h].pc # "idle" ~> ProbeEnds(h)
================================================================================
