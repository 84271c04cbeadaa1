--------------------------- MODULE RedisClient_proof ---------------------------
(***************************************************************************)
(* Theorems about RedisClient: for any number of calls and health checks   *)
(* and any number of outages, a script runs again only when the reply of a *)
(* run was lost, a result comes from a run, and a request fails only when  *)
(* the connection was down while it waited.                                *)
(***************************************************************************)
EXTENDS RedisClient, TLAPS

Record == [pc: {"idle", "done", "failed"} \cup Commands, reply: Replies]
Past == [runs: Nat, lost: Nat, trouble: BOOLEAN]

(* Of a request q with the past h: while the link l is down it has seen    *)
(* trouble if it waits, and it has if it failed.                           *)
Sound(l, q, h) ==
  /\ q \in Record /\ h \in Past
  /\ q.reply = "noscript" => q.pc = "evalsha"
  /\ q.pc = "idle" => q.reply = "none"
  /\ q.pc = "failed" \/ (q.pc \in Commands /\ l # "connected") => h.trouble

(* Of a call: until a command that runs the script has an answer on its    *)
(* way, every run so far has lost its reply; from then on there was a run. *)
Counted(q, h) ==
  /\ q.pc # "ping"
  /\ h.runs <= 1 + h.lost
  /\ q.pc \in {"idle", "evalsha", "eval"} /\ q.reply # "ok" => h.runs <= h.lost
  /\ (q.pc \in {"evalsha", "eval"} /\ q.reply = "ok") \/ q.pc \in {"load", "done"} => h.runs >= 1

RequestsSound == \A r \in Requests : Sound(link, request[r], history[r])
CallsCounted == \A c \in Calls : Counted(request[c], history[c])
GivenUpOnce == link = "waiting" => attempts <= MaxRetries

ClientInv == ClientTypeOK /\ RequestsSound /\ CallsCounted /\ GivenUpOnce

(* A step that leaves all requests but one alone, and leaves that one      *)
(* sound, keeps the requests sound.                                        *)
LEMMA OneMoves ==
  ASSUME ClientInv, NEW r \in Requests, NEW q \in Record, NEW h \in Past,
         request' = [request EXCEPT ![r] = q], history' = [history EXCEPT ![r] = h],
         link' = link, attempts' = attempts,
         Sound(link, q, h), r \in Calls => Counted(q, h),
         redisUp' \in BOOLEAN, scriptKnown' \in BOOLEAN, mongoUp' \in BOOLEAN,
         mongoHealth' = mongoHealth, disruptions' = disruptions
  PROVE  ClientInv'
<1>1. /\ ClientTypeOK /\ RequestsSound /\ CallsCounted /\ GivenUpOnce
      /\ request \in [Requests -> Record] /\ history \in [Requests -> Past]
  BY DEF ClientInv, ClientTypeOK, Record, Past
<1>2. /\ request' \in [Requests -> Record] /\ history' \in [Requests -> Past]
      /\ request'[r] = q /\ history'[r] = h
      /\ \A s \in Requests \ {r} : request'[s] = request[s] /\ history'[s] = history[s]
  BY <1>1
<1>3. ClientTypeOK'
  BY <1>1, <1>2 DEF ClientTypeOK, Record, Past
<1>4. \A s \in Requests : Sound(link, request'[s], history'[s])
  BY <1>1, <1>2 DEF RequestsSound
<1>5. Calls \subseteq Requests
  BY DEF Requests
<1>6. \A c \in Calls : Counted(request'[c], history'[c])
  BY <1>1, <1>2, <1>5 DEF CallsCounted
<1>7. GivenUpOnce'
  BY <1>1 DEF GivenUpOnce
<1>8. QED
  BY <1>3, <1>4, <1>6, <1>7 DEF ClientInv, RequestsSound, CallsCounted

(* What the invariant says of a single request.                            *)
LEMMA OneRequest ==
  ASSUME ClientInv, NEW r \in Requests
  PROVE  /\ request[r] \in Record /\ history[r] \in Past
         /\ request \in [Requests -> Record] /\ history \in [Requests -> Past]
         /\ Sound(link, request[r], history[r])
         /\ r \in Calls => Counted(request[r], history[r])
         /\ redisUp \in BOOLEAN /\ scriptKnown \in BOOLEAN /\ mongoUp \in BOOLEAN
BY DEF ClientInv, ClientTypeOK, RequestsSound, CallsCounted, Record, Past

(* At the start nothing has been sent.                                     *)
LEMMA ClientInvInit == ClientInit => ClientInv
<1>1. SUFFICES ASSUME ClientInit PROVE ClientInv
  OBVIOUS
<1>2. At("idle") \in Record /\ At("idle") = [pc |-> "idle", reply |-> "none"]
  BY DEF Record, Commands, Replies, At
<1>3. [runs |-> 0, lost |-> 0, trouble |-> FALSE] \in Past
  BY DEF Past
<1>4. /\ request \in [Requests -> Record] /\ history \in [Requests -> Past]
      /\ mongoHealth \in [Probes -> {"unknown", "up", "down"}]
      /\ \A r \in Requests : /\ request[r] = [pc |-> "idle", reply |-> "none"]
                             /\ history[r] = [runs |-> 0, lost |-> 0, trouble |-> FALSE]
  BY <1>1, <1>2, <1>3 DEF ClientInit
<1>5. /\ redisUp \in BOOLEAN /\ scriptKnown \in BOOLEAN /\ mongoUp \in BOOLEAN
      /\ link \in {"connected", "waiting", "ended"}
      /\ attempts \in 0..(MaxRetries + 1) /\ (link = "connected" <=> attempts = 0)
      /\ disruptions \in 0..MaxDisruptions
  <2>1. redisUp \in BOOLEAN /\ scriptKnown \in BOOLEAN /\ mongoUp \in BOOLEAN
    BY <1>1, Zenon DEF ClientInit
  <2>2. attempts = 0 /\ disruptions = 0 /\ link = "connected"
    BY <1>1 DEF ClientInit
  <2>3. MaxRetries \in Nat /\ MaxDisruptions \in Nat
    BY ClientAssumption
  <2>4. QED
    BY <2>1, <2>2, <2>3
<1>6. ClientTypeOK
  BY <1>4, <1>5 DEF ClientTypeOK, Record, Past
<1>7. RequestsSound /\ CallsCounted /\ GivenUpOnce
  <2>1. RequestsSound
    BY <1>2, <1>3, <1>4 DEF RequestsSound, Sound, Commands
  <2>2. CallsCounted
    BY <1>4 DEF CallsCounted, Counted, Requests
  <2>3. GivenUpOnce
    BY <1>1 DEF ClientInit, GivenUpOnce
  <2>4. QED
    BY <2>1, <2>2, <2>3
<1>8. QED
  BY <1>6, <1>7 DEF ClientInv

(* A request is sent, or fails at once because the link has ended.         *)
LEMMA SendKeeps ==
  ASSUME ClientInv, NEW r \in Requests, Send(r)
  PROVE  ClientInv'
<1>1. PICK c \in {"failed", "load", "evalsha", "ping"} :
         /\ request' = [request EXCEPT ![r] = At(c)]
         /\ r \in Calls => c \in {"failed", "evalsha"}
         /\ c = "failed" => link = "ended"
  <2>1. r \in Calls => r # Startup
    BY ClientAssumption
  <2>2. QED
    BY <2>1 DEF Send, FirstCommand
<1>2. PICK t \in BOOLEAN : history' = [history EXCEPT ![r].trouble = t] /\ t = (link # "connected")
  BY DEF Send
<1>3. request[r] \in Record /\ history[r] \in Past /\ history \in [Requests -> Past]
  BY OneRequest
<1>4. [history[r] EXCEPT !.trouble = t]
         = [runs |-> history[r].runs, lost |-> history[r].lost, trouble |-> t]
  BY <1>3 DEF Past
<1>5. At(c) \in Record /\ At(c) = [pc |-> c, reply |-> "none"]
  BY DEF At, Record, Commands, Replies
<1>6. PICK h \in Past : /\ h = [runs |-> history[r].runs, lost |-> history[r].lost, trouble |-> t]
                        /\ history' = [history EXCEPT ![r] = h]
  <2>1. [runs |-> history[r].runs, lost |-> history[r].lost, trouble |-> t] \in Past
    BY <1>3 DEF Past
  <2>2. history' = [history EXCEPT ![r] = [history[r] EXCEPT !.trouble = t]]
    BY <1>2
  <2>3. QED
    BY <1>4, <2>1, <2>2
<1>7. Sound(link, request[r], history[r]) /\ (r \in Calls => Counted(request[r], history[r]))
  BY OneRequest
<1>8. request[r].pc = "idle"
  BY DEF Send
<1>9. Sound(link, At(c), h)
  <2>1. link # "connected" => t = TRUE
    BY <1>2
  <2>2. link # "connected" => h.trouble
    BY <1>6, <2>1
  <2>3. At(c).pc = c /\ At(c).reply = "none" /\ c # "idle"
    BY <1>5
  <2>4. QED
    BY <1>1, <1>5, <1>6, <2>2, <2>3 DEF Sound
<1>10. r \in Calls => Counted(At(c), h)
  <2>1. r \in Calls => history[r].runs <= history[r].lost
    BY <1>7, <1>8 DEF Counted, Sound
  <2>2. At(c).pc = c /\ At(c).reply = "none" /\ h.runs = history[r].runs /\ h.lost = history[r].lost
    BY <1>5, <1>6
  <2>3. history[r].runs \in Nat /\ history[r].lost \in Nat
    BY <1>3 DEF Past
  <2>4. QED
    BY <1>1, <2>1, <2>2, <2>3 DEF Counted
<1>11. UNCHANGED << redisUp, scriptKnown, mongoUp, disruptions, link, attempts, mongoHealth >>
  BY DEF Send, outside
<1>12. QED
  BY <1>1, <1>5, <1>6, <1>9, <1>10, <1>11, OneRequest, OneMoves

(* Redis executes a command: it refuses an unknown script, runs a script,  *)
(* or loads or answers without a run.                                      *)
LEMMA ExecuteKeeps ==
  ASSUME ClientInv, NEW r \in Requests, RedisExecutes(r)
  PROVE  ClientInv'
<1>1. /\ request[r] \in Record /\ history[r] \in Past /\ history \in [Requests -> Past]
      /\ request \in [Requests -> Record]
      /\ Sound(link, request[r], history[r]) /\ (r \in Calls => Counted(request[r], history[r]))
  BY OneRequest
<1>2. /\ link = "connected" /\ request[r].pc \in Commands /\ request[r].reply = "none"
      /\ UNCHANGED << redisUp, mongoUp, disruptions, link, attempts, mongoHealth >>
      /\ scriptKnown' = (scriptKnown \/ request[r].pc \in {"eval", "load"})
  BY DEF RedisExecutes, Waits
<1>3. PICK a \in {"noscript", "ok"}, n \in Nat :
         /\ request' = [request EXCEPT ![r].reply = a]
         /\ history' = [history EXCEPT ![r].runs = n]
         /\ a = "noscript" => request[r].pc = "evalsha" /\ n = history[r].runs
         /\ a = "ok" /\ request[r].pc \in {"eval", "evalsha"} => n = history[r].runs + 1
         /\ request[r].pc \notin {"eval", "evalsha"} => n = history[r].runs
  <2>1. history[r].runs \in Nat /\ history[r].runs + 1 \in Nat
    BY <1>1 DEF Past
  <2>2. CASE request[r].pc = "evalsha" /\ ~ scriptKnown
    <3>1. request' = [request EXCEPT ![r].reply = "noscript"]
      BY <2>2 DEF RedisExecutes
    <3>2. history' = [history EXCEPT ![r].runs = history[r].runs]
      BY <2>2 DEF RedisExecutes
    <3>3. QED
      BY <2>1, <2>2, <3>1, <3>2, Zenon
  <2>3. CASE request[r].pc = "eval" \/ (request[r].pc = "evalsha" /\ scriptKnown)
    <3>1. request' = [request EXCEPT ![r].reply = "ok"]
      BY <2>3 DEF RedisExecutes
    <3>2. history' = [history EXCEPT ![r].runs = history[r].runs + 1]
      BY <2>3 DEF RedisExecutes
    <3>3. QED
      BY <2>1, <2>3, <3>1, <3>2
  <2>4. CASE request[r].pc \notin {"eval", "evalsha"}
    <3>1. request' = [request EXCEPT ![r].reply = "ok"]
      BY <2>4 DEF RedisExecutes
    <3>2. history' = [history EXCEPT ![r].runs = history[r].runs]
      BY <2>4 DEF RedisExecutes
    <3>3. QED
      BY <2>1, <2>4, <3>1, <3>2
  <2>5. QED
    BY <2>2, <2>3, <2>4
<1>4. /\ [request[r] EXCEPT !.reply = a] = [pc |-> request[r].pc, reply |-> a]
      /\ [history[r] EXCEPT !.runs = n]
           = [runs |-> n, lost |-> history[r].lost, trouble |-> history[r].trouble]
  BY <1>1 DEF Record, Past
<1>5. PICK q \in Record, h \in Past :
         /\ q.pc = request[r].pc /\ q.reply = a
         /\ h.runs = n /\ h.lost = history[r].lost /\ h.trouble = history[r].trouble
         /\ request' = [request EXCEPT ![r] = q] /\ history' = [history EXCEPT ![r] = h]
  <2>1. /\ [pc |-> request[r].pc, reply |-> a] \in Record
        /\ [runs |-> n, lost |-> history[r].lost, trouble |-> history[r].trouble] \in Past
    BY <1>1, <1>3 DEF Record, Past, Replies
  <2>2. /\ request' = [request EXCEPT ![r] = [request[r] EXCEPT !.reply = a]]
        /\ history' = [history EXCEPT ![r] = [history[r] EXCEPT !.runs = n]]
    BY <1>3
  <2>3. QED
    BY <1>4, <2>1, <2>2
<1>6. Sound(link, q, h)
  BY <1>1, <1>2, <1>3, <1>5 DEF Sound, Commands
<1>7. r \in Calls => Counted(q, h)
  <2>1. history[r].runs \in Nat /\ history[r].lost \in Nat
    BY <1>1 DEF Past
  <2>2. QED
    BY <1>1, <1>2, <1>3, <1>5, <2>1 DEF Counted, Commands
<1>8. scriptKnown' \in BOOLEAN
  BY <1>2, OneRequest
<1>9. QED
  BY <1>2, <1>5, <1>6, <1>7, <1>8, OneRequest, OneMoves

(* The server receives a reply: it ends with the result, falls back to     *)
(* EVAL, or reloads the script.                                            *)
LEMMA AnswerKeeps ==
  ASSUME ClientInv, NEW r \in Requests, Answer(r)
  PROVE  ClientInv'
<1>1. /\ request[r] \in Record /\ history[r] \in Past /\ history \in [Requests -> Past]
      /\ Sound(link, request[r], history[r]) /\ (r \in Calls => Counted(request[r], history[r]))
  BY OneRequest
<1>2. /\ link = "connected" /\ request[r].pc \in Commands /\ request[r].reply # "none"
      /\ history' = history
      /\ UNCHANGED << redisUp, mongoUp, scriptKnown, disruptions, link, attempts, mongoHealth >>
  BY DEF Answer, Waits, outside
<1>3. PICK c \in {"eval", "load", "done"} :
         /\ request' = [request EXCEPT ![r] = At(c)]
         /\ c = "eval" <=> request[r].reply = "noscript"
  <2>1. request' = [request EXCEPT ![r] = At(Continues(r))]
    BY DEF Answer
  <2>2. Continues(r) \in {"eval", "load", "done"} /\ (Continues(r) = "eval" <=> request[r].reply = "noscript")
    <3>1. request[r].reply = "noscript" => request[r].pc # "eval"
      BY <1>1 DEF Sound
    <3>2. QED
      BY <3>1 DEF Continues, FallsBackTo, AfterEval
  <2>3. QED
    BY <2>1, <2>2
<1>4. At(c) \in Record /\ At(c).pc = c /\ At(c).reply = "none"
  BY DEF At, Record, Commands, Replies
<1>5. history' = [history EXCEPT ![r] = history[r]]
  BY <1>1, <1>2
<1>6. Sound(link, At(c), history[r])
  BY <1>1, <1>2, <1>4 DEF Sound
<1>7. r \in Calls => Counted(At(c), history[r])
  <2>1. request[r].reply \in {"ok", "noscript"}
    BY <1>1, <1>2 DEF Record, Replies
  <2>2. CASE request[r].reply = "noscript"
    BY <1>1, <1>3, <1>4, <2>2 DEF Counted, Sound
  <2>3. CASE request[r].reply = "ok"
    BY <1>1, <1>2, <1>3, <1>4, <2>3 DEF Counted, Commands
  <2>4. QED
    BY <2>1, <2>2, <2>3
<1>8. QED
  BY <1>1, <1>2, <1>3, <1>4, <1>5, <1>6, <1>7, OneRequest, OneMoves

(* The link is lost or an attempt to restore it fails: every waiting       *)
(* request has seen trouble now, and a reply on its way is lost.           *)
LEMMA LinkFailsKeeps ==
  ASSUME ClientInv, NEW n \in 1..(MaxRetries + 1), LinkFails(n)
  PROVE  /\ link' \in {"waiting", "ended"} /\ attempts' = n
         /\ GivenUpOnce'
         /\ request' \in [Requests -> Record] /\ history' \in [Requests -> Past]
         /\ RequestsSound' /\ CallsCounted'
<1>1. /\ link' = IF GivesUp(n) THEN "ended" ELSE "waiting"
      /\ attempts' = n
  BY DEF LinkFails
<1>2. GivenUpOnce'
  BY <1>1, ClientAssumption DEF GivenUpOnce, GivesUp
<1>3. ASSUME NEW r \in Requests
      PROVE  /\ request'[r] \in Record /\ history'[r] \in Past
             /\ Sound(link', request'[r], history'[r])
             /\ r \in Calls => Counted(request'[r], history'[r])
  <2>1. /\ request[r] \in Record /\ history[r] \in Past
        /\ Sound(link, request[r], history[r]) /\ (r \in Calls => Counted(request[r], history[r]))
    BY <1>3, OneRequest
  <2>2. CASE request[r].pc \notin Commands
    <3>1. request'[r] = request[r]
      BY <1>3, <2>2 DEF LinkFails, Waits
    <3>2. history'[r] = history[r]
      BY <1>3, <2>2, Zenon DEF LinkFails, Waits
    <3>3. QED
      BY <2>1, <2>2, <3>1, <3>2 DEF Sound
  <2>3. CASE request[r].pc \in Commands
    <3>1. PICK c \in {"failed", request[r].pc} : request'[r] = At(c)
      BY <1>3, <2>3 DEF LinkFails, Waits
    <3>2. At(c) \in Record /\ At(c).pc = c /\ At(c).reply = "none"
      BY <2>1, <2>3, <3>1 DEF At, Record, Commands, Replies
    <3>3. history[r].lost \in Nat /\ history[r].runs \in Nat
      BY <2>1 DEF Past
    <3>4. history'[r] = [history[r] EXCEPT !.trouble = TRUE,
               !.lost = IF request[r].reply = "ok" /\ request[r].pc \in {"evalsha", "eval"}
                        THEN history[r].lost + 1 ELSE history[r].lost]
      BY <1>3, <2>3 DEF LinkFails, Waits
    <3>5. PICK m \in Nat :
            m = IF request[r].reply = "ok" /\ request[r].pc \in {"evalsha", "eval"}
                THEN history[r].lost + 1 ELSE history[r].lost
      BY <3>3
    <3>6. history'[r] = [runs |-> history[r].runs, lost |-> m, trouble |-> TRUE]
      <4>1. history'[r] = [history[r] EXCEPT !.trouble = TRUE, !.lost = m]
        BY <3>4, <3>5, Zenon
      <4>2. QED
        BY <2>1, <4>1 DEF Past
    <3>7. history'[r] \in Past
      BY <3>3, <3>5, <3>6 DEF Past
    <3>8. Sound(link', At(c), history'[r])
      BY <2>3, <3>2, <3>6, <3>7, <3>1 DEF Sound, Commands
    <3>9. r \in Calls => Counted(At(c), history'[r])
      <4>1. history'[r].runs = history[r].runs /\ history'[r].lost = m
        BY <3>6
      <4>2. r \in Calls => Counted(request[r], history[r]) /\ c # "ping" /\ c \notin {"idle", "done"}
        BY <2>1, <2>3, <3>1 DEF Counted, Commands
      <4>3. QED
        BY <2>3, <3>1, <3>2, <3>3, <3>5, <4>1, <4>2 DEF Counted, Commands
    <3>10. QED
      BY <3>1, <3>2, <3>7, <3>8, <3>9
  <2>4. QED
    BY <2>2, <2>3
<1>4. request' \in [Requests -> Record] /\ history' \in [Requests -> Past]
  <2> DEFINE
          Q(r) == IF Waits(r) THEN At(IF FailsRequests(n) THEN "failed" ELSE request[r].pc) ELSE request[r]
          H(r) == IF Waits(r)
                  THEN [history[r] EXCEPT !.trouble = TRUE,
                          !.lost = IF request[r].reply = "ok" /\ request[r].pc \in {"evalsha", "eval"}
                                   THEN @ + 1 ELSE @]
                  ELSE history[r]
  <2>1. request' = [r \in Requests |-> Q(r)] /\ history' = [r \in Requests |-> H(r)]
    BY Zenon DEF LinkFails
  <2> HIDE DEF Q, H
  <2>2. QED
    BY <1>3, <2>1
<1>5. Calls \subseteq Requests
  BY DEF Requests
<1>6. RequestsSound' /\ CallsCounted'
  BY <1>3, <1>5 DEF RequestsSound, CallsCounted
<1>7. QED
  BY <1>1, <1>2, <1>4, <1>6

(* The steps that leave every request as it was.                           *)
LEMMA RequestsUntouched ==
  ASSUME ClientInv, request' = request, history' = history, attempts' = attempts, link' = link,
         redisUp' \in BOOLEAN, scriptKnown' \in BOOLEAN, mongoUp' \in BOOLEAN,
         mongoHealth' \in [Probes -> {"unknown", "up", "down"}], disruptions' \in 0..MaxDisruptions
  PROVE  ClientInv'
BY DEF ClientInv, ClientTypeOK, RequestsSound, CallsCounted, GivenUpOnce

(* The link is lost or an attempt to restore it fails.                     *)
LEMMA FailureKeeps ==
  ASSUME ClientInv, NEW n \in 1..(MaxRetries + 1), LinkFails(n),
         redisUp' \in BOOLEAN, scriptKnown' \in BOOLEAN, mongoUp' \in BOOLEAN,
         mongoHealth' = mongoHealth, disruptions' \in 0..MaxDisruptions
  PROVE  ClientInv'
<1>1. /\ link' \in {"waiting", "ended"} /\ attempts' = n
      /\ GivenUpOnce'
      /\ request' \in [Requests -> Record] /\ history' \in [Requests -> Past]
      /\ RequestsSound' /\ CallsCounted'
  BY LinkFailsKeeps
<1>2. mongoHealth' \in [Probes -> {"unknown", "up", "down"}]
  BY DEF ClientInv, ClientTypeOK
<1>3. attempts' \in 0..(MaxRetries + 1) /\ (link' = "connected" <=> attempts' = 0)
  BY <1>1, ClientAssumption
<1>4. ClientTypeOK'
  BY <1>1, <1>2, <1>3 DEF ClientTypeOK, Record, Past
<1>5. QED
  BY <1>1, <1>4 DEF ClientInv

(* Every other step of the client, of Redis and of its surroundings.       *)
LEMMA ClientInvStep == ClientInv /\ [ClientNext]_clientVars => ClientInv'
<1>1. SUFFICES ASSUME ClientInv, [ClientNext]_clientVars PROVE ClientInv'
  OBVIOUS
<1>2. /\ redisUp \in BOOLEAN /\ scriptKnown \in BOOLEAN /\ mongoUp \in BOOLEAN
      /\ mongoHealth \in [Probes -> {"unknown", "up", "down"}] /\ disruptions \in 0..MaxDisruptions
      /\ attempts \in 0..(MaxRetries + 1) /\ (link = "waiting" => attempts <= MaxRetries)
  BY <1>1 DEF ClientInv, ClientTypeOK, GivenUpOnce
<1>3. MaxRetries \in Nat \ {0} /\ MaxDisruptions \in Nat
  BY ClientAssumption
<1>4. Disruption => disruptions' \in 0..MaxDisruptions
  BY <1>2, <1>3 DEF Disruption
<1>5. ASSUME NEW r \in Requests, Send(r) \/ RedisExecutes(r) \/ Answer(r) PROVE ClientInv'
  BY <1>1, <1>5, SendKeeps, ExecuteKeeps, AnswerKeeps
<1>6. ASSUME NEW h \in Probes, PingMongo(h) PROVE ClientInv'
  BY <1>1, <1>2, <1>6, RequestsUntouched DEF PingMongo, outside
<1>7. CASE RetryFails
  <2>1. attempts + 1 \in 1..(MaxRetries + 1)
    BY <1>2, <1>3, <1>7 DEF RetryFails
  <2>2. /\ LinkFails(attempts + 1) /\ UNCHANGED << redisUp, scriptKnown, mongoUp, disruptions, mongoHealth >>
    BY <1>7 DEF RetryFails, outside
  <2>3. QED
    BY <1>1, <1>2, <2>1, <2>2, FailureKeeps
<1>8. CASE Reconnects
  <2>1. /\ link' = "connected" /\ attempts' = 0 /\ request' = request /\ history' = history
        /\ UNCHANGED << redisUp, scriptKnown, mongoUp, disruptions, mongoHealth >>
    BY <1>8 DEF Reconnects, outside
  <2>2. ClientTypeOK'
    BY <1>1, <1>3, <2>1 DEF ClientInv, ClientTypeOK
  <2>3. RequestsSound'
    BY <1>1, <2>1 DEF ClientInv, RequestsSound, Sound
  <2>4. CallsCounted' /\ GivenUpOnce'
    BY <1>1, <2>1 DEF ClientInv, CallsCounted, GivenUpOnce
  <2>5. QED
    BY <2>2, <2>3, <2>4 DEF ClientInv
<1>9. CASE ConnectionBreaks
  <2>1. 1 \in 1..(MaxRetries + 1)
    BY <1>3
  <2>2. LinkFails(1) /\ Disruption /\ UNCHANGED << redisUp, scriptKnown, mongoUp, mongoHealth >>
    BY <1>9 DEF ConnectionBreaks
  <2>3. QED
    BY <1>1, <1>2, <1>4, <2>1, <2>2, FailureKeeps
<1>10. CASE RedisStops
  <2>1. 1 \in 1..(MaxRetries + 1)
    BY <1>3
  <2>2. Disruption /\ redisUp' = FALSE /\ scriptKnown' = FALSE /\ UNCHANGED << mongoUp, mongoHealth >>
    BY <1>10 DEF RedisStops
  <2>3. redisUp' \in BOOLEAN /\ scriptKnown' \in BOOLEAN
    BY <2>2, Zenon
  <2>4. CASE LinkFails(1)
    BY <1>1, <1>2, <1>4, <2>1, <2>2, <2>3, <2>4, FailureKeeps
  <2>5. CASE UNCHANGED << link, attempts, request, history >>
    BY <1>1, <1>2, <1>4, <2>2, <2>3, <2>5, RequestsUntouched
  <2>6. QED
    BY <1>10, <2>4, <2>5 DEF RedisStops
<1>11. CASE RedisStarts
  <2>1. redisUp' \in BOOLEAN
    BY <1>11, Zenon DEF RedisStarts
  <2>2. QED
    BY <1>1, <1>2, <1>11, <2>1, RequestsUntouched DEF RedisStarts
<1>12. CASE ScriptsFlushed
  <2>1. scriptKnown' \in BOOLEAN
    BY <1>12, Zenon DEF ScriptsFlushed
  <2>2. QED
    BY <1>1, <1>2, <1>4, <1>12, <2>1, RequestsUntouched DEF ScriptsFlushed
<1>13. CASE MongoStops
  <2>1. mongoUp' \in BOOLEAN
    BY <1>13, Zenon DEF MongoStops
  <2>2. QED
    BY <1>1, <1>2, <1>4, <1>13, <2>1, RequestsUntouched DEF MongoStops
<1>14. CASE UNCHANGED clientVars
  BY <1>1, <1>2, <1>14, RequestsUntouched DEF clientVars, outside
<1>15. QED
  BY <1>1, <1>5, <1>6, <1>7, <1>8, <1>9, <1>10, <1>11, <1>12, <1>13, <1>14 DEF ClientNext

(* The invariant holds in every reachable state.                           *)
LEMMA ClientInvHolds == ClientSpec => []ClientInv
BY ClientInvInit, ClientInvStep, PTL DEF ClientSpec

(* The connection, the requests and their history keep their types; in     *)
(* particular the attempts to reconnect never pass the limit of            *)
(* retryStrategy, and the link is connected just when none has failed.     *)
THEOREM ClientTypeCorrect == ClientSpec => []ClientTypeOK
<1>1. ClientInv => ClientTypeOK
  BY DEF ClientInv
<1>2. QED
  BY <1>1, ClientInvHolds, PTL

(* executeScript runs its script once more only for each reply that was    *)
(* lost with the connection, whatever Redis does to its script cache.      *)
THEOREM RunsBounded == ClientSpec => []RunsRepeatOnlyLostReplies
<1>1. ClientInv => RunsRepeatOnlyLostReplies
  BY DEF ClientInv, CallsCounted, Counted, RunsRepeatOnlyLostReplies
<1>2. QED
  BY <1>1, ClientInvHolds, PTL

(* A call of executeScript that returns has run its script.                *)
THEOREM ResultsComeFromRuns == ClientSpec => []ResultComesFromARun
<1>1. ClientInv => ResultComesFromARun
  BY DEF ClientInv, CallsCounted, Counted, ResultComesFromARun
<1>2. QED
  BY <1>1, ClientInvHolds, PTL

(* A request fails only when the connection was down while it waited.      *)
THEOREM FailuresNeedTrouble == ClientSpec => []FailsOnlyInTrouble
<1>1. ClientInv => FailsOnlyInTrouble
  BY DEF ClientInv, RequestsSound, Sound, FailsOnlyInTrouble
<1>2. QED
  BY <1>1, ClientInvHolds, PTL
================================================================================
