---------------------------- MODULE DistributedLock ----------------------------
(***************************************************************************)
(* DistributedLockService: a lock on one resource as a Redis key with a    *)
(* TTL, taken, extended and given back by Lua scripts that compare the     *)
(* key's value with the caller's.  A script is one action; the reply is    *)
(* another, up to MaxLatency later, and may be lost.                       *)
(*                                                                         *)
(* A lock value ("{uuid}:{timestamp}") is never used twice: here it is the *)
(* client and the number of its acquireLock call.  All calls use one TTL.  *)
(* The clock of the model counts for Redis and clients alike: only spans   *)
(* of time matter here.                                                    *)
(*                                                                         *)
(* ReleaseByAnyone, ExtendByAnyone and OneAttemptTooMany are mistakes kept *)
(* to see that a property notices them; no action uses them.               *)
(***************************************************************************)
EXTENDS Integers

CONSTANTS
  Clients,     \* callers that contend for the resource
  Ttl,         \* options.ttl, and the ttl passed to extendLock
  MaxRetry,    \* options.maxRetry
  MaxLatency,  \* the longest a reply travels
  NoLock,      \* no key
  MaxCalls,    \* bound on the acquireLock calls of a client
  MaxTime      \* bound on the clock

ASSUME LockAssumption ==
  /\ Ttl \in Nat \ {0}
  /\ MaxRetry \in Nat /\ MaxLatency \in Nat
  /\ MaxCalls \in Nat /\ MaxTime \in Nat
  /\ NoLock \notin Clients \X Nat

VARIABLES
  key,        \* the value of the key; NoLock when it was deleted or never set
  until,      \* when Redis drops the key
  now,        \* the time
  pc,         \* where each client is
  calls,      \* acquireLock calls of each client; numbers its lock value
  attempt,    \* the loop variable of acquireLock
  expiresAt,  \* lock.expiresAt of each client
  leased,     \* when the script last gave or extended the client's lock
  overtaken   \* clients given the lock before another client was

lockVars == << key, until, now, pc, calls, attempt, expiresAt, leased, overtaken >>
redis == << key, until >>

Value(c) == << c, calls[c] >>
Live == key # NoLock /\ now < until
Owns(c) == Live /\ key = Value(c)
Inside(c) == pc[c] \in {"critical", "extended"}
HasLock(c) == Inside(c) \/ pc[c] = "granted"

(***************************************************************************)
(* acquireLock: SET NX PX, tried again after a refusal or an error, always *)
(* with the same value.                                                    *)
(***************************************************************************)
Acquire(c) ==
  /\ pc[c] = "idle" /\ calls[c] < MaxCalls
  /\ pc' = [pc EXCEPT ![c] = "send"]
  /\ calls' = [calls EXCEPT ![c] = @ + 1]
  /\ attempt' = [attempt EXCEPT ![c] = 0]
  /\ UNCHANGED << redis, now, expiresAt, leased, overtaken >>

AcquireScript(c) ==
  /\ pc[c] = "send"
  /\ \/ /\ ~ Live
        /\ key' = Value(c) /\ until' = now + Ttl
        /\ pc' = [pc EXCEPT ![c] = "granted"]
        /\ leased' = [leased EXCEPT ![c] = now]
        /\ overtaken' = (overtaken \cup {d \in Clients : HasLock(d)}) \ {c}
     \/ /\ Live
        /\ pc' = [pc EXCEPT ![c] = "refused"]
        /\ UNCHANGED << redis, leased, overtaken >>
  /\ UNCHANGED << now, calls, attempt, expiresAt >>

Granted(c) ==
  /\ pc[c] = "granted"
  /\ pc' = [pc EXCEPT ![c] = "critical"]
  /\ expiresAt' = [expiresAt EXCEPT ![c] = now + Ttl]
  /\ UNCHANGED << redis, now, calls, attempt, leased, overtaken >>

OneAttemptTooMany(c) == attempt[c] <= MaxRetry
MayRetry(c) == attempt[c] < MaxRetry

(* The answer was nil, or the eval threw: the request or its reply is lost.*)
NotGranted(c) ==
  /\ pc[c] \in {"refused", "send", "granted"}
  /\ \/ /\ MayRetry(c)
        /\ pc' = [pc EXCEPT ![c] = "send"]
        /\ attempt' = [attempt EXCEPT ![c] = @ + 1]
     \/ /\ ~ MayRetry(c)
        /\ pc' = [pc EXCEPT ![c] = "idle"]
        /\ UNCHANGED attempt
  /\ UNCHANGED << redis, now, calls, expiresAt, leased, overtaken >>

(***************************************************************************)
(* extendLock by a client inside its critical section.  A refused extension*)
(* changes nothing, and neither does one whose request is lost.            *)
(***************************************************************************)
ExtendByAnyone(c) == Live
MayExtend(c) == Owns(c)

ExtendScript(c) ==
  /\ pc[c] = "critical"
  /\ MayExtend(c)
  /\ until' = now + Ttl
  /\ pc' = [pc EXCEPT ![c] = "extended"]
  /\ leased' = [leased EXCEPT ![c] = now]
  /\ UNCHANGED << key, now, calls, attempt, expiresAt, overtaken >>

(* The reply arrives and moves lock.expiresAt, or it is lost.              *)
ExtendReply(c) ==
  /\ pc[c] = "extended"
  /\ pc' = [pc EXCEPT ![c] = "critical"]
  /\ expiresAt' \in {[expiresAt EXCEPT ![c] = now + Ttl], expiresAt}
  /\ UNCHANGED << redis, now, calls, attempt, leased, overtaken >>

(***************************************************************************)
(* releaseLock, from withLock's finally: whatever comes of the request,    *)
(* the client goes on.                                                     *)
(***************************************************************************)
ReleaseByAnyone(c) == Live
MayRelease(c) == Owns(c)

Release(c) ==
  /\ pc[c] = "critical"
  /\ \/ MayRelease(c) /\ key' = NoLock
     \/ UNCHANGED key          \* not the owner, or the request was lost
  /\ pc' = [pc EXCEPT ![c] = "idle"]
  /\ UNCHANGED << until, now, calls, attempt, expiresAt, leased, overtaken >>

(* The client's process stops and starts again.                            *)
LockCrash(c) ==
  /\ pc[c] # "idle"
  /\ pc' = [pc EXCEPT ![c] = "idle"]
  /\ UNCHANGED << redis, now, calls, attempt, expiresAt, leased, overtaken >>

(* Replies are at most MaxLatency old when they are read, or lost by then. *)
Timely(c) == pc[c] \in {"granted", "extended"} => now < leased[c] + MaxLatency

LockTick ==
  /\ now < MaxTime
  /\ \A c \in Clients : Timely(c)
  /\ now' = now + 1
  /\ UNCHANGED << redis, pc, calls, attempt, expiresAt, leased, overtaken >>

LockInit ==
  /\ key = NoLock /\ until = 0 /\ now = 0
  /\ pc = [c \in Clients |-> "idle"]
  /\ calls = [c \in Clients |-> 0]
  /\ attempt = [c \in Clients |-> 0]
  /\ expiresAt = [c \in Clients |-> 0]
  /\ leased = [c \in Clients |-> 0]
  /\ overtaken = {}

LockStep(c) ==
  \/ Acquire(c) \/ AcquireScript(c) \/ Granted(c) \/ NotGranted(c)
  \/ ExtendScript(c) \/ ExtendReply(c)
  \/ Release(c) \/ LockCrash(c)

LockNext == LockTick \/ \E c \in Clients : LockStep(c)

LockSpec == LockInit /\ [][LockNext]_lockVars

(***************************************************************************)
(* Properties                                                              *)
(***************************************************************************)
(* acquireLock sends its script at most maxRetry + 1 times.                *)
LockTypeOK ==
  /\ key \in (Clients \X Nat) \cup {NoLock} /\ until \in Nat /\ now \in Nat
  /\ pc \in [Clients -> {"idle", "send", "granted", "refused", "critical", "extended"}]
  /\ calls \in [Clients -> Nat]
  /\ attempt \in [Clients -> 0..MaxRetry]
  /\ expiresAt \in [Clients -> Nat] /\ leased \in [Clients -> Nat]
  /\ overtaken \subseteq Clients

(* distributed-lock.service.ts, isLockValid: "local check and doesn't      *)
(* verify Redis state".  The client counts its TTL from the reply, Redis   *)
(* from the script, so a client that leaves a margin of the reply's        *)
(* latency is alone in its critical section: whatever replies are lost,    *)
(* whoever overstays, and however late he releases or extends.             *)
IsLockValid(c, margin) == now + margin < expiresAt[c]
SafelyInside(c) == Inside(c) /\ IsLockValid(c, MaxLatency)
MutualExclusion ==
  \A c, d \in Clients : SafelyInside(c) /\ SafelyInside(d) => c = d

(* distributed-lock.service.ts: "Only the owner can extend the lock".  An  *)
(* extension that succeeds tells a client that may have overstayed its TTL *)
(* that nobody else was given the lock since he was.                       *)
ExtensionMeansUnbroken ==
  [][\A c \in Clients : pc[c] = "critical" /\ pc'[c] = "extended" => c \notin overtaken]_lockVars
================================================================================
