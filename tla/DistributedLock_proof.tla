------------------------- MODULE DistributedLock_proof -------------------------
(***************************************************************************)
(* Theorems about the distributed lock, for any number of clients and any  *)
(* TTL, latency and number of retries.                                     *)
(***************************************************************************)
EXTENDS DistributedLock, TLAPS

USE LockAssumption

(* Type correctness; with it the bound on attempts.                        *)
THEOREM LockTypeCorrect == LockSpec => []LockTypeOK
<1>1. LockInit => LockTypeOK BY DEF LockInit, LockTypeOK
<1>2. LockTypeOK /\ [LockNext]_lockVars => LockTypeOK'
  <2> SUFFICES ASSUME LockTypeOK, [LockNext]_lockVars PROVE LockTypeOK' OBVIOUS
  <2> USE DEF LockTypeOK
  <2>1. CASE LockTick BY <2>1 DEF LockTick, redis
  <2>2. ASSUME NEW c \in Clients, Acquire(c) PROVE LockTypeOK'
    BY <2>2 DEF Acquire, redis
  <2>3. ASSUME NEW c \in Clients, AcquireScript(c) PROVE LockTypeOK'
    <3>1. CASE Live BY <2>3, <3>1 DEF AcquireScript, redis
    <3>2. CASE ~ Live BY <2>3, <3>2 DEF AcquireScript, Value
    <3>3. QED BY <3>1, <3>2
  <2>4. ASSUME NEW c \in Clients, Granted(c) PROVE LockTypeOK'
    BY <2>4 DEF Granted, redis
  <2>5. ASSUME NEW c \in Clients, NotGranted(c) PROVE LockTypeOK'
    <3>1. CASE MayRetry(c)
      <4>1. attempt[c] + 1 \in 0..MaxRetry BY <3>1 DEF MayRetry
      <4>2. QED BY <2>5, <3>1, <4>1 DEF NotGranted, redis
    <3>2. CASE ~ MayRetry(c) BY <2>5, <3>2 DEF NotGranted, redis
    <3>3. QED BY <3>1, <3>2
  <2>6. ASSUME NEW c \in Clients, ExtendScript(c) PROVE LockTypeOK'
    BY <2>6 DEF ExtendScript
  <2>7. ASSUME NEW c \in Clients, ExtendReply(c) PROVE LockTypeOK'
    BY <2>7 DEF ExtendReply, redis
  <2>8. ASSUME NEW c \in Clients, Release(c) PROVE LockTypeOK'
    BY <2>8 DEF Release
  <2>9. ASSUME NEW c \in Clients, LockCrash(c) PROVE LockTypeOK'
    BY <2>9 DEF LockCrash, redis
  <2>10. CASE UNCHANGED lockVars BY <2>10 DEF lockVars, redis
  <2>11. QED
    BY <2>1, <2>2, <2>3, <2>4, <2>5, <2>6, <2>7, <2>8, <2>9, <2>10 DEF LockNext, LockStep
<1>3. QED BY <1>1, <1>2, PTL DEF LockSpec

(* The lease of a client is the span for which the key is surely his.  It  *)
(* is counted from the script.                                             *)
InLease(c) == now < leased[c] + Ttl

(* What a client that has the lock can rely on: during the lease the key   *)
(* holds his value; his own deadline is at most a latency later than the   *)
(* lease's; a reply still under way is not older than a latency; once the  *)
(* lock went to another client the key never holds his value again.        *)
Leased(c) ==
  HasLock(c) =>
    /\ InLease(c) => key = Value(c) /\ until = leased[c] + Ttl
    /\ leased[c] <= now
    /\ pc[c] # "critical" => now <= leased[c] + MaxLatency
    /\ Inside(c) => expiresAt[c] <= leased[c] + Ttl + MaxLatency
    /\ c \in overtaken => key # Value(c)

LockInv == LockTypeOK /\ \A c \in Clients : Leased(c)

(* No lock value is the absent key, and no two clients have one value.     *)
LEMMA Values ==
  ASSUME LockTypeOK, NEW c \in Clients
  PROVE  /\ Value(c) # NoLock
         /\ \A d \in Clients : Value(c) = Value(d) => c = d
BY DEF LockTypeOK, Value

(* A step of one client leaves the lease of every other client intact.     *)
LEMMA OthersLeased ==
  ASSUME LockInv, LockTypeOK', NEW c \in Clients, LockStep(c), NEW d \in Clients, d # c
  PROVE  Leased(d)'
<1> USE DEF LockInv, LockTypeOK, HasLock, Inside, InLease, Value
<1>1. /\ pc'[d] = pc[d] /\ calls'[d] = calls[d] /\ now' = now
      /\ leased'[d] = leased[d] /\ expiresAt'[d] = expiresAt[d]
  BY DEF LockStep, Acquire, AcquireScript, Granted, NotGranted, ExtendScript,
         ExtendReply, Release, LockCrash
<1>2. Leased(d) OBVIOUS
<1>3. Value(c) # Value(d) /\ Value(d) # NoLock BY Values
<1>4. CASE UNCHANGED << redis, overtaken >>
  BY <1>1, <1>2, <1>4 DEF Leased, redis
<1>5. CASE AcquireScript(c) /\ ~ Live
  <2>1. /\ key' = Value(c)
        /\ overtaken' = (overtaken \cup {e \in Clients : HasLock(e)}) \ {c}
    BY <1>5 DEF AcquireScript
  <2>2. HasLock(d) => ~ InLease(d)
    BY <1>2, <1>3, <1>5 DEF Leased, Live
  <2>3. QED BY <1>1, <1>2, <1>3, <2>1, <2>2 DEF Leased
<1>6. CASE ExtendScript(c)
  <2>1. key = Value(c) /\ key' = key /\ overtaken' = overtaken
    BY <1>6 DEF ExtendScript, MayExtend, Owns
  <2>2. HasLock(d) => ~ InLease(d) BY <1>2, <1>3, <2>1 DEF Leased
  <2>3. QED BY <1>1, <1>2, <2>1, <2>2 DEF Leased
<1>7. CASE Release(c)
  <2>1. CASE UNCHANGED key BY <1>1, <1>2, <1>7, <2>1 DEF Release, Leased
  <2>2. CASE MayRelease(c) /\ key' = NoLock
    <3>1. HasLock(d) => ~ InLease(d) BY <1>2, <1>3, <2>2 DEF Leased, MayRelease, Owns
    <3>2. overtaken' = overtaken BY <1>7 DEF Release
    <3>3. QED BY <1>1, <1>2, <1>3, <2>2, <3>1, <3>2 DEF Leased
  <2>3. QED BY <1>7, <2>1, <2>2 DEF Release
<1>8. QED
  BY <1>4, <1>5, <1>6, <1>7
     DEF LockStep, Acquire, AcquireScript, Granted, NotGranted, ExtendReply, LockCrash, redis

(* A client's own step keeps its lease as the invariant says.              *)
LEMMA OwnLeased ==
  ASSUME LockInv, LockTypeOK', NEW c \in Clients, LockStep(c)
  PROVE  Leased(c)'
<1> USE DEF LockInv, LockTypeOK, HasLock, Inside, InLease, Value
<1>1. Leased(c) OBVIOUS
<1>2. CASE Acquire(c) BY <1>2 DEF Acquire, Leased
<1>3. CASE AcquireScript(c)
  <2>1. CASE Live BY <1>3, <2>1 DEF AcquireScript, Leased
  <2>2. CASE ~ Live BY <1>3, <2>2 DEF AcquireScript, Leased
  <2>3. QED BY <2>1, <2>2
<1>4. CASE Granted(c) BY <1>1, <1>4 DEF Granted, Leased, redis
<1>5. CASE NotGranted(c)
  <2>1. ~ HasLock(c)' BY <1>5 DEF NotGranted
  <2>2. QED BY <2>1 DEF Leased
<1>6. CASE ExtendScript(c)
  BY <1>1, <1>6 DEF ExtendScript, Leased, MayExtend, Owns
<1>7. CASE ExtendReply(c)
  BY <1>1, <1>7 DEF ExtendReply, Leased, redis
<1>8. CASE Release(c) BY <1>8 DEF Release, Leased
<1>9. CASE LockCrash(c) BY <1>9 DEF LockCrash, Leased
<1>10. QED BY <1>2, <1>3, <1>4, <1>5, <1>6, <1>7, <1>8, <1>9 DEF LockStep

(* The clock ends leases and ages replies, within what Timely allows.      *)
LEMMA TickLeased ==
  ASSUME LockInv, LockTick, NEW c \in Clients
  PROVE  Leased(c)'
BY DEF LockInv, LockTypeOK, HasLock, Inside, InLease, Value, Leased, LockTick, Timely, redis

(* The leases are an invariant.                                            *)
LEMMA LeasesKept == LockSpec => []LockInv
<1>1. LockInit => LockInv
  BY DEF LockInit, LockInv, LockTypeOK, Leased, HasLock, Inside
<1>2. LockTypeOK' /\ LockInv /\ [LockNext]_lockVars => LockInv'
  <2> SUFFICES ASSUME LockTypeOK', LockInv, [LockNext]_lockVars PROVE LockInv' OBVIOUS
  <2>1. CASE LockTick BY <2>1, TickLeased DEF LockInv
  <2>2. ASSUME NEW c \in Clients, LockStep(c) PROVE LockInv'
    <3>1. \A d \in Clients : Leased(d)' BY <2>2, OthersLeased, OwnLeased
    <3>2. QED BY <3>1 DEF LockInv
  <2>3. CASE UNCHANGED lockVars
    BY <2>3 DEF lockVars, LockInv, Leased, HasLock, Inside, InLease, Value
  <2>4. QED BY <2>1, <2>2, <2>3 DEF LockNext
<1>3. QED BY <1>1, <1>2, LockTypeCorrect, PTL DEF LockSpec

(* Two clients that both leave the margin of a latency are one client.     *)
THEOREM LockExcludes == LockSpec => []MutualExclusion
<1>1. LockInv => MutualExclusion
  <2> SUFFICES ASSUME LockInv, NEW c \in Clients, NEW d \in Clients,
                      SafelyInside(c), SafelyInside(d)
               PROVE  c = d
    BY DEF MutualExclusion
  <2>1. ASSUME NEW e \in Clients, SafelyInside(e) PROVE key = Value(e)
    <3>1. HasLock(e) /\ Inside(e) /\ now + MaxLatency < expiresAt[e]
      BY <2>1 DEF SafelyInside, IsLockValid, HasLock
    <3>2. expiresAt[e] <= leased[e] + Ttl + MaxLatency
      BY <3>1 DEF LockInv, Leased
    <3>3. InLease(e) BY <3>1, <3>2 DEF InLease, LockInv, LockTypeOK
    <3>4. QED BY <3>1, <3>3 DEF LockInv, Leased
  <2>2. QED BY <2>1, Values DEF LockInv
<1>2. QED BY <1>1, LeasesKept, PTL

(* A successful extension means that no other client had the lock since.   *)
THEOREM ExtensionProves == LockSpec => ExtensionMeansUnbroken
<1> DEFINE Unbroken == \A c \in Clients : pc[c] = "critical" /\ pc'[c] = "extended" => c \notin overtaken
<1>1. LockInv /\ [LockNext]_lockVars => [Unbroken]_lockVars
  <2> SUFFICES ASSUME LockInv, LockNext, NEW c \in Clients,
                      pc[c] = "critical", pc'[c] = "extended"
               PROVE  c \notin overtaken
    OBVIOUS
  <2>1. ExtendScript(c)
    BY DEF LockInv, LockTypeOK, LockNext, LockStep, LockTick, Acquire, AcquireScript, Granted,
           NotGranted, ExtendScript, ExtendReply, Release, LockCrash
  <2>2. key = Value(c) BY <2>1 DEF ExtendScript, MayExtend, Owns
  <2>3. QED BY <2>2 DEF LockInv, Leased, HasLock, Inside
<1>2. QED BY <1>1, LeasesKept, PTL DEF LockSpec, ExtensionMeansUnbroken
================================================================================
