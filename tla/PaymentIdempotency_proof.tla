------------------------ MODULE PaymentIdempotency_proof ------------------------
(***************************************************************************)
(* Theorems about the idempotency keys of createPayment, for every number  *)
(* of requests, keys, bodies and bookings, and any number of faults.       *)
(***************************************************************************)
EXTENDS PaymentIdempotency, TLAPS

(***************************************************************************)
(* The inductive invariant                                                 *)
(***************************************************************************)
RecordOf(r) == records[KeyOf[r]]
Ended(r) == work[r].pc \in {"answered", "replayed"}

(* A request in progress has its record; only a failure that was reported  *)
(* although MongoDB carried the update out settles the record early.       *)
Executing(r) ==
  InProgress(r) =>
    /\ RecordOf(r).hash = BodyOf[r]
    /\ RecordOf(r).status # "none"
    /\ RecordOf(r).status = "processing" \/ (work[r].pc = "fail" /\ faults > 0)

Alone(r) == \A q \in Requests \ {r} : InProgress(r) /\ KeyOf[q] = KeyOf[r] => ~ InProgress(q)

(* Until it lapses, the record knows of every answer given under its key.  *)
Known(r) ==
  KeyOf[r] \notin lapsed /\ Ended(r) =>
    /\ RecordOf(r).status # "none" /\ RecordOf(r).hash = BodyOf[r]
    /\ work[r].answer.kind = "payment" =>
         RecordOf(r).status = "completed" /\ RecordOf(r).response = work[r].answer

FailedIsError(k) == records[k].status = "failed" => records[k].response = Error

(* A payment that the gateway is asked for, or has answered for, exists.   *)
Created(r) == work[r].pc = "gateway" \/ payments[r].url => payments[r].status # "none"

RequestInv(r) == Executing(r) /\ Known(r) /\ Created(r)
IdemInv ==
  /\ IdemTypeOK
  /\ \A r \in Requests : RequestInv(r) /\ Alone(r)
  /\ \A k \in Keys : FailedIsError(k)
  /\ OnePaymentPerKey

(***************************************************************************)
(* What a step leaves alone                                                *)
(***************************************************************************)
WorkStates ==
  [pc: {"check", "insert", "validate", "search", "create", "gateway",
        "complete", "fail", "answered", "replayed", "refused", "lost"},
   answer: Answers]

(* What a request may do to a record: nothing, insert it, or settle it.    *)
RecordGrows(k) ==
  \/ records'[k] = records[k]
  \/ records[k].status = "none" /\ records'[k].status = "processing"
  \/ /\ records[k].status = "processing" /\ records'[k].status \in {"completed", "failed"}
     /\ records'[k].hash = records[k].hash

(* A request has a key, a body and a booking.                              *)
LEMMA KeysOfRequests ==
  ASSUME NEW r \in Requests
  PROVE  KeyOf[r] \in Keys /\ BodyOf[r] \in Range(BodyOf) /\ BookingOf[r] \in Range(BookingOf)
BY RequestsAssumption DEF Keys, Range

(* Faults are counted and never uncounted.                                 *)
LEMMA IdemFaults ==
  ASSUME IdemTypeOK, Fault \/ NoFault
  PROVE  /\ faults' \in 0..MaxFaults
         /\ faults > 0 => faults' > 0
         /\ Fault => faults' > 0
BY RequestsAssumption DEF IdemTypeOK, Fault, NoFault

(* What is known of a request survives the step of another, even of one    *)
(* with the same key: a record only grows, and a request in progress has   *)
(* it to itself.                                                           *)
LEMMA OtherRequestKeeps ==
  ASSUME NEW q \in Requests, RequestInv(q), UNCHANGED << work[q], lapsed >>,
         RecordGrows(KeyOf[q]), InProgress(q) => records'[KeyOf[q]] = records[KeyOf[q]],
         faults > 0 => faults' > 0,
         payments'[q] = payments[q] \/ payments'[q].status # "none"
  PROVE  RequestInv(q)'
<1>1. Executing(q)' BY DEF RequestInv, Executing, InProgress, RecordOf
<1>2. Known(q)' BY DEF RequestInv, Known, Ended, RecordOf, RecordGrows
<1>3. Created(q)' BY DEF RequestInv, Created
<1>4. QED BY <1>1, <1>2, <1>3 DEF RequestInv

(* One request moves: it must keep its own part of the invariant.          *)
LEMMA RequestMoves ==
  ASSUME IdemInv, NEW r \in Requests, NEW new \in WorkStates,
         work' = [work EXCEPT ![r] = new], IdemTypeOK', UNCHANGED outside, Fault \/ NoFault,
         \A k \in Keys \ {KeyOf[r]} : records'[k] = records[k], RecordGrows(KeyOf[r]),
         InProgress(r) \/ records[KeyOf[r]].status = "none" \/ UNCHANGED records,
         InProgress(r)' => InProgress(r) \/ records[KeyOf[r]].status = "none",
         \A q \in Requests \ {r} : payments'[q] = payments[q],
         Executing(r)' /\ Known(r)' /\ Created(r)', FailedIsError(KeyOf[r])', OnePaymentPerKey'
  PROVE  IdemInv'
<1> USE DEF IdemInv
<1>1. work'[r] = new /\ \A q \in Requests \ {r} : work'[q] = work[q] BY DEF IdemTypeOK
<1>2. ASSUME NEW q \in Requests \ {r} PROVE RequestInv(q)'
  <2>1. RecordGrows(KeyOf[q]) BY KeysOfRequests DEF RecordGrows
  <2>2. InProgress(q) => records'[KeyOf[q]] = records[KeyOf[q]]
    BY KeysOfRequests DEF Alone, RequestInv, Executing, RecordOf
  <2>3. QED BY <1>1, <2>1, <2>2, IdemFaults, OtherRequestKeeps DEF outside
<1>3. ASSUME NEW q \in Requests, NEW o \in Requests \ {q},
             InProgress(q)', InProgress(o)', KeyOf[q] = KeyOf[o]
      PROVE  FALSE
  BY <1>1, <1>3 DEF Alone, InProgress, RequestInv, Executing, RecordOf
<1>4. \A k \in Keys : FailedIsError(k)' BY DEF FailedIsError
<1>5. QED BY <1>2, <1>3, <1>4 DEF RequestInv, Alone

(***************************************************************************)
(* The steps of a request                                                  *)
(***************************************************************************)
(* What createPayment answers with is an answer.                           *)
LEMMA AnswersAreAnswers ==
  /\ NoAnswer \in Answers /\ Error \in Answers
  /\ IdemTypeOK => \A p \in Requests : Paying(p) \in Answers
BY DEF NoAnswer, Error, Answer, Answers, Paying, IdemTypeOK

(* A request goes on without a write to MongoDB.                           *)
LEMMA OnlyMoves ==
  ASSUME IdemInv, NEW r \in Requests, NEW new \in WorkStates,
         work' = [work EXCEPT ![r] = new], UNCHANGED << records, payments, outside >>,
         Fault \/ NoFault, InProgress(r)' => InProgress(r),
         Executing(r)' /\ Known(r)' /\ Created(r)'
  PROVE  IdemInv'
<1>1. IdemTypeOK'
  BY IdemFaults DEF IdemInv, IdemTypeOK, WorkStates, outside
<1>2. RecordGrows(KeyOf[r]) /\ FailedIsError(KeyOf[r])' /\ OnePaymentPerKey'
  BY KeysOfRequests DEF IdemInv, RecordGrows, FailedIsError, OnePaymentPerKey
<1>3. QED BY <1>1, <1>2, RequestMoves

(* What a request is after it went on.                                     *)
LEMMA Goes ==
  ASSUME IdemTypeOK, NEW r \in Requests, NEW pc, NEW answer \in Answers, GoesTo(r, pc, answer),
         pc \in {"check", "insert", "validate", "search", "create", "gateway",
                 "complete", "fail", "answered", "replayed", "refused", "lost"}
  PROVE  /\ [pc |-> pc, answer |-> answer] \in WorkStates
         /\ work' = [work EXCEPT ![r] = [pc |-> pc, answer |-> answer]]
         /\ work'[r] = [pc |-> pc, answer |-> answer]
BY DEF GoesTo, WorkStates, IdemTypeOK

(* checkIdempotencyKey reads the record: a completed or failed one is      *)
(* replayed as it is, so the replay agrees with the record.                *)
LEMMA CheckKeyKeeps ==
  ASSUME IdemInv, NEW r \in Requests, CheckKey(r)
  PROVE  IdemInv'
<1> USE DEF IdemInv, RequestInv
<1>1. /\ work[r].pc = "check" /\ UNCHANGED << records, payments, outside, faults >>
      /\ KeyOf[r] \in Keys
  BY KeysOfRequests DEF CheckKey
<1>2. PICK pc \in {"insert", "refused", "replayed"}, answer \in Answers :
        /\ GoesTo(r, pc, answer)
        /\ pc = "replayed" => /\ answer = RecordOf(r).response
                              /\ RecordOf(r).status \in {"completed", "failed"} /\ SameBody(r)
  <2>1. RecordOf(r).response \in Answers BY <1>1 DEF IdemTypeOK, RecordOf
  <2>2. QED BY <2>1, AnswersAreAnswers DEF CheckKey, RecordOf
<1>3. /\ [pc |-> pc, answer |-> answer] \in WorkStates
      /\ work' = [work EXCEPT ![r] = [pc |-> pc, answer |-> answer]]
      /\ work'[r] = [pc |-> pc, answer |-> answer]
  BY <1>2, Goes
<1>4. Executing(r)' /\ Created(r)' /\ ~ InProgress(r)'
  BY <1>1, <1>3 DEF Executing, Created, InProgress
<1>5. Known(r)'
  <2>1. pc = "replayed" /\ answer.kind = "payment" => RecordOf(r).status = "completed"
    BY <1>1, <1>2 DEF FailedIsError, RecordOf, Error, Answer
  <2>2. QED BY <1>1, <1>2, <1>3, <2>1 DEF Known, Ended, RecordOf, SameBody
<1>6. QED BY <1>1, <1>3, <1>4, <1>5, OnlyMoves DEF NoFault

(* The steps between the record's insertion and its settlement that write  *)
(* nothing.                                                                *)
LEMMA ReadsKeep ==
  ASSUME IdemInv, NEW r \in Requests, Validate(r) \/ SearchPayment(r)
  PROVE  IdemInv'
<1> USE DEF IdemInv, RequestInv
<1>1. /\ work[r].pc \in {"validate", "search"} /\ UNCHANGED << records, payments, outside >>
      /\ Fault \/ NoFault
  BY DEF Validate, SearchPayment, NoFault
<1>2. PICK pc \in {"search", "create", "complete", "fail"}, answer \in Answers : GoesTo(r, pc, answer)
  BY AnswersAreAnswers DEF Validate, SearchPayment, Active
<1>3. /\ [pc |-> pc, answer |-> answer] \in WorkStates
      /\ work' = [work EXCEPT ![r] = [pc |-> pc, answer |-> answer]]
      /\ work'[r] = [pc |-> pc, answer |-> answer]
  BY <1>2, Goes
<1>4. InProgress(r) BY <1>1 DEF InProgress
<1>5. Executing(r)' BY <1>1, <1>3, <1>4 DEF Executing, RecordOf
<1>6. Known(r)' /\ Created(r)' BY <1>1, <1>3 DEF Known, Ended, Created
<1>7. QED BY <1>1, <1>3, <1>4, <1>5, <1>6, OnlyMoves

(* The insert: the unique index lets one of the requests in flight         *)
(* through, and only where there was no record. One that was carried out   *)
(* although it was reported failed leaves a record without a request.      *)
LEMMA InsertKeyKeeps ==
  ASSUME IdemInv, NEW r \in Requests, InsertKey(r)
  PROVE  IdemInv'
<1> USE DEF IdemInv, RequestInv
<1>1. /\ work[r].pc = "insert" /\ UNCHANGED << payments, outside >>
      /\ Fault \/ NoFault
      /\ KeyOf[r] \in Keys /\ BodyOf[r] \in Range(BodyOf)
  BY KeysOfRequests DEF InsertKey
<1>2. CASE UNCHANGED records /\ ~ InProgress(r)'
  <2>1. PICK pc \in {"check", "refused"}, answer \in Answers : GoesTo(r, pc, answer)
    <3>1. \A answer : GoesTo(r, "validate", answer) => InProgress(r)'
      BY DEF GoesTo, InProgress, IdemTypeOK
    <3>2. QED BY <1>2, <3>1, AnswersAreAnswers DEF InsertKey
  <2>2. /\ [pc |-> pc, answer |-> answer] \in WorkStates
        /\ work' = [work EXCEPT ![r] = [pc |-> pc, answer |-> answer]]
        /\ work'[r] = [pc |-> pc, answer |-> answer]
    BY <2>1, Goes
  <2>3. Executing(r)' /\ Known(r)' /\ Created(r)'
    BY <1>1, <1>2, <2>2 DEF Executing, Known, Ended, Created
  <2>4. QED BY <1>1, <1>2, <2>2, <2>3, OnlyMoves
<1>3. CASE /\ RecordFree(r)
           /\ records' = [records EXCEPT ![KeyOf[r]] = Record("processing", BodyOf[r], NoAnswer)]
  <2>1. PICK pc \in {"validate", "refused"}, answer \in Answers : GoesTo(r, pc, answer)
    BY <1>3, AnswersAreAnswers DEF InsertKey
  <2>2. /\ [pc |-> pc, answer |-> answer] \in WorkStates
        /\ work' = [work EXCEPT ![r] = [pc |-> pc, answer |-> answer]]
        /\ work'[r] = [pc |-> pc, answer |-> answer]
    BY <2>1, Goes
  <2>3. /\ records'[KeyOf[r]] = Record("processing", BodyOf[r], NoAnswer)
        /\ \A k \in Keys \ {KeyOf[r]} : records'[k] = records[k]
        /\ records[KeyOf[r]].status = "none"
    BY <1>1, <1>3 DEF RecordFree, IdemTypeOK
  <2>4. IdemTypeOK'
    <3>1. records' \in [Keys -> [status: {"none", "processing", "completed", "failed"},
                                 hash: Range(BodyOf) \cup {"none"}, response: Answers]]
      BY <1>1, <1>3, AnswersAreAnswers DEF IdemTypeOK, Record
    <3>2. QED BY <1>1, <2>2, <3>1, IdemFaults DEF IdemTypeOK, WorkStates, outside
  <2>5. Executing(r)' /\ Known(r)' /\ Created(r)'
    BY <1>1, <2>2, <2>3 DEF Executing, Known, Ended, Created, RecordOf, Record
  <2>6. RecordGrows(KeyOf[r]) /\ FailedIsError(KeyOf[r])' /\ OnePaymentPerKey'
    BY <1>1, <2>3 DEF RecordGrows, FailedIsError, Record, OnePaymentPerKey
  <2>7. QED BY <1>1, <2>2, <2>3, <2>4, <2>5, <2>6, RequestMoves
<1>4. QED
  <2>1. \A pc, answer : GoesTo(r, pc, answer) => work'[r].pc = pc BY DEF GoesTo, IdemTypeOK
  <2>2. QED BY <1>2, <1>3, <2>1 DEF InsertKey, InProgress

(* The payment of a key is created once: the unique index sees to it.      *)
LEMMA PaymentWritesKeep ==
  ASSUME IdemInv, NEW r \in Requests, CreatePayment(r) \/ CallGateway(r)
  PROVE  IdemInv'
<1> USE DEF IdemInv, RequestInv
<1>1. /\ work[r].pc \in {"create", "gateway"} /\ UNCHANGED << records, outside >>
      /\ Fault \/ NoFault
  BY DEF CreatePayment, CallGateway
<1>2. PICK pc \in {"gateway", "complete", "fail"}, answer \in Answers :
        GoesTo(r, pc, answer) /\ (pc = "gateway" => payments'[r].status = "pending")
  <2>1. Answer("payment", r, TRUE) \in Answers BY DEF Answer, Answers
  <2>2. payments' = [payments EXCEPT ![r].status = "pending"] => payments'[r].status = "pending"
    BY DEF IdemTypeOK
  <2>3. CASE CreatePayment(r)
    <3>1. \A q \in SameKeyPayments(r) : Paying(q) \in Answers
      BY AnswersAreAnswers DEF SameKeyPayments
    <3>2. QED BY <2>2, <2>3, <3>1, AnswersAreAnswers DEF CreatePayment
  <2>4. CASE CallGateway(r) BY <2>1, <2>4, AnswersAreAnswers DEF CallGateway
  <2>5. QED BY <2>3, <2>4
<1>3. /\ [pc |-> pc, answer |-> answer] \in WorkStates
      /\ work' = [work EXCEPT ![r] = [pc |-> pc, answer |-> answer]]
      /\ work'[r] = [pc |-> pc, answer |-> answer]
  BY <1>2, Goes
<1>4. /\ payments' \in [Requests -> [status: {"none", "pending", "processing", "completed", "failed"},
                                    url: BOOLEAN]]
      /\ \A q \in Requests \ {r} : payments'[q] = payments[q]
      /\ \/ payments' = payments
         \/ payments'[r].status # "none" /\ (payments[r].status # "none" \/ SameKeyPayments(r) = {})
  <2>1. CASE payments' = [payments EXCEPT ![r].status = "pending"] /\ SameKeyPayments(r) = {}
    <3>1. payments' = [payments EXCEPT ![r] = [status |-> "pending", url |-> payments[r].url]]
      <4>1. payments[r] \in [status: {"none", "pending", "processing", "completed", "failed"},
                             url: BOOLEAN]
        BY DEF IdemTypeOK
      <4>2. [payments[r] EXCEPT !.status = "pending"] = [status |-> "pending", url |-> payments[r].url]
        BY <4>1
      <4>3. QED BY <2>1, <4>2
    <3>2. QED BY <2>1, <3>1 DEF IdemTypeOK
  <2>2. CASE payments' = [payments EXCEPT ![r] = [status |-> "processing", url |-> TRUE]]
             /\ work[r].pc = "gateway"
    BY <2>2 DEF IdemTypeOK, Created
  <2>3. CASE payments' = payments BY <2>3 DEF IdemTypeOK
  <2>4. QED BY <2>1, <2>2, <2>3 DEF CreatePayment, CallGateway
<1>5. IdemTypeOK' BY <1>1, <1>3, <1>4, IdemFaults DEF IdemTypeOK, WorkStates, outside
<1>6. InProgress(r) BY <1>1 DEF InProgress
<1>7. Executing(r)' BY <1>1, <1>3, <1>6 DEF Executing, RecordOf
<1>8. Known(r)' /\ Created(r)'
  BY <1>2, <1>3, <1>4 DEF Known, Ended, Created
<1>9. OnePaymentPerKey' BY <1>4 DEF OnePaymentPerKey, SameKeyPayments
<1>10. RecordGrows(KeyOf[r]) /\ FailedIsError(KeyOf[r])'
  BY <1>1, KeysOfRequests DEF RecordGrows, FailedIsError
<1>11. QED BY <1>1, <1>3, <1>4, <1>5, <1>6, <1>7, <1>8, <1>9, <1>10, RequestMoves

(* Settling a record changes it only while it is processing.               *)
LEMMA SettledRecord ==
  ASSUME IdemTypeOK, NEW r \in Requests, NEW status \in {"completed", "failed"},
         NEW answer \in Answers, records' = Settled(r, status, answer)
  PROVE  /\ records' \in [Keys -> [status: {"none", "processing", "completed", "failed"},
                                  hash: Range(BodyOf) \cup {"none"}, response: Answers]]
         /\ \A k \in Keys \ {KeyOf[r]} : records'[k] = records[k]
         /\ RecordOf(r).status = "processing" =>
              RecordOf(r)' = Record(status, RecordOf(r).hash, answer)
         /\ RecordOf(r).status # "processing" => UNCHANGED records
<1>1. KeyOf[r] \in Keys BY KeysOfRequests
<1>2. CASE RecordOf(r).status = "processing"
  <2>1. records' = [records EXCEPT ![KeyOf[r]] = Record(status, RecordOf(r).hash, answer)]
    <3> DEFINE one == [records EXCEPT ![KeyOf[r]].status = status]
    <3>1. RecordOf(r) \in [status: {"none", "processing", "completed", "failed"},
                           hash: Range(BodyOf) \cup {"none"}, response: Answers]
      BY <1>1 DEF IdemTypeOK, RecordOf
    <3>2. one[KeyOf[r]] = Record(status, RecordOf(r).hash, RecordOf(r).response)
      BY <1>1, <3>1 DEF IdemTypeOK, RecordOf, Record
    <3>3. [one[KeyOf[r]] EXCEPT !.response = answer] = Record(status, RecordOf(r).hash, answer)
      BY <3>2 DEF Record
    <3>4. records' = [one EXCEPT ![KeyOf[r]].response = answer]
      BY <1>2 DEF Settled, RecordOf
    <3>5. QED BY <1>1, <3>3, <3>4 DEF IdemTypeOK
  <2>2. Record(status, RecordOf(r).hash, answer)
          \in [status: {"none", "processing", "completed", "failed"},
               hash: Range(BodyOf) \cup {"none"}, response: Answers]
    BY <1>1 DEF Record, RecordOf, IdemTypeOK
  <2>3. QED BY <1>1, <1>2, <2>1, <2>2 DEF IdemTypeOK, RecordOf
<1>3. CASE RecordOf(r).status # "processing"
  BY <1>3 DEF Settled, RecordOf, IdemTypeOK
<1>4. QED BY <1>2, <1>3

(* completeKey and failKey share this: they update a record that is        *)
(* processing, and an answer that names a payment is given only with the   *)
(* update.                                                                 *)
LEMMA SettlesKeep ==
  ASSUME IdemInv, NEW r \in Requests, InProgress(r),
         NEW pc \in {"answered", "fail"}, NEW given \in Answers, GoesTo(r, pc, given),
         NEW status \in {"completed", "failed"}, NEW answer \in Answers,
         records' = Settled(r, status, answer) \/ UNCHANGED records,
         UNCHANGED << payments, outside >>, Fault \/ NoFault,
         pc = "fail" => Fault,
         status = "failed" => answer = Error,
         given.kind = "payment" => /\ status = "completed" /\ given = answer
                                   /\ RecordOf(r).status = "processing"
                                   /\ records' = Settled(r, status, answer)
  PROVE  IdemInv'
<1> USE DEF IdemInv, RequestInv
<1>1. /\ [pc |-> pc, answer |-> given] \in WorkStates
      /\ work' = [work EXCEPT ![r] = [pc |-> pc, answer |-> given]]
      /\ work'[r] = [pc |-> pc, answer |-> given]
  BY Goes
<1>2. /\ records' \in [Keys -> [status: {"none", "processing", "completed", "failed"},
                               hash: Range(BodyOf) \cup {"none"}, response: Answers]]
      /\ \A k \in Keys \ {KeyOf[r]} : records'[k] = records[k]
      /\ \/ UNCHANGED records /\ given.kind # "payment"
         \/ /\ RecordOf(r).status = "processing"
            /\ RecordOf(r)' = Record(status, RecordOf(r).hash, answer)
  BY SettledRecord DEF IdemTypeOK
<1>3. RecordOf(r).hash = BodyOf[r] /\ RecordOf(r).status # "none" BY DEF Executing
<1>4. IdemTypeOK' BY <1>1, <1>2, IdemFaults DEF IdemTypeOK, WorkStates, outside
<1>5. Executing(r)'
  BY <1>1, <1>2, <1>3, IdemFaults DEF Executing, InProgress, RecordOf, Record
<1>6. Known(r)' BY <1>1, <1>2, <1>3 DEF Known, Ended, RecordOf, Record, outside
<1>7. Created(r)' BY <1>1 DEF Created
<1>8. RecordGrows(KeyOf[r]) BY <1>2 DEF RecordGrows, RecordOf, Record
<1>9. FailedIsError(KeyOf[r])' BY <1>2, KeysOfRequests DEF FailedIsError, RecordOf, Record
<1>10. OnePaymentPerKey' BY DEF OnePaymentPerKey
<1>11. QED BY <1>1, <1>2, <1>4, <1>5, <1>6, <1>7, <1>8, <1>9, <1>10, RequestMoves

(* completeKey, or its failure: a lost reply sends the request to failKey  *)
(* with its record completed already.                                      *)
LEMMA CompleteKeyKeeps ==
  ASSUME IdemInv, NEW r \in Requests, CompleteKey(r)
  PROVE  IdemInv'
<1>1. /\ InProgress(r) /\ RecordOf(r).status = "processing"
      /\ work[r].answer \in Answers /\ Error \in Answers
      /\ UNCHANGED << payments, outside >>
  BY AnswersAreAnswers
     DEF CompleteKey, InProgress, IdemInv, RequestInv, Executing, IdemTypeOK
<1>2. CASE /\ records' = Settled(r, "completed", work[r].answer)
           /\ GoesTo(r, "answered", work[r].answer) /\ NoFault
  BY <1>1, <1>2, SettlesKeep
<1>3. CASE /\ records' \in {records, Settled(r, "completed", work[r].answer)}
           /\ GoesTo(r, "fail", Error) /\ Fault
  <2>1. Error.kind # "payment" BY DEF Error, Answer
  <2>2. QED BY <1>1, <1>3, <2>1, SettlesKeep
<1>4. QED BY <1>2, <1>3 DEF CompleteKey

(* failKey: the request is answered with an error whether or not the       *)
(* update was carried out.                                                 *)
LEMMA FailKeyKeeps ==
  ASSUME IdemInv, NEW r \in Requests, FailKey(r)
  PROVE  IdemInv'
<1>1. InProgress(r) /\ Error \in Answers /\ Error.kind # "payment"
  BY AnswersAreAnswers DEF FailKey, InProgress, Error, Answer
<1>2. /\ records' = Settled(r, "failed", Error) \/ UNCHANGED records
      /\ GoesTo(r, "answered", Error) /\ UNCHANGED << payments, outside >>
      /\ Fault \/ NoFault
  BY DEF FailKey
<1>3. QED BY <1>1, <1>2, SettlesKeep

(***************************************************************************)
(* The steps around the service                                            *)
(***************************************************************************)
(* The TTL index removes a record that no request is working on; nothing   *)
(* is claimed of the answers under its key any more.                       *)
LEMMA LapseKeeps ==
  ASSUME IdemInv, NEW k \in Keys, RecordLapses(k)
  PROVE  IdemInv'
<1> USE DEF IdemInv, RequestInv, RecordLapses
<1>1. /\ records'[k] = NoRecord /\ k \in lapsed'
      /\ \A j \in Keys \ {k} : records'[j] = records[j] /\ (j \in lapsed' => j \in lapsed)
  BY DEF IdemTypeOK
<1>2. IdemTypeOK'
  <2>1. NoRecord \in [status: {"none", "processing", "completed", "failed"},
                      hash: Range(BodyOf) \cup {"none"}, response: Answers]
    BY AnswersAreAnswers DEF NoRecord, Record
  <2>2. QED BY <2>1 DEF IdemTypeOK
<1>3. ASSUME NEW r \in Requests PROVE RequestInv(r)' /\ Alone(r)'
  <2>1. CASE KeyOf[r] = k
    BY <1>1, <2>1 DEF Executing, Known, Created, Alone, InProgress
  <2>2. CASE KeyOf[r] # k
    <3>1. UNCHANGED RecordOf(r) /\ (KeyOf[r] \in lapsed => KeyOf[r] \in lapsed')
      BY <1>1, <2>2, KeysOfRequests DEF RecordOf
    <3>2. QED BY <3>1 DEF Executing, Known, Ended, Created, Alone, InProgress
  <2>3. QED BY <2>1, <2>2
<1>4. \A j \in Keys : FailedIsError(j)' BY <1>1 DEF FailedIsError, NoRecord, Record
<1>5. OnePaymentPerKey' BY DEF OnePaymentPerKey
<1>6. QED BY <1>2, <1>3, <1>4, <1>5

(* Bookings that close and webhooks that settle payments touch no record.  *)
LEMMA OutsideKeeps ==
  ASSUME IdemInv,
         \/ \E b \in Range(BookingOf) : BookingCloses(b)
         \/ \E p \in Requests, status \in {"completed", "failed"} : PaymentSettles(p, status)
         \/ UNCHANGED idemVars
  PROVE  IdemInv'
<1> USE DEF IdemInv, RequestInv
<1>1. UNCHANGED << records, work, lapsed, faults >> /\ payable' \subseteq payable
  BY DEF BookingCloses, PaymentSettles, idemVars
<1> DEFINE
      Payment == [status: {"none", "pending", "processing", "completed", "failed"}, url: BOOLEAN]
      NoneCreated ==
        /\ payments' \in [Requests -> Payment]
        /\ \A q \in Requests : /\ payments'[q].status = "none" <=> payments[q].status = "none"
                               /\ payments'[q].url = payments[q].url
<1>2. NoneCreated
  <2>1. CASE UNCHANGED payments BY <2>1 DEF IdemTypeOK
  <2>2. ASSUME NEW p \in Requests, NEW status \in {"completed", "failed"}, PaymentSettles(p, status)
        PROVE  NoneCreated
    <3>1. payments[p] \in Payment BY DEF IdemTypeOK
    <3>2. [payments[p] EXCEPT !.status = status] = [status |-> status, url |-> payments[p].url]
      BY <3>1
    <3>3. payments' = [payments EXCEPT ![p] = [status |-> status, url |-> payments[p].url]]
      BY <2>2, <3>2 DEF PaymentSettles
    <3>4. payments[p].status # "none" BY <2>2 DEF PaymentSettles, Created
    <3>5. QED BY <3>1, <3>3, <3>4 DEF IdemTypeOK
  <2>3. QED BY <2>1, <2>2 DEF BookingCloses, idemVars
<1>3. IdemTypeOK' BY <1>1, <1>2 DEF IdemTypeOK
<1>4. ASSUME NEW r \in Requests PROVE RequestInv(r)' /\ Alone(r)'
  BY <1>1, <1>2 DEF Executing, Known, Ended, Created, Alone, InProgress, RecordOf
<1>5. \A k \in Keys : FailedIsError(k)' BY <1>1 DEF FailedIsError
<1>6. OnePaymentPerKey' BY <1>2 DEF OnePaymentPerKey
<1>7. QED BY <1>3, <1>4, <1>5, <1>6

(* A restart loses the requests in progress and leaves their records as    *)
(* they are.                                                               *)
LEMMA IdemCrashKeeps ==
  ASSUME IdemInv, IdemCrash
  PROVE  IdemInv'
<1> USE DEF IdemInv, RequestInv, IdemCrash
<1>1. \A r \in Requests : \/ work'[r] = [pc |-> "lost", answer |-> NoAnswer]
                          \/ work'[r] = work[r] /\ ~ InProgress(r)
  BY DEF IdemTypeOK
<1>2. IdemTypeOK'
  <2>1. [pc |-> "lost", answer |-> NoAnswer] \in WorkStates BY AnswersAreAnswers DEF WorkStates
  <2>2. work' \in [Requests -> WorkStates] BY <2>1 DEF IdemTypeOK, WorkStates
  <2>3. QED BY <2>2, IdemFaults DEF IdemTypeOK, WorkStates, outside
<1>3. ASSUME NEW r \in Requests PROVE RequestInv(r)' /\ Alone(r)'
  BY <1>1 DEF Executing, Known, Ended, Created, Alone, InProgress, RecordOf, outside
<1>4. \A k \in Keys : FailedIsError(k)' BY DEF FailedIsError
<1>5. OnePaymentPerKey' BY DEF OnePaymentPerKey
<1>6. QED BY <1>2, <1>3, <1>4, <1>5

(***************************************************************************)
(* The properties the run checks                                           *)
(***************************************************************************)
(* IdemInv is an invariant of the requests under all keys.                 *)
LEMMA IdemInvHolds == IdemSpec => []IdemInv
<1>1. ASSUME IdemInit PROVE IdemInv
  <2> USE <1>1 DEF IdemInit
  <2>1. NoRecord \in [status: {"none", "processing", "completed", "failed"},
                      hash: Range(BodyOf) \cup {"none"}, response: Answers]
    BY AnswersAreAnswers DEF NoRecord, Record
  <2>2. [pc |-> "check", answer |-> NoAnswer] \in WorkStates BY AnswersAreAnswers DEF WorkStates
  <2>3. IdemTypeOK BY <2>1, <2>2, RequestsAssumption DEF IdemTypeOK, WorkStates
  <2>4. \A r \in Requests : RequestInv(r) /\ Alone(r)
    BY DEF RequestInv, Executing, Known, Ended, Created, Alone, InProgress
  <2>5. \A k \in Keys : FailedIsError(k) BY DEF FailedIsError, NoRecord, Record
  <2>6. QED BY <2>3, <2>4, <2>5 DEF IdemInv, OnePaymentPerKey
<1>2. ASSUME IdemInv, [IdemNext]_idemVars PROVE IdemInv'
  <2>1. ASSUME NEW r \in Requests, RequestStep(r) PROVE IdemInv'
    BY <1>2, <2>1, CheckKeyKeeps, InsertKeyKeeps, ReadsKeep, PaymentWritesKeep, CompleteKeyKeeps,
       FailKeyKeeps
       DEF RequestStep
  <2>2. QED BY <1>2, <2>1, LapseKeeps, OutsideKeeps, IdemCrashKeeps DEF IdemNext, IdemEnd
<1>3. QED BY <1>1, <1>2, PTL DEF IdemSpec

(* The properties follow from the invariant.                               *)
LEMMA IdemSafety ==
  ASSUME IdemInv
  PROVE  /\ IdemTypeOK /\ OneExecutionPerKey /\ SameKeySameAnswer
         /\ OnePaymentPerKey /\ OneBodyPerKey
<1> USE DEF IdemInv, RequestInv
<1>1. OneExecutionPerKey BY DEF OneExecutionPerKey, Alone, Executing, RecordOf
<1>2. SameKeySameAnswer BY DEF SameKeySameAnswer, Known, Ended, RecordOf
<1>3. OneBodyPerKey BY DEF OneBodyPerKey, Served, Executing, Known, Ended, RecordOf
<1>4. QED BY <1>1, <1>2, <1>3

(* Types.                                                                  *)
THEOREM IdemTypeCorrect == IdemSpec => []IdemTypeOK
BY IdemInvHolds, IdemSafety, PTL

(* However many requests come with one key at once, one of them executes   *)
(* the payment, and the record is its own meanwhile.                       *)
THEOREM OneExecution == IdemSpec => []OneExecutionPerKey
BY IdemInvHolds, IdemSafety, PTL

(* Every answer under a key that names a payment is the first such answer, *)
(* until the record lapses: through lost updates, restarts, webhooks.      *)
THEOREM SameAnswer == IdemSpec => []SameKeySameAnswer
BY IdemInvHolds, IdemSafety, PTL

(* A key makes at most one payment, for ever.                              *)
THEOREM OnePayment == IdemSpec => []OnePaymentPerKey
BY IdemInvHolds, IdemSafety, PTL

(* No two bodies are served under one key while its record lives.          *)
THEOREM OneBody == IdemSpec => []OneBodyPerKey
BY IdemInvHolds, IdemSafety, PTL

(***************************************************************************)
(* The promise.  Beyond IdemInv: a record that is not there has no body,   *)
(* no key is stuck without a fault, and an answer that is about to be      *)
(* stored is true.                                                         *)
(***************************************************************************)
keysOf == [k \in Keys |-> KeyEntry(k)]
madeOf == {r \in Requests : payments[r].status # "none"}
givenOf == [r \in Requests |-> AnswerGiven(r)]
promiseOf == << keysOf, madeOf, givenOf >>

EmptyRecord(k) == records[k].status = "none" => records[k] = NoRecord
NotStuck(k) ==
  records[k].status = "processing" =>
    faults > 0 \/ \E r \in Requests : KeyOf[r] = k /\ InProgress(r)
AnswerTrue(r) == work[r].pc = "complete" => Promise!Truthful(r, work[r].answer)

KeyInv ==
  /\ \A k \in Keys : EmptyRecord(k) /\ NotStuck(k)
  /\ \A r \in Requests : AnswerTrue(r)

(* A true answer stays true: payments are not deleted.                     *)
LEMMA TruthStays ==
  ASSUME NEW r, NEW answer, madeOf \subseteq madeOf', Promise!Truthful(r, answer)
  PROVE  Promise!Truthful(r, answer)'
BY DEF Promise!Truthful, madeOf

(* One request moves: what is left to show is about its own key.           *)
LEMMA KeyMoves ==
  ASSUME IdemInv, KeyInv, NEW r \in Requests, NEW new \in WorkStates,
         work' = [work EXCEPT ![r] = new],
         \A k \in Keys \ {KeyOf[r]} : records'[k] = records[k],
         madeOf \subseteq madeOf', faults > 0 => faults' > 0,
         RecordOf(r)' = RecordOf(r) \/ RecordOf(r)'.status # "none",
         \/ new.pc \in {"validate", "search", "create", "gateway", "complete", "fail"}
         \/ faults' > 0
         \/ RecordOf(r)'.status # "processing"
         \/ ~ InProgress(r) /\ RecordOf(r)' = RecordOf(r),
         new.pc = "complete" => Promise!Truthful(r, new.answer)'
  PROVE  KeyInv'
<1>1. work'[r] = new /\ \A q \in Requests \ {r} : work'[q] = work[q] BY DEF IdemInv, IdemTypeOK
<1>2. ASSUME NEW k \in Keys PROVE EmptyRecord(k)' /\ NotStuck(k)'
  <2>1. \A q \in Requests \ {r} : InProgress(q) => InProgress(q)' BY <1>1 DEF InProgress
  <2>2. InProgress(r)' <=> new.pc \in {"validate", "search", "create", "gateway", "complete", "fail"}
    BY <1>1 DEF InProgress
  <2>3. EmptyRecord(k) /\ NotStuck(k) BY DEF KeyInv
  <2>4. CASE k # KeyOf[r]
    <3>1. records'[k] = records[k] BY <2>4
    <3>2. QED BY <2>1, <2>3, <2>4, <3>1 DEF EmptyRecord, NotStuck
  <2>5. CASE k = KeyOf[r]
    BY <2>1, <2>2, <2>3, <2>5 DEF EmptyRecord, NotStuck, RecordOf
  <2>6. QED BY <2>4, <2>5
<1>3. ASSUME NEW q \in Requests PROVE AnswerTrue(q)'
  <2>1. CASE q = r BY <1>1, <2>1 DEF AnswerTrue, Promise!Truthful
  <2>2. CASE q # r
    <3>1. work'[q] = work[q] BY <1>1, <2>2
    <3>2. QED BY <3>1, TruthStays DEF KeyInv, AnswerTrue, Promise!Truthful
  <2>3. QED BY <2>1, <2>2
<1>4. QED BY <1>2, <1>3 DEF KeyInv

(* How the record of a request, and its client's answer, may change for    *)
(* its step to be one that was promised.                                   *)
Promised(r) ==
  /\ \/ RecordOf(r)' = RecordOf(r)
     \/ RecordOf(r) = NoRecord /\ RecordOf(r)' = Record("processing", BodyOf[r], NoAnswer)
     \/ /\ RecordOf(r).status = "processing" /\ RecordOf(r).hash = BodyOf[r]
        /\ \E answer \in Answers, status \in {"completed", "failed"} :
             Promise!Truthful(r, answer) /\ RecordOf(r)' = Record(status, BodyOf[r], answer)
  /\ \/ AnswerGiven(r)' = AnswerGiven(r)
     \/ /\ AnswerGiven(r) = NoAnswer
        /\ AnswerGiven(r)' = Error \/ KeyEntry(KeyOf[r])' = Promise!Entry("settled", BodyOf[r], AnswerGiven(r)')

(* Such a step of one request is a step of the promise.                    *)
LEMMA PromisedStep ==
  ASSUME IdemInv, IdemInv', NEW r \in Requests,
         \A k \in Keys \ {KeyOf[r]} : records'[k] = records[k],
         \A q \in Requests \ {r} : work'[q] = work[q],
         madeOf' = madeOf, Promised(r)
  PROVE  Promise!PromiseNext
<1>1. KeyOf[r] \in Keys BY KeysOfRequests
<1>2. \A k \in Keys \ {KeyOf[r]} : keysOf'[k] = keysOf[k] BY DEF keysOf, KeyEntry
<1>3. keysOf'[KeyOf[r]] = KeyEntry(KeyOf[r])' /\ keysOf[KeyOf[r]] = KeyEntry(KeyOf[r])
  BY <1>1 DEF keysOf
<1>4. Promise!Take(r) \/ Promise!Settle(r) \/ keysOf' = keysOf
  <2>1. CASE RecordOf(r)' = RecordOf(r)
    <3>1. keysOf'[KeyOf[r]] = keysOf[KeyOf[r]] BY <1>3, <2>1 DEF KeyEntry, RecordOf
    <3>2. QED BY <1>2, <3>1 DEF keysOf
  <2>2. CASE RecordOf(r) = NoRecord /\ RecordOf(r)' = Record("processing", BodyOf[r], NoAnswer)
    <3>1. keysOf[KeyOf[r]] = Promise!Unused
      BY <1>3, <2>2 DEF KeyEntry, RecordOf, NoRecord, Record, Promise!Unused, Promise!Entry
    <3>2. keysOf'[KeyOf[r]] = Promise!Entry("busy", BodyOf[r], NoAnswer)
      BY <1>3, <2>2 DEF KeyEntry, RecordOf, Record, Promise!Entry
    <3>3. keysOf' = [keysOf EXCEPT ![KeyOf[r]] = Promise!Entry("busy", BodyOf[r], NoAnswer)]
      BY <1>1, <1>2, <3>2 DEF keysOf
    <3>4. QED BY <3>1, <3>3 DEF Promise!Take, keysOf
  <2>3. ASSUME RecordOf(r).status = "processing", RecordOf(r).hash = BodyOf[r],
               NEW answer \in Answers, NEW status \in {"completed", "failed"},
               Promise!Truthful(r, answer), RecordOf(r)' = Record(status, BodyOf[r], answer)
        PROVE  Promise!Settle(r)
    <3>1. keysOf[KeyOf[r]].phase = "busy" /\ keysOf[KeyOf[r]].body = BodyOf[r]
      BY <1>3, <2>3 DEF KeyEntry, RecordOf
    <3>2. keysOf'[KeyOf[r]] = Promise!Entry("settled", BodyOf[r], answer)
      BY <1>3, <2>3 DEF KeyEntry, RecordOf, Record, Promise!Entry
    <3>3. keysOf' = [keysOf EXCEPT ![KeyOf[r]] = Promise!Entry("settled", BodyOf[r], answer)]
      BY <1>1, <1>2, <3>2 DEF keysOf
    <3>4. QED BY <2>3, <3>1, <3>3 DEF Promise!Settle, Promise!Busy, keysOf
  <2>4. QED BY <2>1, <2>2, <2>3 DEF Promised
<1>5. Promise!Give(r) \/ givenOf' = givenOf
  <2>1. \A q \in Requests \ {r} : givenOf'[q] = givenOf[q] BY DEF givenOf, AnswerGiven
  <2>2. givenOf' = [givenOf EXCEPT ![r] = AnswerGiven(r)'] BY <2>1 DEF givenOf
  <2>3. KeyEntry(KeyOf[r])' = Promise!Entry("settled", BodyOf[r], AnswerGiven(r)')
          => AnswerGiven(r)' \in Promise!Settled(r)
    BY <1>3 DEF Promise!Settled, Promise!Entry, keysOf
  <2>4. QED BY <2>2, <2>3 DEF Promised, Promise!Give, givenOf
<1>6. QED BY <1>4, <1>5 DEF Promise!PromiseNext, keysOf, madeOf, givenOf

(* Steps that write no record, and answer nobody but with what the record  *)
(* of the request's key says.                                              *)
LEMMA CheckIsPromised ==
  ASSUME IdemInv, IdemInv', KeyInv, NEW r \in Requests, CheckKey(r)
  PROVE  KeyInv' /\ Promise!PromiseNext
<1> USE DEF IdemInv, RequestInv
<1>1. work[r].pc = "check" /\ UNCHANGED << records, payments, outside, faults >> BY DEF CheckKey
<1>2. PICK pc \in {"insert", "refused", "replayed"}, answer \in Answers :
        /\ GoesTo(r, pc, answer)
        /\ pc = "insert" => answer = NoAnswer
        /\ pc = "refused" => answer = Error
        /\ pc = "replayed" => /\ answer = RecordOf(r).response
                              /\ RecordOf(r).status \in {"completed", "failed"} /\ SameBody(r)
  <2>1. RecordOf(r).response \in Answers BY KeysOfRequests DEF IdemTypeOK, RecordOf
  <2>2. QED BY <2>1, AnswersAreAnswers DEF CheckKey, RecordOf
<1>3. /\ [pc |-> pc, answer |-> answer] \in WorkStates
      /\ work' = [work EXCEPT ![r] = [pc |-> pc, answer |-> answer]]
      /\ work'[r] = [pc |-> pc, answer |-> answer]
      /\ \A q \in Requests \ {r} : work'[q] = work[q]
  BY <1>2, Goes DEF IdemTypeOK
<1>4. madeOf' = madeOf /\ RecordOf(r)' = RecordOf(r) BY <1>1 DEF madeOf, RecordOf
<1>5. KeyInv' BY <1>1, <1>3, <1>4, KeyMoves DEF InProgress
<1>6. Promised(r)
  BY <1>1, <1>2, <1>3, <1>4
     DEF Promised, AnswerGiven, KeyEntry, RecordOf, SameBody, Promise!Entry
<1>7. QED BY <1>1, <1>3, <1>4, <1>5, <1>6, PromisedStep

(* The insert takes the key, for the body of the request.                  *)
LEMMA InsertIsPromised ==
  ASSUME IdemInv, IdemInv', KeyInv, NEW r \in Requests, InsertKey(r)
  PROVE  KeyInv' /\ Promise!PromiseNext
<1> USE DEF IdemInv, RequestInv
<1>1. /\ work[r].pc = "insert" /\ UNCHANGED << payments, outside >>
      /\ Fault \/ NoFault
      /\ KeyOf[r] \in Keys
  BY KeysOfRequests DEF InsertKey
<1>2. PICK pc \in {"validate", "check", "refused"}, answer \in Answers :
        /\ GoesTo(r, pc, answer)
        /\ pc = "refused" => answer = Error
        /\ pc # "refused" => answer = NoAnswer
        /\ \/ UNCHANGED records /\ pc # "validate"
           \/ /\ RecordFree(r) /\ (pc = "validate" \/ Fault)
              /\ records' = [records EXCEPT ![KeyOf[r]] = Record("processing", BodyOf[r], NoAnswer)]
  BY AnswersAreAnswers DEF InsertKey
<1>3. /\ [pc |-> pc, answer |-> answer] \in WorkStates
      /\ work' = [work EXCEPT ![r] = [pc |-> pc, answer |-> answer]]
      /\ work'[r] = [pc |-> pc, answer |-> answer]
      /\ \A q \in Requests \ {r} : work'[q] = work[q]
  BY <1>2, Goes DEF IdemTypeOK
<1>4. /\ \A k \in Keys \ {KeyOf[r]} : records'[k] = records[k]
      /\ \/ RecordOf(r)' = RecordOf(r) /\ pc # "validate"
         \/ /\ RecordOf(r) = NoRecord /\ (pc = "validate" \/ Fault)
            /\ RecordOf(r)' = Record("processing", BodyOf[r], NoAnswer)
  BY <1>1, <1>2 DEF IdemTypeOK, RecordOf, RecordFree, KeyInv, EmptyRecord
<1>5. madeOf' = madeOf BY <1>1 DEF madeOf
<1>6. KeyInv'
  <2>1. faults > 0 => faults' > 0 BY <1>1, IdemFaults DEF Fault, NoFault, IdemTypeOK
  <2>2. Fault => faults' > 0 BY IdemFaults DEF Fault, IdemTypeOK
  <2>3. ~ InProgress(r) BY <1>1 DEF InProgress
  <2>4. RecordOf(r)' = RecordOf(r) \/ RecordOf(r)'.status # "none" BY <1>4 DEF Record
  <2>5. QED BY <1>3, <1>4, <1>5, <2>1, <2>2, <2>3, <2>4, KeyMoves
<1>7. Promised(r) BY <1>1, <1>2, <1>3, <1>4 DEF Promised, AnswerGiven
<1>8. QED BY <1>3, <1>4, <1>5, <1>6, <1>7, PromisedStep

(* The search: an active payment of the booking is a true answer.          *)
LEMMA ReadIsPromised ==
  ASSUME IdemInv, IdemInv', KeyInv, NEW r \in Requests, Validate(r) \/ SearchPayment(r)
  PROVE  KeyInv' /\ Promise!PromiseNext
<1> USE DEF IdemInv, RequestInv
<1>1. /\ work[r].pc \in {"validate", "search"} /\ UNCHANGED << records, payments, outside >>
      /\ Fault \/ NoFault
  BY DEF Validate, SearchPayment, NoFault
<1>2. PICK pc \in {"search", "create", "complete", "fail"}, answer \in Answers :
        GoesTo(r, pc, answer) /\ (pc = "complete" => Promise!Truthful(r, answer))
  <2>1. \A q \in Active(r) : Paying(q) \in Answers /\ Promise!Truthful(r, Paying(q))
    BY AnswersAreAnswers DEF Active, Paying, Answer, Promise!Truthful
  <2>2. QED BY <2>1, AnswersAreAnswers DEF Validate, SearchPayment
<1>3. /\ [pc |-> pc, answer |-> answer] \in WorkStates
      /\ work' = [work EXCEPT ![r] = [pc |-> pc, answer |-> answer]]
      /\ work'[r] = [pc |-> pc, answer |-> answer]
      /\ \A q \in Requests \ {r} : work'[q] = work[q]
  BY <1>2, Goes DEF IdemTypeOK
<1>4. madeOf' = madeOf /\ RecordOf(r)' = RecordOf(r) BY <1>1 DEF madeOf, RecordOf
<1>5. pc = "complete" => Promise!Truthful(r, answer)' BY <1>2, <1>4, TruthStays
<1>6. KeyInv' BY <1>1, <1>3, <1>4, <1>5, KeyMoves, IdemFaults
<1>7. Promised(r) BY <1>1, <1>3, <1>4 DEF Promised, AnswerGiven
<1>8. QED BY <1>1, <1>3, <1>4, <1>6, <1>7, PromisedStep

(* A payment is made under a key that is busy with the request's body and  *)
(* has no payment yet.                                                     *)
LEMMA PaymentIsPromised ==
  ASSUME IdemInv, IdemInv', KeyInv, NEW r \in Requests, CreatePayment(r) \/ CallGateway(r)
  PROVE  KeyInv' /\ (Promise!PromiseNext \/ UNCHANGED promiseOf)
<1> USE DEF IdemInv, RequestInv
<1>1. /\ work[r].pc \in {"create", "gateway"} /\ UNCHANGED << records, outside >>
      /\ Fault \/ NoFault
  BY DEF CreatePayment, CallGateway
<1>2. \/ payments' = payments
      \/ payments' = [payments EXCEPT ![r].status = "pending"] /\ SameKeyPayments(r) = {}
      \/ /\ payments' = [payments EXCEPT ![r] = [status |-> "processing", url |-> TRUE]]
         /\ work[r].pc = "gateway"
  BY DEF CreatePayment, CallGateway
<1>3. madeOf' = madeOf \/ (madeOf' = madeOf \cup {r} /\ SameKeyPayments(r) = {})
  <2>1. CASE payments' = payments BY <2>1 DEF madeOf
  <2>2. CASE payments' = [payments EXCEPT ![r].status = "pending"] /\ SameKeyPayments(r) = {}
    BY <2>2 DEF IdemTypeOK, madeOf
  <2>3. CASE /\ payments' = [payments EXCEPT ![r] = [status |-> "processing", url |-> TRUE]]
             /\ work[r].pc = "gateway"
    <3>1. payments[r].status # "none" BY <2>3 DEF Created
    <3>2. QED BY <2>3, <3>1 DEF IdemTypeOK, madeOf
  <2>4. QED BY <1>2, <2>1, <2>2, <2>3
<1>4. PICK pc \in {"gateway", "complete", "fail"}, answer \in Answers :
        GoesTo(r, pc, answer) /\ (pc = "complete" => Promise!Truthful(r, answer)')
  <2>1. CASE CreatePayment(r)
    <3>1. ASSUME NEW q \in SameKeyPayments(r), UNCHANGED payments
          PROVE  Paying(q) \in Answers /\ Promise!Truthful(r, Paying(q))'
      <4>1. Promise!Truthful(r, Paying(q))
        BY DEF SameKeyPayments, Paying, Answer, Promise!Truthful
      <4>2. madeOf \subseteq madeOf' BY <3>1 DEF madeOf
      <4>3. Paying(q)' = Paying(q) BY <3>1 DEF Paying
      <4>4. QED BY <4>1, <4>2, <4>3, TruthStays, AnswersAreAnswers DEF SameKeyPayments
    <3>2. CASE GoesTo(r, "gateway", NoAnswer) BY <3>2, AnswersAreAnswers
    <3>3. CASE GoesTo(r, "fail", Error) BY <3>3, AnswersAreAnswers
    <3>4. CASE \E q \in SameKeyPayments(r) :
                 GoesTo(r, "complete", Paying(q)) /\ UNCHANGED payments
      <4>1. PICK q \in SameKeyPayments(r) :
              GoesTo(r, "complete", Paying(q)) /\ UNCHANGED payments
        BY <3>4
      <4>2. Paying(q) \in Answers /\ Promise!Truthful(r, Paying(q))' BY <3>1, <4>1
      <4>3. Paying(q)' = Paying(q) BY <4>1 DEF Paying
      <4>4. QED BY <4>1, <4>2, <4>3 DEF Promise!Truthful
    <3>5. QED BY <2>1, <3>2, <3>3, <3>4 DEF CreatePayment
  <2>2. CASE CallGateway(r)
    <3>1. payments' = [payments EXCEPT ![r] = [status |-> "processing", url |-> TRUE]]
            => Promise!Truthful(r, Answer("payment", r, TRUE))'
      BY DEF IdemTypeOK, Answer, Promise!Truthful
    <3>2. Answer("payment", r, TRUE) \in Answers BY DEF Answer, Answers
    <3>3. QED BY <2>2, <3>1, <3>2, AnswersAreAnswers DEF CallGateway
  <2>3. QED BY <2>1, <2>2
<1>5. /\ [pc |-> pc, answer |-> answer] \in WorkStates
      /\ work' = [work EXCEPT ![r] = [pc |-> pc, answer |-> answer]]
      /\ work'[r] = [pc |-> pc, answer |-> answer]
      /\ \A q \in Requests \ {r} : work'[q] = work[q]
  BY <1>4, Goes DEF IdemTypeOK
<1>6. RecordOf(r)' = RecordOf(r) /\ madeOf \subseteq madeOf' BY <1>1, <1>3 DEF RecordOf
<1>7. KeyInv' BY <1>1, <1>4, <1>5, <1>6, KeyMoves, IdemFaults
<1>8. keysOf' = keysOf /\ AnswerGiven(r)' = AnswerGiven(r) /\ givenOf' = givenOf
  BY <1>1, <1>5 DEF keysOf, KeyEntry, givenOf, AnswerGiven
<1>9. CASE madeOf' = madeOf BY <1>7, <1>8, <1>9 DEF promiseOf
<1>10. CASE madeOf' = madeOf \cup {r} /\ SameKeyPayments(r) = {}
  <2>1. KeyOf[r] \in Keys BY KeysOfRequests
  <2>2. InProgress(r) /\ work[r].pc # "fail" BY <1>1 DEF InProgress
  <2>3. keysOf[KeyOf[r]].phase = "busy" /\ keysOf[KeyOf[r]].body = BodyOf[r]
    BY <2>1, <2>2 DEF keysOf, KeyEntry, Executing, RecordOf
  <2>4. \A q \in madeOf : KeyOf[q] # KeyOf[r] BY <1>10 DEF madeOf, SameKeyPayments
  <2>5. Promise!Pay(r) BY <1>10, <2>3, <2>4 DEF Promise!Pay, Promise!Busy, keysOf, madeOf
  <2>6. QED BY <1>7, <1>8, <2>5 DEF Promise!PromiseNext, keysOf, givenOf
<1>11. QED BY <1>3, <1>7, <1>9, <1>10

(* completeIdempotencyKey and failIdempotencyKey settle a busy key, and    *)
(* with an answer that is true.                                            *)
LEMMA SettleIsPromised ==
  ASSUME IdemInv, IdemInv', KeyInv, NEW r \in Requests, CompleteKey(r) \/ FailKey(r)
  PROVE  KeyInv' /\ Promise!PromiseNext
<1> USE DEF IdemInv, RequestInv
<1>1. /\ work[r].pc \in {"complete", "fail"} /\ UNCHANGED << payments, outside >>
      /\ Fault \/ NoFault
      /\ InProgress(r)
      /\ work[r].answer \in Answers
  BY DEF CompleteKey, FailKey, InProgress, IdemTypeOK
<1>2. PICK pc \in {"answered", "fail"}, given \in Answers,
           status \in {"completed", "failed"}, answer \in Answers :
        /\ GoesTo(r, pc, given)
        /\ records' = Settled(r, status, answer) \/ (UNCHANGED records /\ Fault)
        /\ pc = "fail" => Fault
        /\ Promise!Truthful(r, answer)
        /\ given = Error \/ /\ given = answer /\ records' = Settled(r, status, answer)
                            /\ work[r].pc = "complete"
  <2>1. CASE CompleteKey(r)
    <3>1. Promise!Truthful(r, work[r].answer) BY <2>1 DEF CompleteKey, KeyInv, AnswerTrue
    <3>2. QED BY <1>1, <2>1, <3>1, AnswersAreAnswers DEF CompleteKey
  <2>2. CASE FailKey(r)
    <3>1. Promise!Truthful(r, Error) BY DEF Promise!Truthful
    <3>2. QED BY <2>2, <3>1, AnswersAreAnswers DEF FailKey
  <2>3. QED BY <2>1, <2>2
<1>3. /\ [pc |-> pc, answer |-> given] \in WorkStates
      /\ work' = [work EXCEPT ![r] = [pc |-> pc, answer |-> given]]
      /\ work'[r] = [pc |-> pc, answer |-> given]
      /\ \A q \in Requests \ {r} : work'[q] = work[q]
  BY <1>2, Goes DEF IdemTypeOK
<1>4. /\ RecordOf(r).hash = BodyOf[r] /\ RecordOf(r).status # "none"
      /\ work[r].pc = "complete" => RecordOf(r).status = "processing"
  BY <1>1 DEF Executing
<1>5. /\ \A k \in Keys \ {KeyOf[r]} : records'[k] = records[k]
      /\ \/ RecordOf(r)' = RecordOf(r)
            /\ (Fault \/ RecordOf(r).status # "processing")
            /\ given = Error
         \/ /\ RecordOf(r).status = "processing"
            /\ RecordOf(r)' = Record(status, BodyOf[r], answer)
  BY <1>2, <1>4, SettledRecord DEF RecordOf
<1>6. madeOf' = madeOf BY <1>1 DEF madeOf
<1>7. KeyInv'
  <2>1. RecordOf(r)'.status # "none" BY <1>4, <1>5 DEF Record
  <2>2. faults' > 0 \/ RecordOf(r)'.status # "processing"
    BY <1>1, <1>5, IdemFaults DEF Record
  <2>3. faults > 0 => faults' > 0 BY <1>1, IdemFaults
  <2>4. QED BY <1>2, <1>3, <1>5, <1>6, <2>1, <2>2, <2>3, KeyMoves
<1>8. Promised(r)
  <2>1. AnswerGiven(r) = NoAnswer BY <1>1 DEF AnswerGiven
  <2>2. AnswerGiven(r)' = IF pc = "answered" THEN given ELSE NoAnswer BY <1>3 DEF AnswerGiven
  <2>3. RecordOf(r)' = Record(status, BodyOf[r], answer)
          => KeyEntry(KeyOf[r])' = Promise!Entry("settled", BodyOf[r], answer)
    BY DEF KeyEntry, RecordOf, Record, Promise!Entry
  <2>4. QED BY <1>2, <1>4, <1>5, <2>1, <2>2, <2>3 DEF Promised
<1>9. QED BY <1>3, <1>5, <1>6, <1>7, <1>8, PromisedStep

(* Around the service: a record that lapses is a key forgotten, a restart  *)
(* is a fault, and nothing else that happens is the promise's business.    *)
LEMMA OutsideIsPromised ==
  ASSUME IdemInv, IdemInv', KeyInv,
         \/ \E k \in Keys : RecordLapses(k)
         \/ \E b \in Range(BookingOf) : BookingCloses(b)
         \/ \E p \in Requests, status \in {"completed", "failed"} : PaymentSettles(p, status)
         \/ IdemCrash
         \/ UNCHANGED idemVars
  PROVE  KeyInv' /\ (Promise!PromiseNext \/ UNCHANGED promiseOf)
<1> USE DEF IdemInv, RequestInv
<1>1. ASSUME NEW k \in Keys, RecordLapses(k) PROVE KeyInv' /\ Promise!PromiseNext
  <2>1. /\ records'[k] = NoRecord /\ records[k].status # "none"
        /\ \A j \in Keys \ {k} : records'[j] = records[j]
        /\ UNCHANGED << payments, work, faults >>
    BY <1>1 DEF RecordLapses, Removable, IdemTypeOK
  <2>2. madeOf' = madeOf /\ givenOf' = givenOf BY <2>1 DEF madeOf, givenOf, AnswerGiven
  <2>3. KeyInv'
    <3>1. \A j \in Keys : EmptyRecord(j)' /\ NotStuck(j)'
      BY <2>1 DEF KeyInv, EmptyRecord, NotStuck, InProgress, NoRecord, Record
    <3>2. \A r \in Requests : AnswerTrue(r)'
      BY <2>1 DEF KeyInv, AnswerTrue, Promise!Truthful
    <3>3. QED BY <3>1, <3>2 DEF KeyInv
  <2>4. Promise!Forget(k)
    <3>1. keysOf'[k] = Promise!Unused /\ \A j \in Keys \ {k} : keysOf'[j] = keysOf[j]
      BY <2>1 DEF keysOf, KeyEntry, NoRecord, Record, Promise!Unused, Promise!Entry
    <3>2. keysOf[k].phase # "unused" BY <2>1 DEF keysOf, KeyEntry
    <3>3. keysOf[k] # Promise!Unused BY <3>2 DEF Promise!Unused, Promise!Entry
    <3>4. keysOf' = [keysOf EXCEPT ![k] = Promise!Unused] BY <3>1 DEF keysOf
    <3>5. QED BY <3>3, <3>4 DEF Promise!Forget, keysOf
  <2>5. k \in Promise!KeysUsed BY RequestsAssumption DEF Promise!KeysUsed, Keys, Range
  <2>6. QED BY <2>2, <2>3, <2>4, <2>5 DEF Promise!PromiseNext, madeOf, givenOf
<1>2. ASSUME UNCHANGED << records, work, faults >>,
             \A p \in Requests : payments'[p].status = "none" <=> payments[p].status = "none"
      PROVE  KeyInv' /\ UNCHANGED promiseOf
  <2>1. UNCHANGED promiseOf BY <1>2 DEF promiseOf, keysOf, madeOf, givenOf, KeyEntry, AnswerGiven
  <2>2. \A k \in Keys : EmptyRecord(k)' /\ NotStuck(k)'
    BY <1>2 DEF KeyInv, EmptyRecord, NotStuck, InProgress
  <2>3. \A r \in Requests : AnswerTrue(r)'
    BY <1>2 DEF KeyInv, AnswerTrue, Promise!Truthful
  <2>4. QED BY <2>1, <2>2, <2>3 DEF KeyInv
<1>3. CASE \/ \E b \in Range(BookingOf) : BookingCloses(b)
           \/ \E p \in Requests, status \in {"completed", "failed"} : PaymentSettles(p, status)
           \/ UNCHANGED idemVars
  <2>1. \A p \in Requests : payments'[p].status = "none" <=> payments[p].status = "none"
    BY <1>3 DEF BookingCloses, PaymentSettles, idemVars, IdemTypeOK, Created
  <2>2. UNCHANGED << records, work, faults >> BY <1>3 DEF BookingCloses, PaymentSettles, idemVars
  <2>3. QED BY <1>2, <2>1, <2>2
<1>4. CASE IdemCrash
  <2>1. /\ UNCHANGED << records, payments >> /\ faults' > 0
        /\ \A r \in Requests : \/ work'[r].pc = "lost" /\ AnswerGiven(r) = NoAnswer
                               \/ work'[r] = work[r] /\ ~ InProgress(r)
    BY <1>4, IdemFaults DEF IdemCrash, IdemTypeOK, InProgress, AnswerGiven
  <2>2. \A r \in Requests : AnswerGiven(r)' = AnswerGiven(r) BY <2>1 DEF AnswerGiven
  <2>3. UNCHANGED promiseOf BY <2>1, <2>2 DEF promiseOf, keysOf, madeOf, givenOf, KeyEntry
  <2>4. KeyInv' BY <2>1 DEF KeyInv, EmptyRecord, NotStuck, AnswerTrue, InProgress
  <2>5. QED BY <2>3, <2>4
<1>5. QED BY <1>1, <1>3, <1>4

(* Every step of the service keeps KeyInv and is one that was promised.    *)
LEMMA KeyStep ==
  ASSUME IdemInv, IdemInv', KeyInv, [IdemNext]_idemVars
  PROVE  KeyInv' /\ (Promise!PromiseNext \/ UNCHANGED promiseOf)
<1>1. ASSUME NEW r \in Requests, RequestStep(r)
      PROVE  KeyInv' /\ (Promise!PromiseNext \/ UNCHANGED promiseOf)
  BY <1>1, CheckIsPromised, InsertIsPromised, ReadIsPromised, PaymentIsPromised, SettleIsPromised
     DEF RequestStep
<1>2. QED BY <1>1, OutsideIsPromised DEF IdemNext, IdemEnd

(* At the start every key is unused.                                       *)
LEMMA KeyInit == IdemInit => KeyInv /\ Promise!PromiseInit
<1> SUFFICES ASSUME IdemInit PROVE KeyInv /\ Promise!PromiseInit OBVIOUS
<1> USE DEF IdemInit
<1>1. KeyInv BY DEF KeyInv, EmptyRecord, NotStuck, AnswerTrue, NoRecord, Record
<1>2. keysOf = [k \in Promise!KeysUsed |-> Promise!Unused]
  BY RequestsAssumption
     DEF keysOf, KeyEntry, Keys, Range, Promise!KeysUsed, NoRecord, Record, Promise!Unused, Promise!Entry
<1>3. madeOf = {} /\ givenOf = [r \in Requests |-> NoAnswer] BY DEF madeOf, givenOf, AnswerGiven
<1>4. QED BY <1>1, <1>2, <1>3 DEF Promise!PromiseInit, keysOf, madeOf, givenOf

(* KeyInv is an invariant of the requests under all keys.                  *)
LEMMA KeyInvHolds == IdemSpec => []KeyInv
BY IdemInvHolds, KeyInit, KeyStep, PTL DEF IdemSpec

(* Only a fault leaves a key processing that no request is working on.     *)
THEOREM StuckNeedsAFault == IdemSpec => []StuckOnlyByFault
<1>1. KeyInv => StuckOnlyByFault BY DEF KeyInv, NotStuck, StuckOnlyByFault
<1>2. QED BY <1>1, KeyInvHolds, PTL

(* The service keeps the promise, for all requests that share keys, in     *)
(* every interleaving and through every fault: a settled key says the same *)
(* to every client until it is forgotten, a payment is made once, under a  *)
(* key that is busy with its body, and answers name payments there are.    *)
THEOREM KeysKeepThePromise == IdemSpec => PromiseSpec
<1>1. IdemInv /\ IdemInv' /\ KeyInv /\ [IdemNext]_idemVars => [Promise!PromiseNext]_promiseOf
  BY KeyStep
<1>2. QED
  BY <1>1, IdemInvHolds, KeyInvHolds, KeyInit, PTL
     DEF IdemSpec, PromiseSpec, Promise!PromiseSpec, Promise!promise, promiseOf, keysOf, madeOf, givenOf

(***************************************************************************)
(* Answers without a payment URL                                           *)
(***************************************************************************)
Named(answer) ==
  answer.kind = "payment" => answer.payment \in Requests /\ payments[answer.payment].status # "none"
UrlComes(p) ==
  payments[p].status # "none" => payments[p].url \/ work[p].pc = "gateway" \/ faults > 0

UrlInv ==
  /\ \A r \in Requests : Named(work[r].answer) /\ UrlComes(r)
  /\ \A k \in Keys : Named(records[k].response)

(* One request moves, and what it stores and answers names a payment there *)
(* is.                                                                     *)
LEMMA UrlMoves ==
  ASSUME IdemInv, UrlInv, NEW r \in Requests, NEW new \in WorkStates,
         work' = [work EXCEPT ![r] = new], faults > 0 => faults' > 0,
         \A k \in Keys \ {KeyOf[r]} : records'[k] = records[k],
         \A q \in Requests \ {r} : payments'[q] = payments[q],
         payments[r].status # "none" => payments'[r].status # "none",
         Named(new.answer)', Named(RecordOf(r).response)',
         payments'[r].status # "none" => payments'[r].url \/ new.pc = "gateway" \/ faults' > 0
  PROVE  UrlInv'
<1>1. work'[r] = new /\ \A q \in Requests \ {r} : work'[q] = work[q] BY DEF IdemInv, IdemTypeOK
<1>2. \A answer : Named(answer) => Named(answer)' BY DEF Named
<1>3. ASSUME NEW q \in Requests PROVE Named(work[q].answer)' /\ UrlComes(q)'
  <2>1. CASE q = r BY <1>1, <2>1 DEF Named, UrlComes
  <2>2. CASE q # r
    <3>1. work'[q] = work[q] /\ payments'[q] = payments[q] BY <1>1, <2>2
    <3>2. Named(work[q].answer)' BY <3>1, <1>2 DEF UrlInv, Named
    <3>3. UrlComes(q)' BY <3>1 DEF UrlInv, UrlComes
    <3>4. QED BY <3>2, <3>3
  <2>3. QED BY <2>1, <2>2
<1>4. ASSUME NEW k \in Keys PROVE Named(records[k].response)'
  <2>1. CASE k = KeyOf[r] BY <2>1 DEF RecordOf
  <2>2. CASE k # KeyOf[r]
    <3>1. records'[k] = records[k] BY <2>2
    <3>2. QED BY <3>1, <1>2 DEF UrlInv, Named
  <2>3. QED BY <2>1, <2>2
<1>5. QED BY <1>3, <1>4 DEF UrlInv

(* The steps that write no payment: what they answer and store is no       *)
(* payment, one that was found, or what they had before.                   *)
LEMMA UrlReads ==
  ASSUME IdemInv, UrlInv, NEW r \in Requests,
         \/ CheckKey(r) \/ InsertKey(r) \/ Validate(r) \/ SearchPayment(r)
         \/ CompleteKey(r) \/ FailKey(r)
  PROVE  UrlInv'
<1>1. /\ UNCHANGED payments /\ work[r].pc # "gateway" /\ (Fault \/ NoFault)
  BY DEF CheckKey, InsertKey, Validate, SearchPayment, CompleteKey, FailKey, NoFault
<1>2. /\ \A answer : Named(answer)' <=> Named(answer)
      /\ Named(NoAnswer) /\ Named(Error) /\ Named(work[r].answer) /\ Named(RecordOf(r).response)
      /\ RecordOf(r).response \in Answers /\ work[r].answer \in Answers
  BY <1>1, KeysOfRequests DEF Named, NoAnswer, Error, Answer, UrlInv, RecordOf, IdemInv, IdemTypeOK
<1>3. \A q \in Active(r) : Paying(q) \in Answers /\ Named(Paying(q))
  BY AnswersAreAnswers DEF Active, Paying, Answer, Named, IdemInv
<1>4. PICK pc \in {"check", "insert", "validate", "search", "create", "complete", "fail",
                   "answered", "replayed", "refused"}, answer \in Answers :
        GoesTo(r, pc, answer) /\ Named(answer)
  BY <1>2, <1>3, AnswersAreAnswers
     DEF CheckKey, InsertKey, Validate, SearchPayment, CompleteKey, FailKey, RecordOf
<1>5. /\ \A k \in Keys \ {KeyOf[r]} : records'[k] = records[k]
      /\ RecordOf(r)'.response \in {RecordOf(r).response, NoAnswer, Error, work[r].answer}
  <2>1. CASE UNCHANGED records BY <2>1 DEF RecordOf
  <2>2. CASE records' = [records EXCEPT ![KeyOf[r]] = Record("processing", BodyOf[r], NoAnswer)]
    BY <2>2, KeysOfRequests DEF RecordOf, Record, IdemInv, IdemTypeOK
  <2>3. ASSUME NEW status, NEW given \in {Error, work[r].answer}, records' = Settled(r, status, given)
        PROVE  /\ \A k \in Keys \ {KeyOf[r]} : records'[k] = records[k]
               /\ RecordOf(r)'.response \in {RecordOf(r).response, given}
    BY <2>3, KeysOfRequests DEF Settled, RecordOf, IdemInv, IdemTypeOK
  <2>4. \/ UNCHANGED records
        \/ records' = [records EXCEPT ![KeyOf[r]] = Record("processing", BodyOf[r], NoAnswer)]
        \/ records' = Settled(r, "completed", work[r].answer)
        \/ records' = Settled(r, "failed", Error)
    BY DEF CheckKey, InsertKey, Validate, SearchPayment, CompleteKey, FailKey
  <2>5. QED BY <2>1, <2>2, <2>3, <2>4
<1>6. Named(RecordOf(r).response)' BY <1>2, <1>5 DEF Named
<1>7. /\ [pc |-> pc, answer |-> answer] \in WorkStates
      /\ work' = [work EXCEPT ![r] = [pc |-> pc, answer |-> answer]]
  BY <1>4, Goes DEF IdemInv
<1>8. faults > 0 => faults' > 0 BY <1>1, IdemFaults DEF IdemInv
<1>9. payments'[r].status # "none" => payments'[r].url \/ faults' > 0
  BY <1>1, <1>8 DEF UrlInv, UrlComes
<1>10. Named(answer)' BY <1>1, <1>4 DEF Named
<1>11. QED BY <1>1, <1>5, <1>6, <1>7, <1>8, <1>9, <1>10, UrlMoves

(* The steps that write one: a payment is made by a request that goes on   *)
(* to the gateway, or stumbles over a fault; and leaves it with its URL.   *)
LEMMA UrlWrites ==
  ASSUME IdemInv, UrlInv, NEW r \in Requests, CreatePayment(r) \/ CallGateway(r)
  PROVE  UrlInv'
<1>1. /\ UNCHANGED records /\ (Fault \/ NoFault) /\ work[r].pc \in {"create", "gateway"}
  BY DEF CreatePayment, CallGateway
<1>2. /\ faults > 0 => faults' > 0
      /\ Fault => faults' > 0
  BY <1>1, IdemFaults DEF IdemInv
<1> DEFINE updated == [payments EXCEPT ![r] = [status |-> "processing", url |-> TRUE]]
<1>3. \/ payments' = payments
      \/ payments' = [payments EXCEPT ![r].status = "pending"]
      \/ payments' = updated
  BY DEF CreatePayment, CallGateway
<1>4. /\ \A q \in Requests \ {r} : payments'[q] = payments[q]
      /\ payments[r].status # "none" => payments'[r].status # "none"
  BY <1>3 DEF IdemInv, IdemTypeOK
<1>5. /\ \A answer : Named(answer) => Named(answer)'
      /\ Named(RecordOf(r).response)'
  <2>1. \A answer : Named(answer) => Named(answer)' BY <1>4 DEF Named
  <2>2. RecordOf(r)' = RecordOf(r) /\ Named(RecordOf(r).response)
    BY <1>1, KeysOfRequests DEF RecordOf, UrlInv
  <2>3. QED BY <1>4, <2>1, <2>2 DEF Named
<1>6. PICK pc \in {"gateway", "complete", "fail"}, answer \in Answers :
        /\ GoesTo(r, pc, answer) /\ Named(answer)'
        /\ payments'[r].status # "none" => payments'[r].url \/ pc = "gateway" \/ faults' > 0
  <2>1. Named(NoAnswer)' /\ Named(Error)' BY DEF Named, NoAnswer, Error, Answer
  <2>2. CASE CreatePayment(r)
    <3>1. CASE GoesTo(r, "gateway", NoAnswer) BY <2>1, <3>1, AnswersAreAnswers
    <3>2. CASE GoesTo(r, "fail", Error) /\ Fault BY <1>2, <2>1, <3>2, AnswersAreAnswers
    <3>3. ASSUME NEW q \in SameKeyPayments(r), GoesTo(r, "complete", Paying(q)), UNCHANGED payments
          PROVE  /\ Paying(q) \in Answers /\ Named(Paying(q))'
                 /\ payments'[r].status # "none" => payments'[r].url \/ faults' > 0
      <4>1. Paying(q) \in Answers BY AnswersAreAnswers DEF SameKeyPayments, IdemInv
      <4>2. Named(Paying(q))'
        BY <3>3 DEF SameKeyPayments, Paying, Answer, Named
      <4>3. work[r].pc # "gateway" BY <2>2 DEF CreatePayment
      <4>4. QED BY <1>2, <3>3, <4>1, <4>2, <4>3 DEF UrlInv, UrlComes
    <3>4. CASE \E q \in SameKeyPayments(r) : GoesTo(r, "complete", Paying(q)) /\ UNCHANGED payments
      <4>1. PICK q \in SameKeyPayments(r) : GoesTo(r, "complete", Paying(q)) /\ UNCHANGED payments
        BY <3>4
      <4>2. Paying(q)' = Paying(q) BY <4>1 DEF Paying
      <4>3. QED BY <3>3, <4>1, <4>2 DEF Named
    <3>5. QED BY <2>2, <3>1, <3>2, <3>4 DEF CreatePayment
  <2>3. CASE CallGateway(r)
    <3>1. CASE GoesTo(r, "fail", Error) /\ Fault BY <1>2, <2>1, <3>1, AnswersAreAnswers
    <3>2. CASE payments' = updated /\ GoesTo(r, "complete", Answer("payment", r, TRUE))
      <4>1. payments'[r] = [status |-> "processing", url |-> TRUE] BY <3>2 DEF IdemInv, IdemTypeOK
      <4>2. Answer("payment", r, TRUE) \in Answers /\ Named(Answer("payment", r, TRUE))'
        BY <4>1 DEF Answer, Answers, Named
      <4>3. QED BY <3>2, <4>1, <4>2 DEF Answer
    <3>3. QED BY <2>3, <3>1, <3>2 DEF CallGateway
  <2>4. QED BY <2>2, <2>3
<1>7. /\ [pc |-> pc, answer |-> answer] \in WorkStates
      /\ work' = [work EXCEPT ![r] = [pc |-> pc, answer |-> answer]]
  BY <1>6, Goes DEF IdemInv
<1>8. QED BY <1>1, <1>2, <1>4, <1>5, <1>6, <1>7, UrlMoves

(* The steps around the service: no payment disappears or loses its URL.   *)
LEMMA UrlOutside ==
  ASSUME IdemInv, UrlInv,
         \/ \E k \in Keys : RecordLapses(k)
         \/ \E b \in Range(BookingOf) : BookingCloses(b)
         \/ \E p \in Requests, status \in {"completed", "failed"} : PaymentSettles(p, status)
         \/ IdemCrash
         \/ UNCHANGED idemVars
  PROVE  UrlInv'
<1>1. \A p \in Requests : /\ payments'[p].status = "none" <=> payments[p].status = "none"
                          /\ payments'[p].url = payments[p].url
  <2>1. CASE UNCHANGED payments BY <2>1
  <2>2. ASSUME NEW p \in Requests, NEW status \in {"completed", "failed"}, PaymentSettles(p, status)
        PROVE  \A q \in Requests : /\ payments'[q].status = "none" <=> payments[q].status = "none"
                                   /\ payments'[q].url = payments[q].url
    BY <2>2 DEF PaymentSettles, IdemInv, IdemTypeOK, RequestInv, Created
  <2>3. QED BY <2>1, <2>2 DEF RecordLapses, BookingCloses, IdemCrash, idemVars
<1>2. /\ faults' > 0 \/ UNCHANGED << work, faults >>
      /\ \A r \in Requests : work'[r].answer \in {work[r].answer, NoAnswer}
      /\ \A k \in Keys : records'[k].response \in {records[k].response, NoAnswer}
  BY IdemFaults
     DEF RecordLapses, BookingCloses, PaymentSettles, IdemCrash, idemVars, IdemInv, IdemTypeOK,
         NoRecord, Record
<1>3. \A answer : Named(answer) => Named(answer)' BY <1>1 DEF Named
<1>4. Named(NoAnswer) BY DEF Named, NoAnswer, Answer
<1>5. \A r \in Requests : UrlComes(r)' BY <1>1, <1>2 DEF UrlInv, UrlComes
<1>6. \A r \in Requests : Named(work[r].answer)' BY <1>2, <1>3, <1>4 DEF UrlInv, Named
<1>7. \A k \in Keys : Named(records[k].response)' BY <1>2, <1>3, <1>4 DEF UrlInv, Named
<1>8. QED BY <1>5, <1>6, <1>7 DEF UrlInv

(* A client that was given no payment URL can get one: the payment he was  *)
(* told of has it by now, or the request that made it is still at the      *)
(* gateway, unless there was a fault.                                      *)
THEOREM UrlIsNotLost == IdemSpec => []UrlFollows
<1>1. IdemInit => UrlInv
  BY DEF IdemInit, UrlInv, Named, UrlComes, NoRecord, Record, NoAnswer, Answer
<1>2. IdemInv /\ UrlInv /\ [IdemNext]_idemVars => UrlInv'
  BY UrlReads, UrlWrites, UrlOutside DEF IdemNext, RequestStep, IdemEnd
<1>3. UrlInv => UrlFollows BY DEF UrlInv, Named, UrlComes, UrlFollows
<1>4. QED BY <1>1, <1>2, <1>3, IdemInvHolds, PTL DEF IdemSpec
================================================================================
