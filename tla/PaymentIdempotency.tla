--------------------------- MODULE PaymentIdempotency ---------------------------
(***************************************************************************)
(* IdempotencyService, and createPayment as its only user: what a client   *)
(* that sends one idempotency key again and again gets for an answer.      *)
(* Requests overlap at every await; records live in idempotency_keys until *)
(* MongoDB's TTL index removes them, payments for ever.                    *)
(*                                                                         *)
(* A request is one call of createPayment; the payment it may create has   *)
(* the request's name.  Its body is compared by hash, and equal bodies pay *)
(* for one booking.  Keys are UUIDs, so two users never share one.  What   *)
(* bookings and webhooks do meanwhile is external here.                    *)
(*                                                                         *)
(* AnyBody, RecordAlwaysFree, NoSameKeyPayments, GatewayUnrecorded,        *)
(* SettledIfPaid and SettledAsAnswered are mistakes kept to see that a     *)
(* property notices them; no action uses them.                             *)
(***************************************************************************)
EXTENDS Naturals, FiniteSets, Functions

CONSTANTS
  Requests,   \* calls of createPayment
  KeyOf,      \* request -> idempotency key
  BodyOf,     \* request -> hash of the request body
  BookingOf,  \* request -> booking the body names
  NoRequest,  \* no payment
  MaxFaults   \* bound on failed operations and crashes

ASSUME RequestsAssumption ==
  /\ DOMAIN KeyOf = Requests /\ DOMAIN BodyOf = Requests /\ DOMAIN BookingOf = Requests
  /\ \A r, q \in Requests : BodyOf[r] = BodyOf[q] => BookingOf[r] = BookingOf[q]
  /\ NoRequest \notin Requests
  /\ MaxFaults \in Nat

Keys == Range(KeyOf)

VARIABLES
  records,   \* the idempotency_keys collection, by key
  payments,  \* the payments collection, by creating request
  work,      \* where each request is, and the answer it has so far
  payable,   \* bookings that validateBooking accepts
  lapsed,    \* history: keys whose record the TTL index has removed
  faults     \* faults so far

idemVars == << records, payments, work, payable, lapsed, faults >>
outside == << payable, lapsed >>

Fault == faults < MaxFaults /\ faults' = faults + 1
NoFault == UNCHANGED faults

(* An answer names a payment, with or without a payment_url, or an error.  *)
Answer(kind, payment, url) == [kind |-> kind, payment |-> payment, url |-> url]
Answers == [kind: {"none", "payment", "error"}, payment: Requests \cup {NoRequest}, url: BOOLEAN]
NoAnswer == Answer("none", NoRequest, FALSE)
Error == Answer("error", NoRequest, FALSE)
Paying(p) == Answer("payment", p, payments[p].url)

Record(status, hash, response) == [status |-> status, hash |-> hash, response |-> response]
NoRecord == Record("none", "none", NoAnswer)

GoesTo(r, pc, answer) == work' = [work EXCEPT ![r] = [pc |-> pc, answer |-> answer]]

(***************************************************************************)
(* checkIdempotencyKey.  Outside the try block of createPayment: an error  *)
(* here leaves the record as it is.                                        *)
(***************************************************************************)
AnyBody(r) == TRUE
SameBody(r) == records[KeyOf[r]].hash = BodyOf[r]

CheckKey(r) ==
  LET record == records[KeyOf[r]]
  IN  /\ work[r].pc = "check"
      /\ \/ record.status = "none" /\ GoesTo(r, "insert", NoAnswer)
         \/ /\ record.status # "none"
            /\ ~ SameBody(r) \/ record.status = "processing"
            /\ GoesTo(r, "refused", Error)
         \/ /\ record.status \in {"completed", "failed"} /\ SameBody(r)
            /\ GoesTo(r, "replayed", record.response)
      /\ UNCHANGED << records, payments, outside, faults >>

(* The unique index on key and user decides between two requests that both *)
(* found nothing; the loser checks again.                                  *)
RecordAlwaysFree(r) == TRUE
RecordFree(r) == records[KeyOf[r]].status = "none"

InsertKey(r) ==
  LET inserted == [records EXCEPT ![KeyOf[r]] = Record("processing", BodyOf[r], NoAnswer)]
  IN  /\ work[r].pc = "insert"
      /\ \/ /\ RecordFree(r)
            /\ records' = inserted
            /\ GoesTo(r, "validate", NoAnswer) /\ NoFault
         \/ /\ ~ RecordFree(r)
            /\ UNCHANGED records
            /\ GoesTo(r, "check", NoAnswer) /\ NoFault
         \/ /\ UNCHANGED records \/ (RecordFree(r) /\ records' = inserted)
            /\ GoesTo(r, "refused", Error) /\ Fault
      /\ UNCHANGED << payments, outside >>

(***************************************************************************)
(* The body of createPayment                                               *)
(***************************************************************************)
Validate(r) ==
  /\ work[r].pc = "validate"
  /\ IF BookingOf[r] \in payable THEN GoesTo(r, "search", NoAnswer) ELSE GoesTo(r, "fail", Error)
  /\ UNCHANGED << records, payments, outside, faults >>

(* findOne returns any one of the payments that match.                     *)
Active(r) == {q \in Requests : BookingOf[q] = BookingOf[r]
                                 /\ payments[q].status \in {"pending", "processing", "completed"}}

SearchPayment(r) ==
  /\ work[r].pc = "search"
  /\ \/ Active(r) = {} /\ GoesTo(r, "create", NoAnswer) /\ NoFault
     \/ \E q \in Active(r) :
          /\ IF payments[q].status = "completed"
             THEN GoesTo(r, "fail", Error) ELSE GoesTo(r, "complete", Paying(q))
          /\ NoFault
     \/ GoesTo(r, "fail", Error) /\ Fault
  /\ UNCHANGED << records, payments, outside >>

(* The unique index on the payment's idempotency_key: a payment made under *)
(* the key before its record lapsed is the answer, whatever became of it.  *)
NoSameKeyPayments(r) == {}
SameKeyPayments(r) == {q \in Requests : KeyOf[q] = KeyOf[r] /\ payments[q].status # "none"}

CreatePayment(r) ==
  /\ work[r].pc = "create"
  /\ \/ /\ SameKeyPayments(r) = {}
        /\ payments' = [payments EXCEPT ![r].status = "pending"]
        /\ GoesTo(r, "gateway", NoAnswer) /\ NoFault
     \/ \E q \in SameKeyPayments(r) :
          GoesTo(r, "complete", Paying(q)) /\ UNCHANGED payments /\ NoFault
     \/ /\ \/ UNCHANGED payments
           \/ SameKeyPayments(r) = {} /\ payments' = [payments EXCEPT ![r].status = "pending"]
        /\ GoesTo(r, "fail", Error) /\ Fault
  /\ UNCHANGED << records, outside >>

GatewayUnrecorded(r) ==
  /\ work[r].pc = "gateway"
  /\ GoesTo(r, "complete", Answer("payment", r, TRUE)) /\ NoFault
  /\ UNCHANGED << payments, records, outside >>

CallGateway(r) ==
  LET updated == [payments EXCEPT ![r] = [status |-> "processing", url |-> TRUE]]
  IN  /\ work[r].pc = "gateway"
      /\ \/ /\ payments' = updated
            /\ GoesTo(r, "complete", Answer("payment", r, TRUE)) /\ NoFault
         \/ /\ payments' \in {payments, updated}
            /\ GoesTo(r, "fail", Error) /\ Fault
      /\ UNCHANGED << records, outside >>

(***************************************************************************)
(* completeIdempotencyKey and failIdempotencyKey change a record that is   *)
(* still processing and no other.  An error of the first is caught and     *)
(* becomes a failure; an error of the second ends the request.             *)
(***************************************************************************)
SettledIfPaid(r, status, answer) ==
  IF records[KeyOf[r]].status = "processing" /\ status = "completed"
  THEN [records EXCEPT ![KeyOf[r]].status = status, ![KeyOf[r]].response = answer]
  ELSE records
SettledAsAnswered(r, status, answer) ==
  [records EXCEPT ![KeyOf[r]].status = answer.kind, ![KeyOf[r]].response = answer]
Settled(r, status, answer) ==
  IF records[KeyOf[r]].status = "processing"
  THEN [records EXCEPT ![KeyOf[r]].status = status, ![KeyOf[r]].response = answer]
  ELSE records

CompleteKey(r) ==
  LET answer == work[r].answer
  IN  /\ work[r].pc = "complete"
      /\ \/ /\ records' = Settled(r, "completed", answer)
            /\ GoesTo(r, "answered", answer) /\ NoFault
         \/ /\ records' \in {records, Settled(r, "completed", answer)}
            /\ GoesTo(r, "fail", Error) /\ Fault
      /\ UNCHANGED << payments, outside >>

FailKey(r) ==
  /\ work[r].pc = "fail"
  /\ \/ records' = Settled(r, "failed", Error) /\ NoFault
     \/ records' \in {records, Settled(r, "failed", Error)} /\ Fault
  /\ GoesTo(r, "answered", Error)
  /\ UNCHANGED << payments, outside >>

(***************************************************************************)
(* Around the service                                                      *)
(***************************************************************************)
InProgress(r) ==
  work[r].pc \in {"validate", "search", "create", "gateway", "complete", "fail"}

IdemCrash ==
  /\ Fault
  /\ work' = [r \in Requests |->
       IF InProgress(r) \/ work[r].pc = "insert" THEN [pc |-> "lost", answer |-> NoAnswer]
       ELSE work[r]]
  /\ UNCHANGED << records, payments, outside >>

(* The TTL index removes a record 24 hours after its creation, whatever    *)
(* its status: long after the request that made it has ended.              *)
Removable(k) == records[k].status # "none"

RecordLapses(k) ==
  /\ Removable(k)
  /\ \A r \in Requests : KeyOf[r] = k => ~ InProgress(r)
  /\ records' = [records EXCEPT ![k] = NoRecord]
  /\ lapsed' = lapsed \cup {k}
  /\ UNCHANGED << payments, work, payable, faults >>

(* A booking is confirmed, cancelled or expires; a webhook settles a       *)
(* payment whose transaction is known.                                     *)
BookingCloses(b) ==
  /\ b \in payable
  /\ payable' = payable \ {b}
  /\ UNCHANGED << records, payments, work, lapsed, faults >>

PaymentSettles(p, status) ==
  /\ payments[p].url /\ payments[p].status # "completed"
  /\ payments' = [payments EXCEPT ![p].status = status]
  /\ UNCHANGED << records, work, payable, lapsed, faults >>

IdemInit ==
  /\ records = [k \in Keys |-> NoRecord]
  /\ payments = [p \in Requests |-> [status |-> "none", url |-> FALSE]]
  /\ work = [r \in Requests |-> [pc |-> "check", answer |-> NoAnswer]]
  /\ payable = Range(BookingOf)
  /\ lapsed = {}
  /\ faults = 0

RequestStep(r) ==
  \/ CheckKey(r) \/ InsertKey(r) \/ Validate(r) \/ SearchPayment(r)
  \/ CreatePayment(r) \/ CallGateway(r) \/ CompleteKey(r) \/ FailKey(r)

(* Every request has ended: only clients could start something new.        *)
IdemEnd ==
  /\ \A r \in Requests : work[r].pc \in {"answered", "replayed", "refused", "lost"}
  /\ UNCHANGED idemVars

IdemNext ==
  \/ \E r \in Requests : RequestStep(r)
  \/ \E k \in Keys : RecordLapses(k)
  \/ \E b \in Range(BookingOf) : BookingCloses(b)
  \/ \E p \in Requests, status \in {"completed", "failed"} : PaymentSettles(p, status)
  \/ IdemCrash
  \/ IdemEnd

IdemSpec == IdemInit /\ [][IdemNext]_idemVars

(***************************************************************************)
(* Properties                                                              *)
(***************************************************************************)
IdemTypeOK ==
  /\ records \in [Keys -> [status: {"none", "processing", "completed", "failed"},
                           hash: Range(BodyOf) \cup {"none"}, response: Answers]]
  /\ payments \in [Requests -> [status: {"none", "pending", "processing", "completed", "failed"},
                                url: BOOLEAN]]
  /\ work \in [Requests -> [pc: {"check", "insert", "validate", "search", "create", "gateway",
                                 "complete", "fail", "answered", "replayed", "refused", "lost"},
                            answer: Answers]]
  /\ payable \subseteq Range(BookingOf) /\ lapsed \subseteq Keys /\ faults \in 0..MaxFaults

(* However many requests with one key arrive at once, one of them runs the *)
(* payment and holds the key meanwhile: the record says processing, with   *)
(* the hash of that request.                                               *)
OneExecutionPerKey ==
  \A r \in Requests : InProgress(r) =>
    /\ \A q \in Requests \ {r} : KeyOf[q] = KeyOf[r] => ~ InProgress(q)
    /\ records[KeyOf[r]].hash = BodyOf[r]
    /\ records[KeyOf[r]].status = "processing" \/ faults > 0

(* payment.service.ts: "Same key returns same response".  Two answers that *)
(* name a payment under one key name the same payment, with the same URL,  *)
(* while the record lives; nothing may happen to the payment, the booking  *)
(* or the server in between that changes it.                               *)
SameKeySameAnswer ==
  \A r, q \in Requests :
    /\ KeyOf[r] = KeyOf[q] /\ KeyOf[r] \notin lapsed
    /\ work[r].pc \in {"answered", "replayed"} /\ work[q].pc \in {"answered", "replayed"}
    /\ work[r].answer.kind = "payment" /\ work[q].answer.kind = "payment"
    => work[r].answer = work[q].answer

(* payment.service.ts: "does not create new payment".  A key makes one     *)
(* payment for ever: also when its record has lapsed and the payment has   *)
(* failed, so that neither the record nor the search for active payments   *)
(* stops a second one.                                                     *)
OnePaymentPerKey ==
  \A r, q \in Requests :
    r # q /\ KeyOf[r] = KeyOf[q] => payments[r].status = "none" \/ payments[q].status = "none"

(* A key that was used with one body serves no other: requests that were   *)
(* served under one key, before its record lapsed, had one body.           *)
Served(r) == InProgress(r) \/ work[r].pc \in {"answered", "replayed"}
OneBodyPerKey ==
  \A r, q \in Requests :
    KeyOf[r] = KeyOf[q] /\ KeyOf[r] \notin lapsed /\ Served(r) /\ Served(q)
      => BodyOf[r] = BodyOf[q]

(* A key that is stuck, its record processing with no request to settle    *)
(* it, so that every retry is refused until the record lapses, was left so *)
(* by a fault: whatever way a request that is not disturbed takes through  *)
(* createPayment, it settles its key before it answers.                    *)
StuckOnlyByFault ==
  \A k \in Keys :
    records[k].status = "processing" =>
      faults > 0 \/ \E r \in Requests : KeyOf[r] = k /\ InProgress(r)

(* A request that finds a payment before its transaction is known is       *)
(* answered without a payment URL, and so is every replay of that answer.  *)
(* It is never the last word: the payment has its URL by now, or the       *)
(* request that made it is at the gateway, unless there was a fault.       *)
UrlFollows ==
  \A r \in Requests :
    work[r].answer.kind = "payment" =>
      LET p == work[r].answer.payment
      IN  /\ payments[p].status # "none"
          /\ payments[p].url \/ work[p].pc = "gateway" \/ faults > 0

(* The service implements the promise: a record that was settled keeps its *)
(* body and its answer until it lapses, a client is told what the record   *)
(* says or an error, and a payment is made only under a key that is busy   *)
(* with its body and has none.                                             *)
KeyEntry(k) ==
  [phase |-> CASE records[k].status = "none" -> "unused"
               [] records[k].status = "processing" -> "busy"
               [] OTHER -> "settled",
   body |-> records[k].hash,
   answer |-> records[k].response]
AnswerGiven(r) ==
  IF work[r].pc \in {"answered", "replayed", "refused"} THEN work[r].answer ELSE NoAnswer

Promise == INSTANCE KeyPromise WITH
  NoBody <- "none",
  keys <- [k \in Keys |-> KeyEntry(k)],
  made <- {r \in Requests : payments[r].status # "none"},
  given <- [r \in Requests |-> AnswerGiven(r)]
PromiseSpec == Promise!PromiseSpec
================================================================================
