------------------------------- MODULE KeyPromise -------------------------------
(***************************************************************************)
(* What idempotency keys promise the clients of createPayment, with no     *)
(* collections, no awaits and no faults: a key is unused, busy with one    *)
(* body, or settled with that body and one answer.  A settled key changes  *)
(* only by being forgotten.  A client is told what its key was settled     *)
(* with, for the body it sent, or that something went wrong.               *)
(***************************************************************************)
CONSTANTS Requests, KeyOf, BodyOf, BookingOf, Answers, NoAnswer, Error, NoBody

VARIABLES
  keys,   \* key -> phase, body, answer
  made,   \* requests whose payment exists
  given   \* request -> the answer its client got

promise == << keys, made, given >>

Entry(phase, body, answer) == [phase |-> phase, body |-> body, answer |-> answer]
Unused == Entry("unused", NoBody, NoAnswer)
KeysUsed == {KeyOf[r] : r \in Requests}

PromiseInit ==
  /\ keys = [k \in KeysUsed |-> Unused]
  /\ made = {}
  /\ given = [r \in Requests |-> NoAnswer]

Take(r) ==
  /\ keys[KeyOf[r]] = Unused
  /\ keys' = [keys EXCEPT ![KeyOf[r]] = Entry("busy", BodyOf[r], NoAnswer)]

Busy(r) == keys[KeyOf[r]].phase = "busy" /\ keys[KeyOf[r]].body = BodyOf[r]

(* One payment for a key, ever, and only while the key is busy with the    *)
(* body it is paid for.                                                    *)
Pay(r) ==
  /\ Busy(r)
  /\ \A q \in made : KeyOf[q] # KeyOf[r]
  /\ made' = made \cup {r}

(* An answer that is not an error names a payment there is: for the        *)
(* booking that was asked for, or made under this key at an earlier time.  *)
Truthful(r, answer) ==
  \/ answer = Error
  \/ /\ answer.kind = "payment" /\ answer.payment \in made
     /\ BookingOf[answer.payment] = BookingOf[r] \/ KeyOf[answer.payment] = KeyOf[r]

Settle(r) ==
  /\ Busy(r)
  /\ \E answer \in Answers :
       /\ Truthful(r, answer)
       /\ keys' = [keys EXCEPT ![KeyOf[r]] = Entry("settled", BodyOf[r], answer)]

(* The answer may be given in the step that settles the key.               *)
Settled(r) ==
  {answer \in {keys'[KeyOf[r]].answer} : keys'[KeyOf[r]] = Entry("settled", BodyOf[r], answer)}
Give(r) ==
  /\ given[r] = NoAnswer
  /\ \E answer \in {Error} \cup Settled(r) : given' = [given EXCEPT ![r] = answer]

Forget(k) ==
  /\ keys[k] # Unused
  /\ keys' = [keys EXCEPT ![k] = Unused]

PromiseNext ==
  \/ \E r \in Requests : /\ UNCHANGED made
                         /\ UNCHANGED keys \/ Take(r) \/ Settle(r)
                         /\ UNCHANGED given \/ Give(r)
  \/ \E r \in Requests : Pay(r) /\ UNCHANGED << keys, given >>
  \/ \E k \in KeysUsed : Forget(k) /\ UNCHANGED << made, given >>

PromiseSpec == PromiseInit /\ [][PromiseNext]_promise
================================================================================
