-------------------------- MODULE ShowtimeStore_proof --------------------------
(***************************************************************************)
(* Theorems about ShowtimeStore: for any number of initializeShowtime      *)
(* calls, clients and losses, what an initialisation may do to a hash that *)
(* is in use, when the hash is complete and when the counter can be        *)
(* trusted.                                                                *)
(***************************************************************************)
EXTENDS ShowtimeStore, SeatReservation_proof, SeatLayout_proof, SequenceTheorems

Total == Len(SeatOrder)

(* The command an initialisation executes when k are left, itself among    *)
(* them, and the list of the last n: the counter is set when one is left,  *)
(* the seats are filled in while 2..Total+1 are left, and an overwrite begins  *)
(* with two more.                                                          *)
CommandAt(k) ==
  CASE k = 1     -> Command("setCounter", NoSeat)
    [] k = Total + 2 -> Command("delCounter", NoSeat)
    [] k = Total + 3 -> Command("delSeats", NoSeat)
    [] OTHER     -> Command("hset", SeatOrder[Total + 2 - k])
Remaining(n) == [j \in 1..n |-> CommandAt(n + 1 - j)]
CommandSet == [op: {"delSeats", "delCounter", "hset", "setCounter"}, seat: Seats \cup {NoSeat}]

Left(i) == Len(task[i].commands)
FillsLater(n, s) == \E p \in 1..Total : SeatOrder[p] = s /\ p + n >= Total + 2
Pending(i, s) == Active(i) /\ FillsLater(Left(i), s)

(***************************************************************************)
(* The inductive invariant                                                 *)
(***************************************************************************)
TaskRecord == [pc: {"idle", "send", "pipeline", "executed", "done"}, commands: Seq(CommandSet),
               overwrite: BOOLEAN, resent: 0..MaxResends]
TasksFit ==
  /\ task \in [Initialisers -> TaskRecord]
  /\ \A i \in Initialisers :
       /\ Left(i) \in 0..(Total + 3) /\ task[i].commands = Remaining(Left(i))
       /\ Active(i) <=> Left(i) > 0

(* Until another call interferes, a call that does not begin by deleting,  *)
(* or has done so, finds no seat where it fills one in, unless it has      *)
(* filled it in before.                                                    *)
FillsMissingOnly ==
  \A i \in Initialisers \ raced :
    Active(i) /\ ~ SentAgain(i) /\ Left(i) <= Total + 2 =>
      \A s \in Seats : Pending(i, s) => seats[s] = Missing

(* A seat that is missing is about to be filled in.                        *)
MissingIsPending == \A s \in Seats : seats[s] = Missing => \E i \in Initialisers : Pending(i, s)
BecomesComplete == maimed \/ (~ AnyActive /\ NoHash) \/ MissingIsPending

(* Without losses and early clients, the counter promises no seat too many *)
(* while no call is at work or none has executed a command; otherwise each *)
(* seat is free, or will be when it has been filled in.                    *)
Untouched == (\A i \in Initialisers : Active(i) => Left(i) = Total + 3) /\ Shortfall >= 0
BecomesFree == \A s \in Seats : seats[s] = Free \/ \E i \in Initialisers : Pending(i, s)
CounterBecomesTrue ==
  losses = 0 /\ ~ early => Untouched \/ (AnyActive /\ BecomesFree)

StoreInv ==
  StoreTypeOK /\ TasksFit /\ FillsMissingOnly /\ BecomesComplete /\ CounterBecomesTrue

(***************************************************************************)
(* The order of the seats and the lists of commands                        *)
(***************************************************************************)

(* The seats of the showtime are those its screen has.                     *)
LEMMA SeatsAreTheScreens ==
  /\ Seats = SeatsOfScreen /\ \A s \in Seats : MatchesSeatId(s)
  /\ SeatOrder \in Seq(Seats) /\ IsInjective(SeatOrder) /\ Range(SeatOrder) = Seats
<1>1. Screen.rows \in 1..26 /\ Screen.cols \in 1..50 /\ Range(SeatOrder) = Seats
  BY ScreenAssumption
<1>2. /\ SeatOrder \in Seq(GridAvailable(Screen)) /\ IsInjective(SeatOrder)
      /\ Range(SeatOrder) = GridAvailable(Screen)
  <2>1. Screen.rows \in Nat /\ Screen.cols \in Nat \ {0} BY <1>1
  <2>2. QED BY <2>1, EachSeatOnce DEF SeatOrder
<1>3. GridAvailable(Screen) = SeatsOfScreen BY DEF GridAvailable, Grid, SeatsOfScreen
<1>4. \A s \in SeatsOfScreen : MatchesSeatId(s) BY <1>1 DEF SeatsOfScreen, MatchesSeatId
<1>5. QED BY <1>1, <1>2, <1>3, <1>4

(* The order names every seat of the showtime once.                        *)
LEMMA OrderFacts ==
  /\ Total \in Nat /\ SeatOrder \in [1..Total -> Seats]
  /\ \A p, q \in 1..Total : SeatOrder[p] = SeatOrder[q] => p = q
  /\ \A s \in Seats : \E p \in 1..Total : SeatOrder[p] = s
  /\ Cardinality(Seats) = Total
<1>1. SeatOrder \in Seq(Seats) /\ IsInjective(SeatOrder) /\ Range(SeatOrder) = Seats
  BY SeatsAreTheScreens
<1>2. Total \in Nat /\ SeatOrder \in [1..Total -> Seats] /\ DOMAIN SeatOrder = 1..Total
  BY <1>1 DEF Total
<1>3. \A p, q \in 1..Total : SeatOrder[p] = SeatOrder[q] => p = q
  BY <1>1, <1>2 DEF IsInjective
<1>4. \A s \in Seats : \E p \in 1..Total : SeatOrder[p] = s
  BY <1>1, <1>2 DEF Range
<1>5. Cardinality(Seats) = Total
  <2>1. SeatOrder \in Injection(1..Total, Seats) /\ SeatOrder \in Surjection(1..Total, Seats)
    BY <1>1, <1>2, <1>4 DEF Injection, Surjection, IsInjective
  <2>2. IsFiniteSet(1..Total) /\ Cardinality(1..Total) = Total
    BY <1>2, FS_Interval
  <2>3. QED
    BY <2>1, <2>2, FS_Surjection
<1>6. QED
  BY <1>2, <1>3, <1>4, <1>5

(* What is left of the commands once the first of them has been executed.  *)
LEMMA RemainingFacts ==
  ASSUME NEW n \in 0..(Total + 3)
  PROVE  /\ Remaining(n) \in Seq(CommandSet) /\ Len(Remaining(n)) = n
         /\ n > 0 => Head(Remaining(n)) = CommandAt(n) /\ Tail(Remaining(n)) = Remaining(n - 1)
<1>1. Total \in Nat /\ SeatOrder \in [1..Total -> Seats]
  BY OrderFacts
<1>2. ASSUME NEW k \in 1..(Total + 3) PROVE CommandAt(k) \in CommandSet
  <2>1. k \in {1, Total + 2, Total + 3} \/ Total + 2 - k \in 1..Total
    BY <1>1
  <2>2. QED
    BY <1>1, <2>1 DEF CommandAt, Command, CommandSet
<1>3. \A j \in 1..n : CommandAt(n + 1 - j) \in CommandSet
  <2>1. \A j \in 1..n : n + 1 - j \in 1..(Total + 3)
    BY <1>1
  <2>2. QED
    BY <1>2, <2>1
<1>4. Remaining(n) \in Seq(CommandSet) /\ Len(Remaining(n)) = n
  BY <1>1, <1>3 DEF Remaining
<1>5. ASSUME n > 0 PROVE Head(Remaining(n)) = CommandAt(n) /\ Tail(Remaining(n)) = Remaining(n - 1)
  <2>1. Remaining(n)[1] = CommandAt(n)
    BY <1>1, <1>5 DEF Remaining
  <2>2. /\ Tail(Remaining(n)) \in Seq(CommandSet) /\ Len(Tail(Remaining(n))) = n - 1
        /\ \A j \in 1..(n - 1) : Tail(Remaining(n))[j] = Remaining(n)[j + 1]
    <3>1. Remaining(n) # << >>
      BY <1>4, <1>5
    <3>2. QED
      BY <1>4, <3>1, HeadTailProperties
  <2>3. \A j \in 1..(n - 1) : Remaining(n)[j + 1] = CommandAt((n - 1) + 1 - j)
    <3>1. \A j \in 1..(n - 1) : j + 1 \in 1..n /\ n + 1 - (j + 1) = (n - 1) + 1 - j
      BY <1>1
    <3>2. QED
      BY <3>1 DEF Remaining
  <2>4. Remaining(n - 1) \in Seq(CommandSet) /\ Len(Remaining(n - 1)) = n - 1
    <3>1. n - 1 \in Nat /\ \A j \in 1..(n - 1) : (n - 1) + 1 - j \in 1..(Total + 3)
      BY <1>1, <1>5
    <3>2. QED
      BY <1>2, <3>1 DEF Remaining
  <2>5. \A j \in 1..(n - 1) : Tail(Remaining(n))[j] = Remaining(n - 1)[j]
    BY <2>2, <2>3 DEF Remaining
  <2>6. Tail(Remaining(n)) = Remaining(n - 1)
    BY <2>2, <2>4, <2>5, SeqEqual
  <2>7. QED
    BY <1>1, <1>4, <1>5, <2>1, <2>6
<1>6. QED
  BY <1>4, <1>5

(* The commands of initializeShowtime, in this form.                       *)
LEMMA CommandsFacts == Commands(FALSE) = Remaining(Total + 1) /\ Commands(TRUE) = Remaining(Total + 3)
<1>1. Total \in Nat /\ SeatOrder \in [1..Total -> Seats]
  BY OrderFacts
<1>2. Remaining(Total + 1) \in Seq(CommandSet) /\ Len(Remaining(Total + 1)) = Total + 1
  BY <1>1, RemainingFacts
<1>3. EachSeat \in Seq(CommandSet) /\ Len(EachSeat) = Total
        /\ \A p \in 1..Total : EachSeat[p] = Command("hset", SeatOrder[p])
  BY <1>1 DEF EachSeat, Command, CommandSet, Total
<1>4. Command("setCounter", NoSeat) \in CommandSet
  BY DEF Command, CommandSet
<1>5. /\ Fill \in Seq(CommandSet) /\ Len(Fill) = Total + 1
      /\ \A p \in 1..Total : Fill[p] = Command("hset", SeatOrder[p])
      /\ Fill[Total + 1] = Command("setCounter", NoSeat)
  BY <1>1, <1>3, <1>4 DEF Fill
<1>6. Fill = Remaining(Total + 1)
  <2>1. ASSUME NEW p \in 1..(Total + 1) PROVE Fill[p] = Remaining(Total + 1)[p]
    <3>1. Remaining(Total + 1)[p] = CommandAt(Total + 2 - p)
      <4>1. (Total + 1) + 1 - p = Total + 2 - p
        BY <1>1
      <4>2. QED
        BY <4>1 DEF Remaining
    <3>2. CASE p = Total + 1
      BY <1>1, <1>5, <3>1, <3>2 DEF CommandAt
    <3>3. CASE p \in 1..Total
      <4>1. Total + 2 - p \notin {1, Total + 2, Total + 3} /\ Total + 2 - (Total + 2 - p) = p
        BY <1>1, <3>3
      <4>2. QED
        BY <1>5, <3>1, <3>3, <4>1 DEF CommandAt
    <3>4. QED
      BY <1>1, <3>2, <3>3
  <2>2. QED
    BY <1>1, <1>2, <1>5, <2>1
<1>7. << Command("delSeats", NoSeat), Command("delCounter", NoSeat) >> \o Fill = Remaining(Total + 3)
  <2> DEFINE two == << Command("delSeats", NoSeat), Command("delCounter", NoSeat) >>
  <2>1. /\ Remaining(Total + 3) \in Seq(CommandSet) /\ Len(Remaining(Total + 3)) = Total + 3
        /\ \A p \in 1..(Total + 3) : Remaining(Total + 3)[p] = CommandAt(Total + 4 - p)
    <3>1. Total + 3 \in 0..(Total + 3) /\ \A p \in 1..(Total + 3) : Total + 3 + 1 - p = Total + 4 - p
      BY <1>1
    <3>2. \A p \in 1..(Total + 3) : Remaining(Total + 3)[p] = CommandAt(Total + 3 + 1 - p)
      BY DEF Remaining
    <3>3. QED
      BY <3>1, <3>2, RemainingFacts
  <2>2. /\ two \in Seq(CommandSet) /\ Len(two) = 2
        /\ two[1] = Command("delSeats", NoSeat) /\ two[2] = Command("delCounter", NoSeat)
    BY DEF Command, CommandSet
  <2> HIDE DEF two
  <2>3. /\ two \o Fill \in Seq(CommandSet) /\ Len(two \o Fill) = Total + 3
        /\ \A p \in 1..(Total + 3) : (two \o Fill)[p] = IF p <= 2 THEN two[p] ELSE Fill[p - 2]
    <3>1. 2 + (Total + 1) = Total + 3
      BY <1>1
    <3>2. /\ two \o Fill \in Seq(CommandSet) /\ Len(two \o Fill) = Len(two) + Len(Fill)
          /\ \A p \in 1..(Len(two) + Len(Fill)) :
               (two \o Fill)[p] = IF p <= Len(two) THEN two[p] ELSE Fill[p - Len(two)]
      BY <1>5, <2>2, ConcatProperties
    <3>3. QED
      BY <1>5, <2>2, <3>1, <3>2
  <2>4. ASSUME NEW p \in 1..(Total + 3) PROVE (two \o Fill)[p] = Remaining(Total + 3)[p]
    <3>1. CASE p = 1
      <4>1. CommandAt(Total + 4 - p) = Command("delSeats", NoSeat)
        BY <1>1, <3>1 DEF CommandAt
      <4>2. QED
        BY <1>1, <2>1, <2>2, <2>3, <3>1, <4>1
    <3>2. CASE p = 2
      <4>1. CommandAt(Total + 4 - p) = Command("delCounter", NoSeat)
        BY <1>1, <3>2 DEF CommandAt
      <4>2. QED
        BY <1>1, <2>1, <2>2, <2>3, <3>2, <4>1
    <3>3. CASE p \in 3..(Total + 3)
      <4>1. p - 2 \in 1..(Total + 1) /\ Total + 1 + 1 - (p - 2) = Total + 4 - p
        BY <1>1, <3>3
      <4>2. Remaining(Total + 1)[p - 2] = CommandAt(Total + 4 - p)
        BY <4>1 DEF Remaining
      <4>3. (two \o Fill)[p] = Fill[p - 2]
        BY <1>1, <2>3, <3>3
      <4>4. Remaining(Total + 3)[p] = CommandAt(Total + 4 - p)
        BY <2>1, <2>4
      <4>5. QED
        BY <1>6, <4>2, <4>3, <4>4
    <3>4. p \in 1..(Total + 3) => p = 1 \/ p = 2 \/ p \in 3..(Total + 3)
      BY <1>1
    <3>5. QED
      BY <2>4, <3>1, <3>2, <3>3, <3>4
  <2>5. two \o Fill = Remaining(Total + 3)
    BY <1>1, <2>1, <2>3, <2>4, SeqEqual
  <2>6. QED
    BY <2>5 DEF two
<1>8. QED
  BY <1>6, <1>7 DEF Commands

(***************************************************************************)
(* What each step does to the tasks                                        *)
(***************************************************************************)

(* A call that moves to the last n commands of its list, or has none left, *)
(* leaves the tasks as they should be.                                     *)
LEMMA TaskMoves ==
  ASSUME TasksFit, NEW i \in Initialisers, NEW n \in 0..(Total + 3),
         NEW pc \in {"idle", "send", "pipeline", "executed", "done"},
         NEW overwrite \in BOOLEAN, NEW resent \in 0..MaxResends,
         pc \in {"send", "pipeline"} <=> n > 0,
         task' = [task EXCEPT ![i] = TaskAt(pc, Remaining(n), overwrite, resent)]
  PROVE  /\ TasksFit'
         /\ Left(i)' = n /\ (SentAgain(i)' <=> resent > 0 /\ ~ overwrite)
         /\ \A j \in Initialisers \ {i} : Left(j)' = Left(j) /\ (SentAgain(j)' <=> SentAgain(j))
<1>1. Remaining(n) \in Seq(CommandSet) /\ Len(Remaining(n)) = n
  BY RemainingFacts
<1> DEFINE moved == [pc |-> pc, commands |-> Remaining(n), overwrite |-> overwrite, resent |-> resent]
<1>2. TaskAt(pc, Remaining(n), overwrite, resent) = moved
  BY DEF TaskAt
<1>3. moved \in TaskRecord
  BY <1>1, <1>2 DEF TaskRecord
<1>4. task \in [Initialisers -> TaskRecord]
  BY DEF TasksFit
<1>5. /\ task' \in [Initialisers -> TaskRecord]
      /\ task'[i] = moved
      /\ \A j \in Initialisers \ {i} : task'[j] = task[j]
  BY <1>2, <1>3, <1>4
<1>6. /\ Left(i)' = n /\ task'[i].commands = Remaining(n) /\ (Active(i)' <=> n > 0)
      /\ SentAgain(i)' <=> resent > 0 /\ ~ overwrite
  BY <1>1, <1>5 DEF Left, Active, SentAgain
<1>7. \A j \in Initialisers \ {i} : /\ Left(j)' = Left(j) /\ (Active(j)' <=> Active(j))
                                    /\ task'[j].commands = task[j].commands
                                    /\ SentAgain(j)' <=> SentAgain(j)
  BY <1>5 DEF Left, Active, SentAgain
<1>8. \A j \in Initialisers :
         /\ Left(j)' \in 0..(Total + 3) /\ task'[j].commands = Remaining(Left(j)')
         /\ Active(j)' <=> Left(j)' > 0
  BY <1>6, <1>7 DEF TasksFit
<1>9. \A j \in Initialisers :
         /\ Left(j)' \in 0..(Total + 3) /\ task'[j].commands = Remaining(Left(j))'
         /\ Active(j)' <=> Left(j)' > 0
  BY <1>8 DEF Remaining, CommandAt, Total
<1>10. QED
  BY <1>5, <1>6, <1>7, <1>9 DEF TasksFit

(* A call that is over has no commands left.                               *)
LEMMA OverMoves ==
  ASSUME TasksFit, NEW i \in Initialisers, task' = [task EXCEPT ![i] = Over]
  PROVE  /\ TasksFit' /\ Left(i)' = 0
         /\ \A j \in Initialisers \ {i} : Left(j)' = Left(j) /\ (SentAgain(j)' <=> SentAgain(j))
<1>1. 0 \in 0..(Total + 3) /\ 0 \in 0..MaxResends
  BY OrderFacts, ScreenAssumption
<1>2. Remaining(0) = << >>
  BY <1>1, RemainingFacts, EmptySeq
<1>3. task' = [task EXCEPT ![i] = TaskAt("done", Remaining(0), FALSE, 0)]
  BY <1>2 DEF Over
<1>4. "done" \in {"send", "pipeline"} <=> 0 > 0
  OBVIOUS
<1>5. QED
  BY <1>1, <1>3, <1>4, TaskMoves

(* initializeShowtime ends at once, or goes on to overwrite the hash, or   *)
(* goes on because it found none.                                          *)
LEMMA BeginEffect ==
  ASSUME TasksFit, NEW i \in Initialisers, NEW overwrite \in Overwrites, InitializeShowtime(i, overwrite)
  PROVE  /\ TasksFit' /\ Left(i) = 0
         /\ \A j \in Initialisers \ {i} : Left(j)' = Left(j) /\ (SentAgain(j)' <=> SentAgain(j))
         /\ Left(i)' = 0 \/ Left(i)' = Total + 3 \/ (Left(i)' = Total + 1 /\ NoHash)
<1>1. overwrite \in BOOLEAN /\ 0 \in 0..MaxResends
  BY ScreenAssumption
<1>2. Total \in Nat /\ 0 \in 0..(Total + 3) /\ Total + 1 \in 0..(Total + 3) /\ Total + 3 \in 0..(Total + 3)
  BY OrderFacts
<1>4. /\ task[i].pc = "idle"
      /\ task' = [task EXCEPT ![i] =
           IF Proceeds(overwrite) THEN TaskAt("send", Commands(overwrite), overwrite, 0) ELSE Over]
  BY DEF InitializeShowtime
<1>5. Left(i) = 0
  BY <1>2, <1>4 DEF TasksFit, Active
<1>6. CASE ~ Proceeds(overwrite)
  BY <1>4, <1>5, <1>6, OverMoves
<1>7. CASE overwrite = TRUE
  <2>1. task' = [task EXCEPT ![i] = TaskAt("send", Remaining(Total + 3), TRUE, 0)]
    BY <1>4, <1>7, CommandsFacts DEF Proceeds
  <2>2. TRUE \in BOOLEAN /\ ("send" \in {"send", "pipeline"} <=> Total + 3 > 0)
    BY <1>2
  <2>3. /\ TasksFit' /\ Left(i)' = Total + 3
        /\ \A j \in Initialisers \ {i} : Left(j)' = Left(j) /\ (SentAgain(j)' <=> SentAgain(j))
    BY <1>1, <1>2, <2>1, <2>2, TaskMoves
  <2>4. QED
    BY <1>5, <2>3
<1>8. CASE overwrite = FALSE /\ Proceeds(overwrite)
  <2>1. task' = [task EXCEPT ![i] = TaskAt("send", Remaining(Total + 1), FALSE, 0)]
    BY <1>4, <1>8, CommandsFacts
  <2>2. Total + 1 > 0 /\ NoHash
    BY <1>2, <1>8 DEF Proceeds
  <2>3. QED
    BY <1>1, <1>2, <1>5, <2>1, <2>2, TaskMoves
<1>9. QED
  BY <1>1, <1>6, <1>7, <1>8

(* The next command of a call, by the number of commands that are left.    *)
LEMMA CommandEffect ==
  ASSUME TasksFit, maimed \in BOOLEAN, NEW i \in Initialisers, PipelineCommand(i)
  PROVE  /\ TasksFit' /\ Left(i) \in 1..(Total + 3) /\ Left(i)' = Left(i) - 1
         /\ \A j \in Initialisers \ {i} : Left(j)' = Left(j)
         /\ \A j \in Initialisers : SentAgain(j)' <=> SentAgain(j)
         /\ UNCHANGED << now, losses, early >>
         /\ \/ /\ Left(i) = Total + 3 /\ Overwriting(i)
               /\ seats' = HashGone /\ maimed' = FALSE /\ UNCHANGED << available, raced >>
            \/ /\ Left(i) = Total + 2
               /\ available' = 0 /\ UNCHANGED << seats, raced, maimed >>
            \/ /\ Left(i) \in 2..(Total + 1)
               /\ seats' = [seats EXCEPT ![SeatOrder[Total + 2 - Left(i)]] = Free]
               /\ raced' = raced \cup {j \in Initialisers \ {i} : Active(j)}
               /\ UNCHANGED << available, maimed >>
            \/ /\ Left(i) = 1
               /\ available' = Total /\ UNCHANGED << seats, raced, maimed >>
<1> DEFINE n == Left(i)
<1>1. Total \in Nat
  BY OrderFacts
<1>2. Active(i) /\ n \in 1..(Total + 3) /\ task[i].commands = Remaining(n)
  BY <1>1 DEF TasksFit, PipelineCommand
<1>3. Head(task[i].commands) = CommandAt(n) /\ Tail(task[i].commands) = Remaining(n - 1)
  <2>1. n \in 0..(Total + 3) /\ n > 0
    BY <1>1, <1>2
  <2>2. Head(Remaining(n)) = CommandAt(n) /\ Tail(Remaining(n)) = Remaining(n - 1)
    BY <2>1, RemainingFacts
  <2>3. QED
    BY <1>2, <2>2
<1>4. /\ TasksFit' /\ Left(i)' = n - 1 /\ \A j \in Initialisers \ {i} : Left(j)' = Left(j)
      /\ \A j \in Initialisers : SentAgain(j)' <=> SentAgain(j)
  <2>1. n - 1 \in 0..(Total + 3)
    BY <1>1, <1>2
  <2> DEFINE pc == IF n = 1 THEN "executed" ELSE "pipeline"
             overwrite == task[i].overwrite
             resent == task[i].resent
  <2>2. task' = [task EXCEPT ![i] = TaskAt(pc, Remaining(n - 1), overwrite, resent)]
    BY <1>3 DEF PipelineCommand, Left
  <2>3. /\ pc \in {"idle", "send", "pipeline", "executed", "done"}
        /\ pc \in {"send", "pipeline"} <=> n - 1 > 0
    BY <1>1, <1>2
  <2>4. /\ overwrite \in BOOLEAN /\ resent \in 0..MaxResends
        /\ SentAgain(i) <=> resent > 0 /\ ~ overwrite
    BY DEF TasksFit, TaskRecord, SentAgain
  <2> HIDE DEF pc, overwrite, resent
  <2>5. QED
    BY <2>1, <2>2, <2>3, <2>4, TaskMoves
<1> DEFINE c == CommandAt(n)
<1>5. /\ seats' = CASE c.op = "delSeats" -> HashGone
                    [] c.op = "hset" -> [seats EXCEPT ![c.seat] = Free]
                    [] OTHER -> seats
      /\ available' = CASE c.op = "delCounter" -> 0
                        [] c.op = "setCounter" -> Total
                        [] OTHER -> available
      /\ raced' = IF c.op = "hset" THEN raced \cup {j \in Initialisers \ {i} : Active(j)} ELSE raced
      /\ maimed' = (maimed /\ c.op # "delSeats")
      /\ UNCHANGED << now, losses, early >>
  BY <1>3 DEF PipelineCommand, CounterSet, Total
<1>6. CASE n = Total + 3
  <2>1. c.op = "delSeats"
    BY <1>1, <1>6 DEF CommandAt, Command
  <2>2. Overwriting(i)
    BY <1>2, <1>3, <2>1 DEF Overwriting
  <2>3. seats' = HashGone /\ UNCHANGED << available, raced >>
    BY <1>5, <2>1
  <2>4. maimed' = FALSE
    BY <1>5, <2>1
  <2>5. QED
    BY <1>2, <1>4, <1>5, <1>6, <2>2, <2>3, <2>4
<1>7. CASE n = Total + 2
  <2>1. c.op = "delCounter"
    BY <1>1, <1>7 DEF CommandAt, Command
  <2>2. available' = 0 /\ UNCHANGED << seats, raced >>
    BY <1>5, <2>1
  <2>3. maimed' = maimed
    BY <1>5, <2>1
  <2>4. QED
    BY <1>2, <1>4, <1>5, <1>7, <2>2, <2>3
<1>8. CASE n \in 2..(Total + 1)
  <2>1. c = Command("hset", SeatOrder[Total + 2 - n])
    BY <1>1, <1>8 DEF CommandAt
  <2>2. c.op = "hset" /\ c.seat = SeatOrder[Total + 2 - n]
    BY <2>1 DEF Command
  <2>3. /\ seats' = [seats EXCEPT ![SeatOrder[Total + 2 - n]] = Free]
        /\ raced' = raced \cup {j \in Initialisers \ {i} : Active(j)}
        /\ UNCHANGED available
    BY <1>5, <2>2
  <2>4. maimed' = maimed
    BY <1>5, <2>2
  <2>5. QED
    BY <1>2, <1>4, <1>5, <1>8, <2>3, <2>4
<1>9. CASE n = 1
  <2>1. c.op = "setCounter"
    BY <1>1, <1>9 DEF CommandAt, Command
  <2>2. available' = Total /\ UNCHANGED << seats, raced >>
    BY <1>5, <2>1
  <2>3. maimed' = maimed
    BY <1>5, <2>1
  <2>4. QED
    BY <1>2, <1>4, <1>5, <1>9, <2>2, <2>3
<1>10. n \in 1..(Total + 3) => n = 1 \/ n \in 2..(Total + 1) \/ n = Total + 2 \/ n = Total + 3
  BY <1>1
<1>11. QED
  BY <1>2, <1>6, <1>7, <1>8, <1>9, <1>10

(* A call whose commands are sent again has all of them left; if it does   *)
(* not begin by deleting, it may fill in seats that are there.             *)
LEMMA ResentEffect ==
  ASSUME TasksFit, NEW i \in Initialisers, PipelineResent(i)
  PROVE  /\ TasksFit' /\ Left(i)' \in {Total + 1, Total + 3}
         /\ SentAgain(i)' \/ Left(i)' = Total + 3
         /\ \A j \in Initialisers \ {i} : Left(j)' = Left(j) /\ (SentAgain(j)' <=> SentAgain(j))
<1> DEFINE overwrite == task[i].overwrite
           resent == task[i].resent + 1
           n == IF overwrite THEN Total + 3 ELSE Total + 1
<1>1. overwrite \in BOOLEAN /\ resent \in 0..MaxResends /\ resent > 0
  <2>1. overwrite \in BOOLEAN /\ task[i].resent \in 0..MaxResends
    BY DEF TasksFit, TaskRecord
  <2>2. QED
    BY <2>1, ScreenAssumption DEF PipelineResent
<1>2. n \in 0..(Total + 3) /\ n > 0 /\ n \in {Total + 1, Total + 3} /\ (overwrite => n = Total + 3)
  BY OrderFacts
<1>3. Commands(overwrite) = Remaining(n)
  BY <1>1, CommandsFacts
<1>4. task' = [task EXCEPT ![i] = TaskAt("send", Remaining(n), overwrite, resent)]
  BY <1>3 DEF PipelineResent
<1> HIDE DEF overwrite, resent, n
<1>5. QED
  BY <1>1, <1>2, <1>4, TaskMoves

(***************************************************************************)
(* What the scripts of the clients do to a hash that is not complete       *)
(***************************************************************************)

(* A seat keeps its booking, or that booking releases it.                  *)
KeptOrReleased(s) ==
  \/ seats'[s].status \in {"held", "booked"} /\ seats'[s].booking_id = seats[s].booking_id
  \/ \E list \in SeatLists : s \in Range(list) /\ ReleaseSeats(seats[s].booking_id, list)

(* No script creates a seat or loses one, and none takes a seat from a     *)
(* live hold or a sale but the release of its booking.                     *)
LEMMA ClientsKeepSeats ==
  ASSUME TypeOK, Next
  PROVE  \A s \in Seats : /\ seats'[s] = Missing <=> seats[s] = Missing
                          /\ Taken(s) => KeptOrReleased(s)
<1> DEFINE Fine(s) == (seats'[s] = Missing <=> seats[s] = Missing) /\ (Taken(s) => KeptOrReleased(s))
<1> USE DEF Held, Booked, Free, Missing, Seat
<1>0. ASSUME NEW s \in Seats
      PROVE  /\ seats[s] \in SeatData /\ seats[s].held_until \in Nat /\ now \in Nat
             /\ seats[s] = Missing <=> seats[s].status = "missing"
             /\ Taken(s) => seats[s].status \in {"held", "booked"}
  <2>1. seats[s] \in SeatData /\ now \in Nat
    BY DEF TypeOK
  <2>2. QED
    BY <2>1 DEF SeatData, Taken
<1>1. ASSUME NEW b \in Bookings, NEW l \in SeatLists, NEW d \in HoldOffsets, NEW s \in Seats,
             BatchReserve(b, l, now + d)
      PROVE  Fine(s)
  <2>1. s \in Range(l) => Reservable(s)
    BY <1>1 DEF BatchReserve, CanReserve, Range
  <2>2. seats'[s] = IF s \in Range(l) THEN Held(b, now + d) ELSE seats[s]
    BY <1>1 DEF BatchReserve
  <2>3. QED
    BY <1>0, <2>1, <2>2 DEF Reservable, Taken, KeptOrReleased
<1>2. ASSUME NEW b \in Bookings, NEW l \in SeatLists, NEW d \in HoldOffsets, NEW s \in Seats,
             SingleReserve(b, l[1], now + d), Len(l) = 1
      PROVE  Fine(s)
  <2>1. l[1] \in Seats
    BY <1>2, ListsAssumption
  <2>2. seats'[s] = IF s = l[1] THEN Held(b, now + d) ELSE seats[s]
    BY <1>2, <2>1 DEF SingleReserve, TypeOK
  <2>3. s = l[1] => Reservable(s)
    BY <1>2 DEF SingleReserve
  <2>4. QED
    BY <1>0, <2>2, <2>3 DEF Reservable, Taken, KeptOrReleased
<1>3. ASSUME NEW b \in Bookings, NEW l \in SeatLists, NEW s \in Seats, ConfirmSeats(b, l)
      PROVE  Fine(s)
  <2>1. seats'[s] = IF s \in Range(l) /\ Confirmable(b, s) THEN Booked(b) ELSE seats[s]
    BY <1>3 DEF ConfirmSeats
  <2>2. QED
    BY <1>0, <2>1 DEF Confirmable, KeptOrReleased
<1>4. ASSUME NEW b \in Bookings, NEW l \in SeatLists, NEW s \in Seats, ReleaseSeats(b, l)
      PROVE  Fine(s)
  <2>1. seats'[s] = IF s \in Released(b, l) THEN Free ELSE seats[s]
    BY <1>4 DEF ReleaseSeats
  <2>2. CASE s \in Released(b, l)
    <3>1. s \in Range(l) /\ seats[s].booking_id = b /\ b # NoBooking
      BY <2>2, SeatsAssumption DEF Released, Releasable
    <3>2. KeptOrReleased(s)
      BY <1>4, <3>1 DEF KeptOrReleased
    <3>3. seats[s] # Missing /\ seats'[s] # Missing
      BY <2>1, <2>2, <3>1
    <3>4. QED
      BY <3>2, <3>3
  <2>3. CASE s \notin Released(b, l)
    BY <1>0, <2>1, <2>3 DEF KeptOrReleased
  <2>4. QED
    BY <2>2, <2>3
<1>5. ASSUME NEW S \in SUBSET Seats, NEW s \in Seats, Sweep(S) PROVE Fine(s)
  <2>1. seats'[s] = IF s \in S /\ Expired(s) THEN Free ELSE seats[s]
    BY <1>5 DEF Sweep
  <2>2. Taken(s) => ~ Expired(s)
    BY <1>0 DEF Taken, Expired
  <2>3. seats[s] = Missing => ~ Expired(s)
    BY DEF Expired
  <2>4. QED
    BY <1>0, <2>1, <2>2, <2>3 DEF KeptOrReleased
<1>6. ASSUME NEW b \in Bookings, NEW l \in SeatLists, NEW x \in Extensions, NEW s \in Seats,
             ExtendHold(b, l, x)
      PROVE  Fine(s)
  <2>1. seats'[s] = IF s \in Range(l) /\ Extendable(b, s)
                    THEN Held(b, Extended(l, s, x)) ELSE seats[s]
    BY <1>6 DEF ExtendHold
  <2>2. QED
    BY <1>0, <2>1 DEF Extendable, KeptOrReleased
<1>7. ASSUME NEW s \in Seats, Tick PROVE Fine(s)
  BY <1>0, <1>7 DEF Tick, store, KeptOrReleased
<1> HIDE DEF Fine
<1>8. ASSUME NEW s \in Seats PROVE Fine(s)
  BY <1>1, <1>2, <1>3, <1>4, <1>5, <1>6, <1>7 DEF Next, CleanupExpiredHolds, GetSeatsStatus
<1>9. QED
  BY <1>8 DEF Fine

(***************************************************************************)
(* The seats a call still fills in                                         *)
(***************************************************************************)

(* With more than all seats left every seat is still filled in, with the   *)
(* counter left none; each command fills in one seat, and that one only    *)
(* once.                                                                   *)
LEMMA FillFacts ==
  /\ \A n \in (Total + 1)..(Total + 3), s \in Seats : FillsLater(n, s)
  /\ \A n \in {0, 1}, s \in Seats : ~ FillsLater(n, s)
  /\ \A n \in 2..(Total + 1) :
       /\ SeatOrder[Total + 2 - n] \in Seats
       /\ \A s \in Seats : FillsLater(n, s) <=> FillsLater(n - 1, s) \/ s = SeatOrder[Total + 2 - n]
       /\ ~ FillsLater(n - 1, SeatOrder[Total + 2 - n])
<1>1. /\ Total \in Nat /\ SeatOrder \in [1..Total -> Seats]
      /\ \A p, q \in 1..Total : SeatOrder[p] = SeatOrder[q] => p = q
      /\ \A s \in Seats : \E p \in 1..Total : SeatOrder[p] = s
  BY OrderFacts
<1>2. ASSUME NEW n \in (Total + 1)..(Total + 3), NEW s \in Seats PROVE FillsLater(n, s)
  <2>1. PICK p \in 1..Total : SeatOrder[p] = s
    BY <1>1
  <2>2. p + n >= Total + 2
    BY <1>1
  <2>3. QED
    BY <2>1, <2>2 DEF FillsLater
<1>3. ASSUME NEW n \in {0, 1}, NEW s \in Seats PROVE ~ FillsLater(n, s)
  BY <1>1 DEF FillsLater
<1>4. ASSUME NEW n \in 2..(Total + 1)
      PROVE  /\ SeatOrder[Total + 2 - n] \in Seats
             /\ \A s \in Seats : FillsLater(n, s) <=> FillsLater(n - 1, s) \/ s = SeatOrder[Total + 2 - n]
             /\ ~ FillsLater(n - 1, SeatOrder[Total + 2 - n])
  <2>1. Total + 2 - n \in 1..Total /\ SeatOrder[Total + 2 - n] \in Seats
    BY <1>1
  <2>2. \A p \in 1..Total : p + n >= Total + 2 <=> p + (n - 1) >= Total + 2 \/ p = Total + 2 - n
    BY <1>1
  <2>3. ~ ((Total + 2 - n) + (n - 1) >= Total + 2)
    BY <1>1
  <2>4. \A s \in Seats : FillsLater(n, s) <=> FillsLater(n - 1, s) \/ s = SeatOrder[Total + 2 - n]
    BY <1>1, <2>1, <2>2 DEF FillsLater
  <2>5. ~ FillsLater(n - 1, SeatOrder[Total + 2 - n])
    BY <1>1, <2>1, <2>3 DEF FillsLater
  <2>6. QED
    BY <2>1, <2>4, <2>5
<1>5. QED
  BY <1>2, <1>3, <1>4

(* Whether a call is at work, and what it still fills in, is a matter of   *)
(* how many commands it has left.                                          *)
LEMMA PendingFacts ==
  ASSUME TasksFit
  PROVE  /\ \A i \in Initialisers : Left(i) \in 0..(Total + 3) /\ (Active(i) <=> Left(i) > 0)
         /\ \A i \in Initialisers, s \in Seats : Pending(i, s) <=> FillsLater(Left(i), s)
<1>1. \A i \in Initialisers : Left(i) \in 0..(Total + 3) /\ (Active(i) <=> Left(i) > 0)
  BY DEF TasksFit
<1>2. \A i \in Initialisers : Left(i) > 0 \/ Left(i) = 0
  BY <1>1, OrderFacts
<1>3. QED
  BY <1>1, <1>2, FillFacts DEF Pending

(* The same after a step.                                                  *)
LEMMA PendingAfter ==
  ASSUME TasksFit'
  PROVE  /\ \A i \in Initialisers : Left(i)' \in 0..(Total + 3) /\ (Active(i)' <=> Left(i)' > 0)
         /\ \A i \in Initialisers, s \in Seats : Pending(i, s)' <=> FillsLater(Left(i)', s)
<1>1. \A i \in Initialisers : Left(i)' \in 0..(Total + 3) /\ (Active(i)' <=> Left(i)' > 0)
  BY DEF TasksFit, Total
<1>2. \A i \in Initialisers : Left(i)' > 0 \/ Left(i)' = 0
  BY <1>1, OrderFacts
<1>3. \A i \in Initialisers, s \in Seats : FillsLater(Left(i), s)' <=> FillsLater(Left(i)', s)
  BY DEF FillsLater, Total
<1>4. QED
  BY <1>1, <1>2, <1>3, FillFacts DEF Pending

(***************************************************************************)
(* The invariant at the start and after each step                          *)
(***************************************************************************)

(* At the start there is no hash and no call is at work.                   *)
LEMMA StoreInvInit == StoreInit => StoreInv
<1>1. SUFFICES ASSUME StoreInit PROVE StoreInv
  OBVIOUS
<1>2. Total \in Nat
  BY OrderFacts
<1>3. 0 \in 0..(Total + 3) /\ Remaining(0) = << >> /\ << >> \in Seq(CommandSet)
  <2>1. 0 \in 0..(Total + 3)
    BY <1>2
  <2>2. Remaining(0) \in Seq(CommandSet) /\ Len(Remaining(0)) = 0
    BY <2>1, RemainingFacts
  <2>3. QED
    BY <2>1, <2>2, EmptySeq
<1>4. /\ task = [i \in Initialisers |-> Idle]
      /\ Idle = [pc |-> "idle", commands |-> << >>, overwrite |-> FALSE, resent |-> 0]
  BY <1>1 DEF StoreInit, Idle, TaskAt
<1>5. Idle \in TaskRecord
  <2>1. << >> \in Seq(CommandSet) /\ 0 \in 0..MaxResends
    BY <1>3, ScreenAssumption
  <2>2. QED
    BY <1>4, <2>1 DEF TaskRecord
<1>6. TasksFit
  <2>1. task \in [Initialisers -> TaskRecord]
    BY <1>4, <1>5
  <2>2. \A i \in Initialisers : task[i].pc = "idle" /\ task[i].commands = << >>
    BY <1>4
  <2>3. \A i \in Initialisers : Left(i) = 0 /\ task[i].commands = Remaining(0) /\ ~ Active(i)
    BY <1>3, <2>2 DEF Left, Active
  <2>4. QED
    BY <1>3, <2>1, <2>3 DEF TasksFit
<1>7. TypeOK
  BY <1>1 DEF StoreInit, TypeOK, SeatData, HashGone
<1>8. StoreTypeOK
  <2>1. maimed \in BOOLEAN /\ early \in BOOLEAN
    BY <1>1, Zenon DEF StoreInit
  <2>2. losses \in 0..MaxLosses /\ raced \subseteq Initialisers
    BY <1>1, ScreenAssumption DEF StoreInit
  <2>3. QED
    BY <1>6, <1>7, <2>1, <2>2 DEF StoreTypeOK, TasksFit, TaskRecord, CommandSet
<1>9. \A i \in Initialisers : ~ Active(i)
  <2>1. \A i \in Initialisers : task[i].pc = "idle"
    BY <1>4
  <2>2. QED
    BY <2>1 DEF Active
<1>10. FillsMissingOnly
  BY <1>9 DEF FillsMissingOnly
<1>11. BecomesComplete
  <2>1. NoHash
    BY <1>1 DEF StoreInit, NoHash, HashGone
  <2>2. QED
    BY <1>9, <2>1 DEF BecomesComplete, AnyActive
<1>12. CounterBecomesTrue
  <2>1. AvailableSeats = {} /\ available = 0
    BY <1>1 DEF StoreInit, AvailableSeats, HashGone, Missing, Seat
  <2>2. Shortfall = 0
    BY <2>1, FS_EmptySet DEF Shortfall
  <2>3. QED
    BY <1>9, <2>2 DEF CounterBecomesTrue, Untouched
<1>13. QED
  BY <1>6, <1>8, <1>10, <1>11, <1>12 DEF StoreInv

(* What an initialisation asked for, and an overwrite that begins, do not  *)
(* change: the seats, the counter, the history.                            *)
LEMMA BeginKeeps ==
  ASSUME StoreInv, NEW i \in Initialisers, NEW overwrite \in Overwrites, InitializeShowtime(i, overwrite)
  PROVE  StoreInv'
<1>1. /\ TasksFit' /\ Left(i) = 0
      /\ \A j \in Initialisers \ {i} : Left(j)' = Left(j) /\ (SentAgain(j)' <=> SentAgain(j))
      /\ Left(i)' = 0 \/ Left(i)' = Total + 3 \/ (Left(i)' = Total + 1 /\ NoHash)
  BY BeginEffect DEF StoreInv
<1>2. UNCHANGED << seats, available, now, losses, raced, maimed, early >>
  BY DEF InitializeShowtime, store, historyVars
<1>3. StoreTypeOK /\ TasksFit /\ FillsMissingOnly /\ BecomesComplete /\ CounterBecomesTrue /\ TypeOK
  BY DEF StoreInv, StoreTypeOK
<1>4. /\ \A j \in Initialisers : Left(j) \in 0..(Total + 3) /\ (Active(j) <=> Left(j) > 0)
      /\ \A j \in Initialisers, s \in Seats : Pending(j, s) <=> FillsLater(Left(j), s)
      /\ \A j \in Initialisers : Left(j)' \in 0..(Total + 3) /\ (Active(j)' <=> Left(j)' > 0)
      /\ \A j \in Initialisers, s \in Seats : Pending(j, s)' <=> FillsLater(Left(j)', s)
      /\ Total \in Nat
  BY <1>1, <1>3, PendingFacts, PendingAfter, OrderFacts
<1>5. ASSUME Left(i)' > 0 PROVE \A s \in Seats : Pending(i, s)'
  <2>1. Left(i)' \in (Total + 1)..(Total + 3)
    BY <1>1, <1>4, <1>5
  <2>2. QED
    BY <1>4, <2>1, FillFacts
<1>6. \A j \in Initialisers, s \in Seats : Pending(j, s) => Pending(j, s)'
  <2>1. \A s \in Seats : ~ Pending(i, s)
    BY <1>1, <1>4, FillFacts
  <2>2. QED
    BY <1>1, <1>4, <2>1
<1>7. MissingIsPending => MissingIsPending'
  BY <1>2, <1>6 DEF MissingIsPending
<1>8. AnyActive => AnyActive'
  BY <1>1, <1>4 DEF AnyActive
<1>9. StoreTypeOK'
  <2>1. TypeOK'
    BY <1>2, <1>3 DEF TypeOK
  <2>2. QED
    BY <1>1, <1>2, <1>3, <2>1 DEF StoreTypeOK, TasksFit, TaskRecord, CommandSet
<1>10. FillsMissingOnly'
  <2>1. SUFFICES ASSUME NEW j \in Initialisers \ raced, Active(j)', ~ SentAgain(j)', Left(j)' <= (Total + 2),
                        NEW s \in Seats, Pending(j, s)'
                 PROVE  seats[s] = Missing
    BY <1>2 DEF FillsMissingOnly, Total, Missing, Seat
  <2>2. CASE j = i
    <3>1. NoHash
      BY <1>1, <1>4, <2>1, <2>2
    <3>2. QED
      BY <2>1, <3>1 DEF NoHash
  <2>3. CASE j # i
    BY <1>1, <1>3, <1>4, <2>1, <2>3 DEF FillsMissingOnly
  <2>4. QED
    BY <2>2, <2>3
<1>11. BecomesComplete'
  <2>1. CASE maimed
    BY <1>2, <2>1 DEF BecomesComplete
  <2>2. CASE MissingIsPending
    BY <1>7, <2>2 DEF BecomesComplete
  <2>3. CASE ~ AnyActive /\ NoHash
    <3>1. CASE Left(i)' > 0
      <4>1. MissingIsPending'
        BY <1>5, <3>1 DEF MissingIsPending
      <4>2. QED
        BY <4>1 DEF BecomesComplete
    <3>2. CASE Left(i)' = 0
      <4>1. ~ AnyActive'
        BY <1>1, <1>4, <2>3, <3>2 DEF AnyActive
      <4>2. NoHash'
        BY <1>2, <2>3 DEF NoHash
      <4>3. QED
        BY <4>1, <4>2 DEF BecomesComplete
    <3>3. QED
      BY <1>1, <1>4, <3>1, <3>2
  <2>4. QED
    BY <1>3, <2>1, <2>2, <2>3 DEF BecomesComplete
<1>12. CounterBecomesTrue'
  <2>1. SUFFICES ASSUME losses = 0, ~ early PROVE Untouched' \/ (AnyActive /\ BecomesFree)'
    BY <1>2 DEF CounterBecomesTrue
  <2>2. CASE AnyActive /\ BecomesFree
    <3>1. BecomesFree'
      BY <1>2, <1>6, <2>2 DEF BecomesFree, Free, Seat
    <3>2. QED
      BY <1>8, <2>2, <3>1
  <2>3. CASE Untouched /\ Left(i)' # Total + 1
    <3>1. \A j \in Initialisers : Active(j)' => Left(j)' = Total + 3
      BY <1>1, <1>4, <2>3 DEF Untouched
    <3>2. Shortfall' = Shortfall
      BY <1>2 DEF Shortfall, AvailableSeats
    <3>3. QED
      BY <2>3, <3>1, <3>2 DEF Untouched, Total
  <2>4. CASE Left(i)' = Total + 1
    <3>1. NoHash
      BY <1>1, <1>4, <2>4
    <3>2. Left(i)' > 0
      BY <1>4, <2>4
    <3>3. BecomesFree'
      BY <1>5, <3>2 DEF BecomesFree
    <3>4. AnyActive'
      BY <1>4, <3>2 DEF AnyActive
    <3>5. QED
      BY <3>3, <3>4
  <2>5. QED
    BY <1>3, <2>1, <2>2, <2>3, <2>4 DEF CounterBecomesTrue
<1>13. QED
  BY <1>1, <1>9, <1>10, <1>11, <1>12 DEF StoreInv

(* A command of a call: the hash or the counter deleted, a seat filled in, *)
(* the counter set.                                                        *)
LEMMA CommandKeeps ==
  ASSUME StoreInv, NEW i \in Initialisers, PipelineCommand(i)
  PROVE  StoreInv'
<1> DEFINE n == Left(i)
           Deletes == /\ n = Total + 3 /\ seats' = HashGone /\ maimed' = FALSE
                      /\ UNCHANGED << available, raced >>
           Uncounts == n = Total + 2 /\ available' = 0 /\ UNCHANGED << seats, raced, maimed >>
           Fills == /\ n \in 2..(Total + 1)
                    /\ seats' = [seats EXCEPT ![SeatOrder[Total + 2 - n]] = Free]
                    /\ raced' = raced \cup {j \in Initialisers \ {i} : Active(j)}
                    /\ UNCHANGED << available, maimed >>
           Counts == n = 1 /\ available' = Total /\ UNCHANGED << seats, raced, maimed >>
<1>1. StoreTypeOK /\ TasksFit /\ FillsMissingOnly /\ BecomesComplete /\ CounterBecomesTrue /\ TypeOK
  BY DEF StoreInv, StoreTypeOK
<1>2. /\ TasksFit' /\ n \in 1..(Total + 3) /\ Left(i)' = n - 1
      /\ \A j \in Initialisers \ {i} : Left(j)' = Left(j)
      /\ \A j \in Initialisers : SentAgain(j)' <=> SentAgain(j)
      /\ UNCHANGED << now, losses, early >>
      /\ Deletes \/ Uncounts \/ Fills \/ Counts
  BY <1>1, CommandEffect DEF StoreTypeOK
<1>3. /\ \A j \in Initialisers : Left(j) \in 0..(Total + 3) /\ (Active(j) <=> Left(j) > 0)
      /\ \A j \in Initialisers, s \in Seats : Pending(j, s) <=> FillsLater(Left(j), s)
      /\ \A j \in Initialisers : Left(j)' \in 0..(Total + 3) /\ (Active(j)' <=> Left(j)' > 0)
      /\ \A j \in Initialisers, s \in Seats : Pending(j, s)' <=> FillsLater(Left(j)', s)
      /\ Total \in Nat
  BY <1>1, <1>2, PendingFacts, PendingAfter, OrderFacts
<1>4. AnyActive /\ Active(i)
  BY <1>2, <1>3 DEF AnyActive
<1>5. seats \in [Seats -> SeatData] /\ Missing # Free /\ Missing \in SeatData /\ Free \in SeatData
  BY <1>1 DEF TypeOK, SeatData, Missing, Free, Seat
<1>6. ASSUME n \in (Total + 2)..(Total + 3) PROVE \A s \in Seats : Pending(i, s)'
  <2>1. Left(i)' \in (Total + 1)..(Total + 3)
    BY <1>2, <1>3, <1>6
  <2>2. QED
    BY <1>3, <2>1, FillFacts
<1>7. \A s \in Seats : ~ Fills \/ s # SeatOrder[Total + 2 - n] => (Pending(i, s) => Pending(i, s)')
  <2>1. CASE n \in (Total + 2)..(Total + 3)
    BY <1>6, <2>1
  <2>2. CASE n \in 2..(Total + 1)
    <3>1. Fills
      BY <1>2, <1>3, <2>2
    <3>2. QED
      BY <1>2, <1>3, <2>2, <3>1, FillFacts
  <2>3. CASE n = 1
    BY <1>3, <2>3, FillFacts
  <2>4. n \in (Total + 2)..(Total + 3) \/ n \in 2..(Total + 1) \/ n = 1
    BY <1>2, <1>3
  <2>5. QED
    BY <2>1, <2>2, <2>3, <2>4
<1>8. \A s \in Seats : Pending(i, s)' /\ n <= Total + 1 => Pending(i, s)
  <2>1. CASE n \in 2..(Total + 1)
    BY <1>2, <1>3, <2>1, FillFacts
  <2>2. CASE n = 1
    <3>1. Left(i)' = 0
      BY <1>2, <2>2
    <3>2. QED
      BY <1>3, <3>1, FillFacts
  <2>3. n <= Total + 1 => n \in 2..(Total + 1) \/ n = 1
    BY <1>2, <1>3
  <2>4. QED
    BY <2>1, <2>2, <2>3
<1>9. StoreTypeOK'
  <2>1. seats' \in [Seats -> SeatData]
    BY <1>2, <1>5 DEF HashGone
  <2>2. available' \in Int /\ now' \in Nat
    BY <1>1, <1>2, <1>3 DEF TypeOK
  <2>3. raced' \subseteq Initialisers
    BY <1>1, <1>2 DEF StoreTypeOK
  <2>4. maimed' \in BOOLEAN
    <3>1. maimed' = maimed \/ maimed' = FALSE
      BY <1>2
    <3>2. QED
      BY <1>1, <3>1, Zenon DEF StoreTypeOK
  <2>5. TypeOK'
    BY <2>1, <2>2 DEF TypeOK
  <2>6. QED
    BY <1>1, <1>2, <2>3, <2>4, <2>5 DEF StoreTypeOK, TasksFit, TaskRecord, CommandSet
<1>10. MissingIsPending => MissingIsPending'
  <2>1. SUFFICES ASSUME MissingIsPending, NEW s \in Seats, seats'[s] = Missing
                 PROVE  \E j \in Initialisers : Pending(j, s)'
    BY DEF MissingIsPending, Missing, Seat
  <2>2. CASE Deletes
    <3>1. Pending(i, s)'
      BY <1>3, <1>6, <2>2
    <3>2. QED
      BY <3>1
  <2>3. CASE ~ Deletes
    <3>1. seats[s] = Missing /\ (~ Fills \/ s # SeatOrder[Total + 2 - n])
      <4>1. CASE Fills
        <5>1. SeatOrder[Total + 2 - n] \in Seats
          BY <4>1, FillFacts
        <5>2. QED
          BY <1>5, <2>1, <4>1, <5>1
      <4>2. CASE Uncounts \/ Counts
        <5>1. seats' = seats /\ n \notin 2..(Total + 1)
          BY <1>3, <4>2
        <5>2. QED
          BY <2>1, <5>1
      <4>3. QED
        BY <1>2, <2>3, <4>1, <4>2
    <3>2. PICK j \in Initialisers : Pending(j, s)
      BY <2>1, <3>1 DEF MissingIsPending
    <3>3. Pending(j, s)'
      BY <1>2, <1>3, <1>7, <3>1, <3>2
    <3>4. QED
      BY <3>3
  <2>4. QED
    BY <2>2, <2>3
<1>11. Deletes => MissingIsPending'
  <2>1. Deletes => \A s \in Seats : Pending(i, s)'
    BY <1>3, <1>6
  <2>2. QED
    BY <2>1 DEF MissingIsPending
<1>12. FillsMissingOnly'
  <2>1. SUFFICES ASSUME NEW j \in Initialisers, j \notin raced', Active(j)', ~ SentAgain(j), Left(j)' <= (Total + 2),
                        NEW s \in Seats, Pending(j, s)'
                 PROVE  seats'[s] = Missing
    BY <1>2 DEF FillsMissingOnly, Total, Missing, Seat
  <2>2. CASE Deletes
    BY <2>2 DEF HashGone
  <2>3. CASE Fills /\ j # i
    <3>1. Active(j)
      BY <1>2, <1>3, <2>1, <2>3
    <3>2. QED
      BY <2>1, <2>3, <3>1
  <2>4. CASE Fills /\ j = i
    <3>1. s # SeatOrder[Total + 2 - n] /\ Pending(i, s) /\ SeatOrder[Total + 2 - n] \in Seats
      <4>1. ~ FillsLater(n - 1, SeatOrder[Total + 2 - n]) /\ SeatOrder[Total + 2 - n] \in Seats
        BY <2>4, FillFacts
      <4>2. FillsLater(n - 1, s) /\ n <= Total + 1
        BY <1>2, <1>3, <2>1, <2>4
      <4>3. QED
        BY <1>8, <2>1, <2>4, <4>1, <4>2
    <3>2. seats[s] = Missing
      BY <1>1, <1>3, <1>4, <2>1, <2>4, <3>1 DEF FillsMissingOnly
    <3>3. QED
      BY <1>5, <2>4, <3>1, <3>2
  <2>5. CASE (Uncounts \/ Counts) /\ j # i
    <3>1. Active(j) /\ Left(j) <= Total + 2 /\ Pending(j, s) /\ j \notin raced
      BY <1>2, <1>3, <2>1, <2>5
    <3>2. QED
      BY <1>1, <2>1, <2>5, <3>1 DEF FillsMissingOnly
  <2>6. CASE (Uncounts \/ Counts) /\ j = i
    <3>1. Left(i) <= Total + 2 /\ Pending(i, s) /\ i \notin raced
      <4>1. CASE Uncounts
        <5>1. FillsLater(n, s)
          BY <1>3, <4>1, FillFacts
        <5>2. QED
          BY <1>3, <2>1, <2>6, <4>1, <5>1
      <4>2. CASE Counts
        BY <1>3, <1>8, <2>1, <2>6, <4>2
      <4>3. QED
        BY <2>6, <4>1, <4>2
    <3>2. QED
      BY <1>1, <1>4, <2>1, <2>6, <3>1 DEF FillsMissingOnly
  <2>7. QED
    BY <1>2, <2>2, <2>3, <2>4, <2>5, <2>6
<1>13. BecomesComplete'
  <2>1. CASE Deletes
    BY <1>11, <2>1 DEF BecomesComplete
  <2>2. CASE ~ Deletes
    <3>1. maimed' = maimed
      BY <1>2, <2>2
    <3>2. CASE maimed
      BY <3>1, <3>2 DEF BecomesComplete
    <3>3. CASE MissingIsPending
      BY <1>10, <3>3 DEF BecomesComplete
    <3>4. QED
      BY <1>1, <1>4, <3>2, <3>3 DEF BecomesComplete
  <2>3. QED
    BY <2>1, <2>2
<1>14. CounterBecomesTrue'
  <2>1. SUFFICES ASSUME losses = 0, ~ early PROVE Untouched' \/ (AnyActive /\ BecomesFree)'
    BY <1>2 DEF CounterBecomesTrue
  <2>2. CASE Deletes
    <3>1. BecomesFree'
      BY <1>3, <1>6, <2>2 DEF BecomesFree
    <3>2. Active(i)'
      BY <1>2, <1>3, <2>2
    <3>3. QED
      BY <3>1, <3>2 DEF AnyActive
  <2>3. CASE ~ Deletes
    <3>1. BecomesFree
      <4>1. ~ Untouched
        BY <1>2, <1>3, <1>4, <2>3 DEF Untouched
      <4>2. QED
        BY <1>1, <2>1, <4>1 DEF CounterBecomesTrue
    <3>2. BecomesFree'
      <4>1. SUFFICES ASSUME NEW s \in Seats, seats'[s] # Free PROVE \E j \in Initialisers : Pending(j, s)'
        BY DEF BecomesFree, Free, Seat
      <4>2. seats[s] # Free /\ (~ Fills \/ s # SeatOrder[Total + 2 - n])
        <5>1. CASE Fills
          <6>1. SeatOrder[Total + 2 - n] \in Seats
            BY <5>1, FillFacts
          <6>2. QED
            BY <1>5, <4>1, <5>1, <6>1
        <5>2. CASE Uncounts \/ Counts
          <6>1. seats' = seats /\ n \notin 2..(Total + 1)
            BY <1>3, <5>2
          <6>2. QED
            BY <4>1, <6>1
        <5>3. QED
          BY <1>2, <2>3, <5>1, <5>2
      <4>3. PICK j \in Initialisers : Pending(j, s)
        BY <3>1, <4>2 DEF BecomesFree
      <4>4. Pending(j, s)'
        BY <1>2, <1>3, <1>7, <4>2, <4>3
      <4>5. QED
        BY <4>4
    <3>3. CASE AnyActive'
      BY <3>2, <3>3
    <3>4. CASE ~ AnyActive'
      <4>1. n = 1
        <5>1. Left(i)' = 0
          BY <1>2, <1>3, <3>4 DEF AnyActive
        <5>2. QED
          BY <1>2, <5>1
      <4>2. Counts
        BY <1>2, <1>3, <4>1
      <4>3. \A s \in Seats : seats'[s] = Free
        BY <3>2, <3>4 DEF BecomesFree, Pending, AnyActive, Free, Seat
      <4>4. AvailableSeats' = Seats
        BY <4>3 DEF AvailableSeats, Free, Seat
      <4>5. Shortfall' = 0
        BY <1>3, <4>2, <4>4, OrderFacts DEF Shortfall
      <4>6. QED
        BY <3>4, <4>5 DEF Untouched, AnyActive
    <3>5. QED
      BY <3>3, <3>4
  <2>4. QED
    BY <2>2, <2>3
<1>15. QED
  BY <1>2, <1>9, <1>12, <1>13, <1>14 DEF StoreInv

(* A step that leaves the tasks alone.                                     *)
LEMMA TasksStay ==
  ASSUME TasksFit, task' = task
  PROVE  TasksFit'
<1>1. task' \in [Initialisers -> TaskRecord]
  BY DEF TasksFit
<1>2. \A j \in Initialisers : Left(j)' = Left(j) /\ (Active(j)' <=> Active(j))
  BY DEF Left, Active
<1>3. \A j \in Initialisers :
         /\ Left(j)' \in 0..(Total + 3) /\ task'[j].commands = Remaining(Left(j)')
         /\ Active(j)' <=> Left(j)' > 0
  BY <1>2 DEF TasksFit
<1>4. \A j \in Initialisers :
         /\ Left(j)' \in 0..(Total + 3) /\ task'[j].commands = Remaining(Left(j))'
         /\ Active(j)' <=> Left(j)' > 0
  BY <1>3 DEF Remaining, CommandAt, Total
<1>5. QED
  BY <1>1, <1>4 DEF TasksFit

(* Commands that are sent again: all seats will be filled in, over what is *)
(* there, and the counter set to them.                                     *)
LEMMA ResentKeeps ==
  ASSUME StoreInv, NEW i \in Initialisers, PipelineResent(i)
  PROVE  StoreInv'
<1>1. StoreTypeOK /\ TasksFit /\ FillsMissingOnly /\ CounterBecomesTrue /\ TypeOK
  BY DEF StoreInv, StoreTypeOK
<1>2. /\ TasksFit' /\ Left(i)' \in {Total + 1, Total + 3}
      /\ SentAgain(i)' \/ Left(i)' = Total + 3
      /\ \A j \in Initialisers \ {i} : Left(j)' = Left(j) /\ (SentAgain(j)' <=> SentAgain(j))
  BY <1>1, ResentEffect
<1>3. UNCHANGED << seats, available, now, losses, raced, maimed, early >>
  BY DEF PipelineResent, store, historyVars
<1>4. Total \in Nat /\ \A s \in Seats : Pending(i, s)'
  BY <1>2, PendingAfter, FillFacts, OrderFacts
<1>5. StoreTypeOK'
  <2>1. TypeOK'
    BY <1>1, <1>3 DEF TypeOK
  <2>2. QED
    BY <1>1, <1>2, <1>3, <2>1 DEF StoreTypeOK, TasksFit, TaskRecord, CommandSet
<1>6. FillsMissingOnly'
  <2>1. SUFFICES ASSUME NEW j \in Initialisers, j \notin raced, Active(j)', ~ SentAgain(j)', Left(j)' <= (Total + 2),
                        NEW s \in Seats, Pending(j, s)'
                 PROVE  seats[s] = Missing
    BY <1>3 DEF FillsMissingOnly, Total, Missing, Seat
  <2>2. j # i
    BY <1>2, <1>4, <2>1
  <2>3. Active(j) /\ Pending(j, s) /\ Left(j) <= Total + 2 /\ ~ SentAgain(j)
    BY <1>1, <1>2, <2>1, <2>2, PendingFacts, PendingAfter
  <2>4. QED
    BY <1>1, <2>1, <2>3 DEF FillsMissingOnly
<1>7. BecomesComplete'
  <2>1. MissingIsPending'
    BY <1>4 DEF MissingIsPending
  <2>2. QED
    BY <2>1 DEF BecomesComplete
<1>8. CounterBecomesTrue'
  <2>1. BecomesFree'
    BY <1>4 DEF BecomesFree
  <2>2. Active(i)'
    BY <1>2, <1>4, PendingAfter
  <2>3. AnyActive'
    BY <2>2 DEF AnyActive
  <2>4. QED
    BY <2>1, <2>3 DEF CounterBecomesTrue
<1>9. QED
  BY <1>2, <1>5, <1>6, <1>7, <1>8 DEF StoreInv

(* A call that is answered had nothing left to do.                         *)
LEMMA AnsweredKeeps ==
  ASSUME StoreInv, NEW i \in Initialisers, PipelineAnswered(i)
  PROVE  StoreInv'
<1>1. StoreTypeOK /\ TasksFit /\ FillsMissingOnly /\ BecomesComplete /\ CounterBecomesTrue /\ TypeOK
  BY DEF StoreInv, StoreTypeOK
<1>2. /\ TasksFit' /\ Left(i)' = 0
      /\ \A j \in Initialisers \ {i} : Left(j)' = Left(j) /\ (SentAgain(j)' <=> SentAgain(j))
  BY <1>1, OverMoves DEF PipelineAnswered
<1>3. UNCHANGED << seats, available, now, losses, raced, maimed, early >>
  BY DEF PipelineAnswered, store, historyVars
<1>4. ~ Active(i)
  BY DEF PipelineAnswered, Active
<1>5. Left(i) = 0 /\ Total \in Nat
  BY <1>1, <1>4, PendingFacts, OrderFacts
<1>6. \A j \in Initialisers : /\ Left(j)' = Left(j) /\ (Active(j)' <=> Active(j))
                              /\ \A s \in Seats : Pending(j, s)' <=> Pending(j, s)
  BY <1>1, <1>2, <1>5, PendingFacts, PendingAfter
<1>7. AnyActive' <=> AnyActive
  BY <1>6 DEF AnyActive
<1>8. StoreTypeOK'
  <2>1. TypeOK'
    BY <1>1, <1>3 DEF TypeOK
  <2>2. QED
    BY <1>1, <1>2, <1>3, <2>1 DEF StoreTypeOK, TasksFit, TaskRecord, CommandSet
<1>9. FillsMissingOnly'
  <2>1. SUFFICES ASSUME NEW j \in Initialisers, j \notin raced, Active(j), ~ SentAgain(j)', Left(j) <= (Total + 2),
                        NEW s \in Seats, Pending(j, s)
                 PROVE  seats[s] = Missing
    BY <1>3, <1>6 DEF FillsMissingOnly, Total, Missing, Seat
  <2>2. QED
    BY <1>1, <1>2, <1>4, <2>1 DEF FillsMissingOnly
<1>10. BecomesComplete'
  BY <1>1, <1>3, <1>6, <1>7 DEF BecomesComplete, MissingIsPending, NoHash, Missing, Seat
<1>11. CounterBecomesTrue'
  <2>1. Untouched => Untouched'
    BY <1>3, <1>6 DEF Untouched, Shortfall, AvailableSeats, Total
  <2>2. BecomesFree => BecomesFree'
    BY <1>3, <1>6 DEF BecomesFree, Free, Seat
  <2>3. QED
    BY <1>1, <1>3, <1>7, <2>1, <2>2 DEF CounterBecomesTrue
<1>12. QED
  BY <1>2, <1>8, <1>9, <1>10, <1>11 DEF StoreInv

(* A key that is lost: a call that is at work may leave a hash behind that *)
(* is not complete, otherwise there is none or it stays as it was.         *)
LEMMA LossKeeps ==
  ASSUME StoreInv, Loss, task' = task, seats' \in {seats, HashGone}, available' \in {0, available}
  PROVE  StoreInv'
<1>1. StoreTypeOK /\ TasksFit /\ FillsMissingOnly /\ BecomesComplete /\ CounterBecomesTrue /\ TypeOK
  BY DEF StoreInv, StoreTypeOK
<1>2. /\ losses < MaxLosses /\ losses' = losses + 1 /\ maimed' = (maimed \/ AnyActive)
      /\ UNCHANGED << now, raced, early >>
  BY DEF Loss
<1>3. StoreTypeOK'
  <2>1. TypeOK'
    BY <1>1, <1>2 DEF TypeOK, HashGone, SeatData
  <2>2. maimed' \in BOOLEAN
    BY <1>2
  <2>3. losses' \in 0..MaxLosses
    BY <1>1, <1>2, ScreenAssumption DEF StoreTypeOK
  <2>4. QED
    BY <1>1, <1>2, <2>1, <2>2, <2>3 DEF StoreTypeOK
<1>4. TasksFit'
  BY <1>1, TasksStay
<1>5. \A j \in Initialisers : /\ Left(j)' = Left(j) /\ (Active(j)' <=> Active(j))
                              /\ \A s \in Seats : Pending(j, s)' <=> Pending(j, s)
  <2>1. \A j \in Initialisers : Left(j)' = Left(j) /\ (Active(j)' <=> Active(j))
    BY DEF Left, Active
  <2>2. QED
    BY <1>1, <1>4, <2>1, PendingFacts, PendingAfter
<1>6. AnyActive' <=> AnyActive
  BY <1>5 DEF AnyActive
<1>7. FillsMissingOnly'
  <2>1. SUFFICES ASSUME NEW j \in Initialisers, j \notin raced, Active(j), ~ SentAgain(j), Left(j) <= (Total + 2),
                        NEW s \in Seats, Pending(j, s)
                 PROVE  seats'[s] = Missing
    BY <1>2, <1>5 DEF FillsMissingOnly, SentAgain, Total, Missing, Seat
  <2>2. seats[s] = Missing
    BY <1>1, <2>1 DEF FillsMissingOnly
  <2>3. QED
    BY <2>1, <2>2 DEF HashGone
<1>8. BecomesComplete'
  <2>1. CASE maimed \/ AnyActive
    BY <1>2, <2>1 DEF BecomesComplete
  <2>2. CASE ~ maimed /\ ~ AnyActive
    <3>1. CASE seats' = HashGone
      <4>1. NoHash'
        BY <3>1 DEF NoHash, HashGone, Missing, Seat
      <4>2. QED
        BY <1>6, <2>2, <4>1 DEF BecomesComplete
    <3>2. CASE seats' = seats /\ NoHash
      <4>1. NoHash'
        BY <3>2 DEF NoHash, Missing, Seat
      <4>2. QED
        BY <1>6, <2>2, <4>1 DEF BecomesComplete
    <3>3. CASE seats' = seats /\ MissingIsPending
      <4>1. MissingIsPending'
        BY <1>5, <3>3 DEF MissingIsPending, Missing, Seat
      <4>2. QED
        BY <4>1 DEF BecomesComplete
    <3>4. QED
      BY <1>1, <2>2, <3>1, <3>2, <3>3 DEF BecomesComplete
  <2>3. QED
    BY <2>1, <2>2
<1>9. CounterBecomesTrue'
  <2>1. losses' # 0
    BY <1>1, <1>2, ScreenAssumption DEF StoreTypeOK
  <2>2. QED
    BY <2>1 DEF CounterBecomesTrue
<1>10. QED
  BY <1>3, <1>4, <1>7, <1>8, <1>9 DEF StoreInv

(* A pipeline that breaks leaves a call over: the hash may stay without    *)
(* some of its seats.                                                      *)
LEMMA BrokenKeeps ==
  ASSUME StoreInv, NEW i \in Initialisers, PipelineBroken(i)
  PROVE  StoreInv'
<1>1. StoreTypeOK /\ TasksFit /\ FillsMissingOnly /\ TypeOK
  BY DEF StoreInv, StoreTypeOK
<1>2. /\ losses < MaxLosses /\ losses' = losses + 1 /\ maimed' = (maimed \/ AnyActive)
      /\ UNCHANGED << now, raced, early, seats, available >> /\ Active(i)
      /\ task' = [task EXCEPT ![i] = Over]
  BY DEF PipelineBroken, Loss, store
<1>3. /\ TasksFit' /\ Left(i)' = 0
      /\ \A j \in Initialisers \ {i} : Left(j)' = Left(j) /\ (SentAgain(j)' <=> SentAgain(j))
  BY <1>1, <1>2, OverMoves
<1>4. maimed' = TRUE
  BY <1>2 DEF AnyActive
<1>5. StoreTypeOK'
  <2>1. TypeOK'
    BY <1>1, <1>2 DEF TypeOK
  <2>2. losses' \in 0..MaxLosses
    BY <1>1, <1>2, ScreenAssumption DEF StoreTypeOK
  <2>3. maimed' \in BOOLEAN
    BY <1>4, Zenon
  <2>4. QED
    BY <1>1, <1>2, <1>3, <2>1, <2>2, <2>3 DEF StoreTypeOK, TasksFit, TaskRecord, CommandSet
<1>6. FillsMissingOnly'
  <2>1. /\ \A j \in Initialisers : Active(j)' => Active(j) /\ Left(j)' = Left(j) /\ (SentAgain(j)' <=> SentAgain(j))
        /\ \A j \in Initialisers, s \in Seats : Pending(j, s)' => Pending(j, s)
    <3>1. \A j \in Initialisers : Active(j)' => j # i
      BY <1>3, PendingAfter, OrderFacts
    <3>2. \A j \in Initialisers, s \in Seats : Pending(j, s)' => Active(j)'
      BY DEF Pending
    <3>3. QED
      BY <1>1, <1>3, <3>1, <3>2, PendingFacts, PendingAfter
  <2>2. QED
    BY <1>1, <1>2, <2>1 DEF FillsMissingOnly, Total, Missing, Seat
<1>7. BecomesComplete'
  BY <1>4 DEF BecomesComplete
<1>8. CounterBecomesTrue'
  <2>1. losses' # 0
    BY <1>1, <1>2, ScreenAssumption DEF StoreTypeOK
  <2>2. QED
    BY <2>1 DEF CounterBecomesTrue
<1>9. QED
  BY <1>3, <1>5, <1>6, <1>7, <1>8 DEF StoreInv

(* The script of a client, the clock, or nothing.                          *)
LEMMA ClientKeeps ==
  ASSUME StoreInv, [Next]_vars, UNCHANGED << task, losses, raced, maimed >>,
         early' = (early \/ (AnyActive /\ seats' # seats))
  PROVE  StoreInv'
<1>1. StoreTypeOK /\ TasksFit /\ FillsMissingOnly /\ BecomesComplete /\ CounterBecomesTrue /\ TypeOK
  BY DEF StoreInv, StoreTypeOK
<1>2. TypeOK'
  BY <1>1, TypeStep
<1>3. StoreTypeOK'
  <2>1. early' \in BOOLEAN
    BY DEF AnyActive
  <2>2. QED
    BY <1>1, <1>2, <2>1 DEF StoreTypeOK
<1>4. TasksFit'
  BY <1>1, TasksStay
<1>5. \A j \in Initialisers : /\ Left(j)' = Left(j) /\ (Active(j)' <=> Active(j))
                              /\ \A s \in Seats : Pending(j, s)' <=> Pending(j, s)
  <2>1. \A j \in Initialisers : Left(j)' = Left(j) /\ (Active(j)' <=> Active(j))
    BY DEF Left, Active
  <2>2. QED
    BY <1>1, <1>4, <2>1, PendingFacts, PendingAfter
<1>6. AnyActive' <=> AnyActive
  BY <1>5 DEF AnyActive
<1>7. \A s \in Seats : seats'[s] = Missing <=> seats[s] = Missing
  BY <1>1, ClientsKeepSeats DEF vars
<1>8. MissingIsPending => MissingIsPending'
  BY <1>5, <1>7 DEF MissingIsPending, Missing, Seat
<1>9. FillsMissingOnly'
  <2>1. SUFFICES ASSUME NEW j \in Initialisers, j \notin raced, Active(j), ~ SentAgain(j), Left(j) <= (Total + 2),
                        NEW s \in Seats, Pending(j, s)
                 PROVE  seats'[s] = Missing
    BY <1>5 DEF FillsMissingOnly, SentAgain, Total, Missing, Seat
  <2>2. seats[s] = Missing
    BY <1>1, <2>1 DEF FillsMissingOnly
  <2>3. QED
    BY <1>7, <2>1, <2>2
<1>10. BecomesComplete'
  <2>1. NoHash => NoHash'
    BY <1>7 DEF NoHash, Missing, Seat
  <2>2. QED
    BY <1>1, <1>6, <1>8, <2>1 DEF BecomesComplete
<1>11. CounterBecomesTrue'
  <2>1. SUFFICES ASSUME losses = 0, ~ early, ~ (AnyActive /\ seats' # seats)
                 PROVE  Untouched' \/ (AnyActive /\ BecomesFree)'
    BY DEF CounterBecomesTrue
  <2>2. CASE Untouched
    <3>1. Shortfall \in Int /\ Shortfall' \in Int
      <4>1. Cardinality(AvailableSeats') \in Nat /\ available' \in Int
        BY <1>2, SeatSetsFinite DEF AvailableSeats, TypeOK
      <4>2. QED
        BY <1>1, <4>1, ShortfallType DEF Shortfall
    <3>2. Shortfall' >= Shortfall
      BY <1>1, <1>2, <3>1, ShortfallStep
    <3>3. QED
      BY <1>5, <2>2, <3>1, <3>2 DEF Untouched, Total
  <2>3. CASE AnyActive /\ BecomesFree
    <3>1. seats' = seats
      BY <2>1, <2>3
    <3>2. BecomesFree'
      BY <1>5, <2>3, <3>1 DEF BecomesFree, Free, Seat
    <3>3. QED
      BY <1>6, <2>3, <3>2
  <2>4. QED
    BY <1>1, <2>1, <2>2, <2>3 DEF CounterBecomesTrue
<1>12. QED
  BY <1>3, <1>4, <1>9, <1>10, <1>11 DEF StoreInv

(* Every step keeps the invariant.                                         *)
LEMMA StoreInvStep == StoreInv /\ [StoreNext]_storeVars => StoreInv'
<1>1. SUFFICES ASSUME StoreInv, [StoreNext]_storeVars PROVE StoreInv'
  OBVIOUS
<1>2. ASSUME NEW i \in Initialisers, NEW overwrite \in Overwrites, InitializeShowtime(i, overwrite)
      PROVE  StoreInv'
  BY <1>1, <1>2, BeginKeeps
<1>3. ASSUME NEW i \in Initialisers, PipelineCommand(i) \/ PipelineBroken(i) PROVE StoreInv'
  BY <1>1, <1>3, CommandKeeps, BrokenKeeps
<1>8. ASSUME NEW i \in Initialisers, PipelineAnswered(i) \/ PipelineResent(i) PROVE StoreInv'
  BY <1>1, <1>8, AnsweredKeeps, ResentKeeps
<1>4. CASE DeleteShowtime \/ HashDropped \/ CounterDropped
  BY <1>1, <1>4, LossKeeps DEF DeleteShowtime, HashDropped, CounterDropped
<1>5. CASE ClientStep
  BY <1>1, <1>5, ClientKeeps DEF ClientStep
<1>6. CASE UNCHANGED storeVars
  <2>1. /\ UNCHANGED vars /\ UNCHANGED << task, losses, raced, maimed >> /\ early' = early /\ seats' = seats
    BY <1>6 DEF storeVars, vars, historyVars
  <2>2. early' = (early \/ (AnyActive /\ seats' # seats))
    <3>1. early \in BOOLEAN
      BY <1>1 DEF StoreInv, StoreTypeOK
    <3>2. QED
      BY <2>1, <3>1
  <2>3. QED
    BY <1>1, <2>1, <2>2, ClientKeeps
<1>7. QED
  BY <1>1, <1>2, <1>3, <1>4, <1>5, <1>6, <1>8 DEF StoreNext

(* The invariant holds in every reachable state.                           *)
LEMMA StoreInvHolds == StoreSpec => []StoreInv
BY StoreInvInit, StoreInvStep, PTL DEF StoreSpec

(***************************************************************************)
(* The theorems                                                            *)
(***************************************************************************)

(* The keys of a showtime and the calls that fill them keep their types.   *)
THEOREM StoreTypeCorrect == StoreSpec => []StoreTypeOK
<1>1. StoreInv => StoreTypeOK
  BY DEF StoreInv
<1>2. QED
  BY <1>1, StoreInvHolds, PTL

(* A hash that is there and not being filled in has every seat, unless a   *)
(* loss met an initialisation at work and no overwrite came since: so      *)
(* initializeShowtime may take a hash that exists for a complete one.      *)
THEOREM HashComplete == StoreSpec => []CompleteUnlessMaimed
<1>1. ASSUME StoreInv PROVE CompleteUnlessMaimed
  <2>1. SUFFICES ASSUME ~ maimed, ~ AnyActive, ~ NoHash, NEW s \in Seats, seats[s] = Missing PROVE FALSE
    BY DEF CompleteUnlessMaimed
  <2>2. MissingIsPending
    BY <1>1, <2>1 DEF StoreInv, BecomesComplete
  <2>3. PICK i \in Initialisers : Pending(i, s)
    BY <2>1, <2>2 DEF MissingIsPending
  <2>4. QED
    BY <2>1, <2>3 DEF Pending, AnyActive
<1>2. QED
  BY <1>1, StoreInvHolds, PTL

(* A client can ask for every seat that is offered, and a complete hash    *)
(* offers what the screen has, whatever its layout up to 26 rows.          *)
THEOREM OfferedSeatsAreTheScreens == StoreSpec => []SeatsCanBeAskedFor
<1>1. ASSUME CompleteUnlessMaimed PROVE SeatsCanBeAskedFor
  <2>1. ASSUME ~ maimed, ~ AnyActive PROVE NoHash \/ OfferedSeats = SeatsOfScreen
    BY <1>1, <2>1, SeatsAreTheScreens DEF CompleteUnlessMaimed, OfferedSeats
  <2>2. QED BY <2>1, SeatsAreTheScreens DEF SeatsCanBeAskedFor, OfferedSeats
<1>2. QED BY <1>1, HashComplete, PTL

(* However initialisations overlap, the counter offers a seat too many     *)
(* once they are over only after a key was lost or a client changed seats  *)
(* while one was at work.                                                  *)
THEOREM OvercountsNeedARace == StoreSpec => []OvercountsOnlyAfterARace
<1>1. ASSUME StoreInv PROVE OvercountsOnlyAfterARace
  <2>1. SUFFICES ASSUME losses = 0, ~ early, ~ AnyActive PROVE CounterNeverOvercounts
    BY DEF OvercountsOnlyAfterARace
  <2>2. Shortfall >= 0
    BY <1>1, <2>1 DEF StoreInv, CounterBecomesTrue, Untouched
  <2>3. available \in Int /\ Cardinality(AvailableSeats) \in Nat
    BY <1>1, SeatSetsFinite DEF StoreInv, StoreTypeOK, TypeOK, AvailableSeats
  <2>4. QED
    BY <2>2, <2>3 DEF Shortfall, CounterNeverOvercounts
<1>2. QED
  BY <1>1, StoreInvHolds, PTL

(* A seat of a live hold or a sale leaves its booking only when the        *)
(* booking releases it, the whole hash goes, or a command of a call fills  *)
(* it in that another initialisation has overtaken, or that did not begin  *)
(* by deleting and was sent again.                                         *)
THEOREM SeatsStayTaken == StoreSpec => TakenSeatsKept
<1> DEFINE
      Lost == seats' = HashGone /\ (losses' # losses \/ \E i \in Initialisers : Overwriting(i) /\ PipelineCommand(i))
      Overtaken == \E i \in Initialisers : (i \in raced \/ SentAgain(i)) /\ PipelineCommand(i)
      Kept == \A s \in Seats : Taken(s) => KeptOrReleased(s) \/ Lost \/ Overtaken
<1>1. ASSUME StoreInv, [StoreNext]_storeVars PROVE Kept \/ UNCHANGED storeVars
  <2>1. TypeOK /\ TasksFit /\ FillsMissingOnly /\ maimed \in BOOLEAN
    BY <1>1 DEF StoreInv, StoreTypeOK
  <2>2. ASSUME NEW s \in Seats, Taken(s)
        PROVE  /\ seats[s].status \in {"held", "booked"} /\ seats[s] # Missing
               /\ seats'[s] = seats[s] => KeptOrReleased(s)
    BY <2>2 DEF Taken, Missing, Seat, KeptOrReleased
  <2>3. ASSUME NEW i \in Initialisers, NEW overwrite \in Overwrites, InitializeShowtime(i, overwrite)
        PROVE  Kept
    <3>1. seats' = seats
      BY <2>3 DEF InitializeShowtime, store
    <3>2. QED
      BY <2>2, <3>1
  <2>4. ASSUME NEW i \in Initialisers, PipelineCommand(i) PROVE Kept
    <3>1. CASE Overwriting(i) /\ seats' = HashGone
      BY <2>4, <3>1
    <3>2. CASE seats' = seats
      BY <2>2, <3>2
    <3>3. CASE Left(i) \in 2..(Total + 1) /\ seats' = [seats EXCEPT ![SeatOrder[Total + 2 - Left(i)]] = Free]
      <4>1. CASE i \in raced \/ SentAgain(i)
        BY <2>4, <4>1
      <4>2. CASE i \notin raced /\ ~ SentAgain(i)
        <5> DEFINE filled == SeatOrder[Total + 2 - Left(i)]
        <5>1. filled \in Seats /\ FillsLater(Left(i), filled) /\ Left(i) <= Total + 2 /\ Total \in Nat
          <6>1. Total \in Nat
            BY OrderFacts
          <6>2. Left(i) <= Total + 2
            BY <3>3, <6>1
          <6>3. QED
            BY <3>3, <6>1, <6>2, FillFacts
        <5>2. Active(i) /\ Pending(i, filled)
          BY <2>1, <3>3, <5>1, PendingFacts
        <5>3. seats[filled] = Missing
          BY <2>1, <4>2, <5>1, <5>2 DEF FillsMissingOnly
        <5>4. \A s \in Seats : Taken(s) => seats'[s] = seats[s]
          BY <2>1, <2>2, <3>3, <5>1, <5>3 DEF TypeOK
        <5>5. QED
          BY <2>2, <5>4
      <4>3. QED
        BY <4>1, <4>2
    <3>4. QED
      BY <2>1, <2>4, <3>1, <3>2, <3>3, CommandEffect
  <2>5. CASE \E i \in Initialisers : PipelineAnswered(i) \/ PipelineResent(i) \/ PipelineBroken(i)
    <3>1. seats' = seats
      BY <2>5 DEF PipelineAnswered, PipelineResent, PipelineBroken, store
    <3>2. QED
      BY <2>2, <3>1
  <2>6. CASE DeleteShowtime \/ HashDropped
    <3>1. losses' # losses
      BY <1>1, <2>6, ScreenAssumption DEF DeleteShowtime, HashDropped, Loss, StoreInv, StoreTypeOK
    <3>2. QED
      BY <2>6, <3>1 DEF DeleteShowtime, HashDropped
  <2>7. CASE CounterDropped
    <3>1. seats' = seats
      BY <2>7 DEF CounterDropped
    <3>2. QED
      BY <2>2, <3>1
  <2>8. CASE ClientStep
    BY <2>1, <2>8, ClientsKeepSeats DEF ClientStep
  <2>9. QED
    BY <1>1, <2>3, <2>4, <2>5, <2>6, <2>7, <2>8 DEF StoreNext
<1>2. StoreInv /\ [StoreNext]_storeVars =>
        [\A s \in Seats : Taken(s) =>
            \/ seats'[s].status \in {"held", "booked"} /\ seats'[s].booking_id = seats[s].booking_id
            \/ \E list \in SeatLists : s \in Range(list) /\ ReleaseSeats(seats[s].booking_id, list)
            \/ Lost
            \/ Overtaken]_storeVars
  BY <1>1 DEF KeptOrReleased
<1>3. QED
  BY <1>2, StoreInvHolds, PTL DEF StoreSpec, TakenSeatsKept
================================================================================
