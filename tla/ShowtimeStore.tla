----------------------------- MODULE ShowtimeStore -----------------------------
(***************************************************************************)
(* How the two Redis keys of a showtime come and go while clients use      *)
(* them: ShowtimeService and SeatReservationService.initializeShowtime     *)
(* (from createShowtime, or again to overwrite, from syncShowtimeToRedis), *)
(* deleteShowtime, and Redis itself, which drops either key alone when its *)
(* TTL runs out or memory does (maxmemory-policy allkeys-lru).             *)
(*                                                                         *)
(* A pipeline is not a transaction: Redis runs other clients' scripts, and *)
(* other initialisations, between its commands.  And it may run twice:     *)
(* ioredis sends a pipeline that was not answered again, from its first    *)
(* command, when the connection breaks and comes back.                     *)
(***************************************************************************)
EXTENDS SeatReservation, SeatLayout

CONSTANTS
  Screen,        \* the layout of the showtime's screen
  Initialisers,  \* initializeShowtime calls
  Overwrites,    \* the values of `overwrite' that callers pass
  MaxResends,    \* bound on the times a call sends its commands again
  MaxLosses      \* bound on deletions, dropped keys and broken pipelines

(* The seats in the order of the showtime document, made by the seeder or, *)
(* from a list its caller made in the same way, by createShowtime.         *)
SeatOrder == GenerateSeatsMap(Screen)

(* cinema.schema.ts allows 50 rows; beyond the 26th the letters run out.   *)
ASSUME ScreenAssumption ==
  /\ Screen.rows \in 1..26 /\ Screen.cols \in 1..50
  /\ Range(SeatOrder) = Seats
  /\ Overwrites \subseteq BOOLEAN
  /\ MaxResends \in Nat /\ MaxLosses \in Nat

VARIABLES
  task,    \* of each initializeShowtime call: where it is, its commands not yet executed,
           \* its option `overwrite', how often its commands were sent again
  losses,  \* losses so far
  raced,   \* history: calls during which another call filled in a seat
  maimed,  \* history: a loss met an initialisation at work, and no overwrite came since
  early    \* history: clients changed seats during an initialisation

historyVars == << raced, maimed, early >>
storeVars == << seats, available, now, task, losses, historyVars >>

Command(op, seat) == [op |-> op, seat |-> seat]
NoSeat == NoBooking
HashGone == [s \in Seats |-> Missing]
NoHash == \A s \in Seats : seats[s] = Missing

TaskAt(pc, commands, overwrite, resent) ==
  [pc |-> pc, commands |-> commands, overwrite |-> overwrite, resent |-> resent]
Idle == TaskAt("idle", << >>, FALSE, 0)
Over == TaskAt("done", << >>, FALSE, 0)

(* At work: Redis has not executed all the commands.                       *)
Active(i) == task[i].pc \in {"send", "pipeline"}
AnyActive == \E i \in Initialisers : Active(i)

(***************************************************************************)
(* initializeShowtime: unless it may overwrite, it goes on only if the     *)
(* EXISTS it sent found no hash; when the answer is there it sends all its *)
(* commands at once.                                                       *)
(***************************************************************************)
AlwaysProceeds(overwrite) == TRUE
Proceeds(overwrite) == overwrite \/ NoHash

AllButFirst == [i \in 1..(Len(SeatOrder) - 1) |-> Command("hset", SeatOrder[i + 1])]
EachSeat == [i \in DOMAIN SeatOrder |-> Command("hset", SeatOrder[i])]

Fill == EachSeat \o << Command("setCounter", NoSeat) >>
OverwriteInPlace(overwrite) == Fill
Commands(overwrite) ==
  IF overwrite THEN << Command("delSeats", NoSeat), Command("delCounter", NoSeat) >> \o Fill ELSE Fill

InitializeShowtime(i, overwrite) ==
  /\ task[i].pc = "idle"
  /\ task' = [task EXCEPT ![i] =
       IF Proceeds(overwrite) THEN TaskAt("send", Commands(overwrite), overwrite, 0) ELSE Over]
  /\ UNCHANGED << store, now, losses, historyVars >>

(* Redis executes the next command.  A field that is set belongs to a seat *)
(* that is available, whatever it was.                                     *)
CounterAdded == available + Len(SeatOrder)
CounterSet == Len(SeatOrder)

PipelineCommand(i) ==
  LET c == Head(task[i].commands)
  IN  /\ Active(i)
      /\ seats' = CASE c.op = "delSeats" -> HashGone
                    [] c.op = "hset" -> [seats EXCEPT ![c.seat] = Free]
                    [] OTHER -> seats
      /\ available' = CASE c.op = "delCounter" -> 0
                        [] c.op = "setCounter" -> CounterSet
                        [] OTHER -> available
      /\ task' = [task EXCEPT ![i] =
           TaskAt(IF Len(@.commands) = 1 THEN "executed" ELSE "pipeline",
                  Tail(@.commands), @.overwrite, @.resent)]
      /\ raced' = IF c.op = "hset" THEN raced \cup {j \in Initialisers \ {i} : Active(j)} ELSE raced
      /\ maimed' = (maimed /\ c.op # "delSeats")
      /\ UNCHANGED << now, losses, early >>

(* The replies are in, or the client has given up waiting for them.        *)
PipelineAnswered(i) ==
  /\ task[i].pc = "executed"
  /\ task' = [task EXCEPT ![i] = Over]
  /\ UNCHANGED << store, now, losses, historyVars >>

(* The connection breaks before the first reply has come, and the client   *)
(* sends all the commands again on the next one.  Redis has executed some  *)
(* of them, perhaps all; when none, nothing has happened.                  *)
PipelineResent(i) ==
  /\ task[i].pc \in {"pipeline", "executed"} /\ task[i].resent < MaxResends
  /\ task' = [task EXCEPT ![i] = TaskAt("send", Commands(@.overwrite), @.overwrite, @.resent + 1)]
  /\ UNCHANGED << store, now, losses, historyVars >>

(***************************************************************************)
(* Losses                                                                  *)
(***************************************************************************)
Loss ==
  /\ losses < MaxLosses /\ losses' = losses + 1
  /\ maimed' = (maimed \/ AnyActive)
  /\ UNCHANGED << now, raced, early >>

(* deleteShowtime: one DEL of both keys.                                   *)
DeleteShowtime ==
  /\ Loss
  /\ seats' = HashGone /\ available' = 0
  /\ UNCHANGED task

(* Expiry or eviction of one key.                                          *)
HashDropped ==
  /\ Loss
  /\ seats' = HashGone
  /\ UNCHANGED << available, task >>

CounterDropped ==
  /\ Loss
  /\ available' = 0
  /\ UNCHANGED << seats, task >>

(* The rest of the commands is not executed: the server stops, or the      *)
(* connection breaks when the first reply has come (the client aborts the  *)
(* rest) or cannot be had again in time.  initializeShowtime takes no      *)
(* notice of the errors in what exec returns.                              *)
PipelineBroken(i) ==
  /\ Loss
  /\ Active(i)
  /\ task' = [task EXCEPT ![i] = Over]
  /\ UNCHANGED store

(***************************************************************************)
(* The showtime document exists from the start, so clients may send        *)
(* requests before the keys are there.                                     *)
(***************************************************************************)
StoreInit ==
  /\ seats = HashGone /\ available = 0 /\ now = 0
  /\ task = [i \in Initialisers |-> Idle]
  /\ losses = 0 /\ raced = {} /\ maimed = FALSE /\ early = FALSE

ClientStep ==
  /\ Next
  /\ early' = (early \/ (AnyActive /\ seats' # seats))
  /\ UNCHANGED << task, losses, raced, maimed >>

StoreNext ==
  \/ \E i \in Initialisers :
       \/ \E overwrite \in Overwrites : InitializeShowtime(i, overwrite)
       \/ PipelineCommand(i) \/ PipelineAnswered(i) \/ PipelineResent(i) \/ PipelineBroken(i)
  \/ DeleteShowtime
  \/ HashDropped
  \/ CounterDropped
  \/ ClientStep

StoreSpec == StoreInit /\ [][StoreNext]_storeVars

(***************************************************************************)
(* Properties                                                              *)
(***************************************************************************)
StoreTypeOK ==
  /\ TypeOK
  /\ task \in [Initialisers -> [pc: {"idle", "send", "pipeline", "executed", "done"},
                               commands: Seq([op: {"delSeats", "delCounter", "hset", "setCounter"},
                                              seat: Seats \cup {NoSeat}]),
                               overwrite: BOOLEAN, resent: 0..MaxResends]]
  /\ losses \in 0..MaxLosses /\ raced \subseteq Initialisers
  /\ maimed \in BOOLEAN /\ early \in BOOLEAN

(* A seat that a live hold or a sale took stays with its booking until the *)
(* booking releases it, or the whole hash goes: deleted, dropped, or       *)
(* overwritten by a call that was asked to (syncShowtimeToRedis does so to *)
(* sold seats as well).  Filling in a showtime takes a single seat from a  *)
(* client only when two initialisations overlapped, or when a call that    *)
(* does not begin by deleting sent its commands a second time, over the    *)
(* seats that were taken after the first: neither the wait between EXISTS  *)
(* and the pipeline nor one between its commands does.                     *)
Taken(s) ==
  \/ seats[s].status = "booked"
  \/ seats[s].status = "held" /\ seats[s].held_until > now
SentAgain(i) == task[i].resent > 0 /\ ~ task[i].overwrite
Overwriting(i) == Active(i) /\ Head(task[i].commands).op = "delSeats"
TakenSeatsKept ==
  [][\A s \in Seats : Taken(s) =>
       \/ seats'[s].status \in {"held", "booked"} /\ seats'[s].booking_id = seats[s].booking_id
       \/ \E list \in SeatLists : s \in Range(list) /\ ReleaseSeats(seats[s].booking_id, list)
       \/ seats' = HashGone /\ (losses' # losses \/ \E i \in Initialisers : Overwriting(i) /\ PipelineCommand(i))
       \/ \E i \in Initialisers : (i \in raced \/ SentAgain(i)) /\ PipelineCommand(i)
    ]_storeVars

(* A hash that is there and not being filled in has every seat, unless a   *)
(* loss met an initialisation at work; and then one overwrite that is left *)
(* alone repairs it.  initializeShowtime itself relies on it: it takes a   *)
(* hash that exists for a complete one.                                    *)
CompleteUnlessMaimed ==
  ~ maimed /\ ~ AnyActive => NoHash \/ \A s \in Seats : seats[s] # Missing

(* A client can ask for every seat Redis offers: HoldSeatsDto lets its id  *)
(* through.  And a complete hash offers all a screen has: the seats of the *)
(* grid, from the first letter to the last, that are not marked as         *)
(* unavailable.                                                            *)
OfferedSeats == {s \in Seats : seats[s] # Missing}
SeatsOfScreen ==
  {id \in [letter: 65..(64 + Screen.rows), number: 1..Screen.cols] : id \notin Screen.unavailable}
SeatsCanBeAskedFor ==
  /\ \A s \in OfferedSeats : MatchesSeatId(s)
  /\ ~ maimed /\ ~ AnyActive => NoHash \/ OfferedSeats = SeatsOfScreen

(* Once the initialisations are over the counter offers a seat too many    *)
(* only if a client changed seats while one was at work, or a key was      *)
(* lost: however the calls overlapped and whatever they sent again.        *)
OvercountsOnlyAfterARace ==
  losses = 0 /\ ~ early /\ ~ AnyActive => CounterNeverOvercounts
================================================================================
