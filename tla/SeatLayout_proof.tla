---------------------------- MODULE SeatLayout_proof ----------------------------
(***************************************************************************)
(* What generateSeatsMap makes of a layout, whatever its size: the seats   *)
(* of the grid that are not marked as unavailable, each of them once.      *)
(* The induction on the turns of its loop is carried out over sets of      *)
(* numbers.                                                                *)
(***************************************************************************)
EXTENDS SeatLayout, Functions, WellFoundedInduction, TLAPS

(***************************************************************************)
(* Numbers                                                                 *)
(***************************************************************************)
(* Induction: a set that has 0, and with each number the next, has all.    *)
LEMMA CountingUp ==
  ASSUME NEW T, 0 \in T, \A n \in Nat : n \in T => n + 1 \in T
  PROVE  Nat \subseteq T
<1>1. SUFFICES ASSUME Nat \ T # {} PROVE FALSE
  OBVIOUS
<1> DEFINE Less == {ss \in Nat \X Nat : ss[1] < ss[2]}
<1>2. IsWellFoundedOn(Less, Nat) BY NatLessThanWellFounded DEF OpToRel
<1>3. PICK m \in Nat \ T : \A k \in Nat \ T : ~ (<< k, m >> \in Less)
  <2>1. Nat \ T \subseteq Nat OBVIOUS
  <2> HIDE DEF Less
  <2>2. QED BY <1>1, <1>2, <2>1, WFMin
<1>4. m # 0 /\ m - 1 \in Nat /\ << m - 1, m >> \in Less BY <1>3
<1>5. m - 1 \in T BY <1>3, <1>4
<1>6. (m - 1) + 1 \in T BY <1>4, <1>5
<1>7. QED BY <1>3, <1>6

(* Row and column of a position are quotient and remainder.                *)
LEMMA RowAndColumn ==
  ASSUME NEW c \in Nat \ {0}, NEW n \in Nat
  PROVE  /\ n \div c \in Nat /\ n % c \in 0..(c - 1)
         /\ n = c * (n \div c) + (n % c)
OBVIOUS

(* And every row and column have a position.                               *)
LEMMA PositionOf ==
  ASSUME NEW c \in Nat \ {0}, NEW q \in Nat, NEW r \in 0..(c - 1)
  PROVE  /\ (c * q + r) \div c = q /\ (c * q + r) % c = r
OBVIOUS

(***************************************************************************)
(* The loop                                                                *)
(***************************************************************************)
Turn(layout, seatsMap, n) ==
  IF n = 0 THEN << >> ELSE SetSeat(layout, seatsMap[n - 1], SeatAt(layout, n))

(* The loop can be run for any number of turns, so the function that       *)
(* records its map after each turn exists.                                 *)
LEMMA LoopExists ==
  ASSUME NEW layout, NEW turns \in Nat
  PROVE  \E seatsMap : seatsMap = [n \in 0..turns |-> Turn(layout, seatsMap, n)]
<1> DEFINE T == {m \in Nat : \E g : g = [n \in 0..m |-> Turn(layout, g, n)]}
<1>1. 0 \in T
  <2>1. [n \in 0..0 |-> << >>] = [n \in 0..0 |-> Turn(layout, [i \in 0..0 |-> << >>], n)] BY DEF Turn
  <2>2. QED BY <2>1
<1>2. ASSUME NEW m \in Nat, m \in T PROVE m + 1 \in T
  <2>1. PICK g : g = [n \in 0..m |-> Turn(layout, g, n)] BY <1>2
  <2> DEFINE h == [n \in 0..(m + 1) |-> IF n = m + 1 THEN Turn(layout, g, n) ELSE g[n]]
  <2>2. \A n \in 0..(m + 1) : n # 0 => n - 1 \in 0..m /\ h[n - 1] = g[n - 1] OBVIOUS
  <2>3. \A n \in 0..(m + 1) : Turn(layout, h, n) = Turn(layout, g, n) BY <2>2 DEF Turn
  <2>4. \A n \in 0..m : g[n] = Turn(layout, g, n) BY <2>1
  <2>5. \A n \in 0..(m + 1) : h[n] = Turn(layout, g, n) BY <2>4
  <2>6. h = [n \in 0..(m + 1) |-> Turn(layout, h, n)]
    <3> HIDE DEF h
    <3>1. QED BY <2>3, <2>5 DEF h
  <2> HIDE DEF h
  <2>7. \E g2 : g2 = [n \in 0..(m + 1) |-> Turn(layout, g2, n)] BY <2>6
  <2>8. QED BY <2>7
<1>3. QED BY <1>1, <1>2, CountingUp

(* generateSeatsMap is the map after the last turn.                        *)
LEMMA GenerateSeatsMapRuns ==
  ASSUME NEW layout, NEW turns, turns = layout.rows * layout.cols, turns \in Nat
  PROVE  \E seatsMap : /\ seatsMap = [n \in 0..turns |-> Turn(layout, seatsMap, n)]
                       /\ GenerateSeatsMap(layout) = seatsMap[turns]
<1> DEFINE made == CHOOSE seatsMap : seatsMap = [n \in 0..turns |-> Turn(layout, seatsMap, n)]
<1>1. GenerateSeatsMap(layout) = made[turns] BY DEF GenerateSeatsMap, Turn
<1>2. made = [n \in 0..turns |-> Turn(layout, made, n)] BY LoopExists
<1>3. QED BY <1>1, <1>2

(***************************************************************************)
(* The seats it makes                                                      *)
(***************************************************************************)
Grid(layout) == [letter: 65..(64 + layout.rows), number: 1..layout.cols]
GridAvailable(layout) == {id \in Grid(layout) : id \notin layout.unavailable}

(* The turns go through the grid: each seat of it comes up, and at one     *)
(* turn only.                                                              *)
LEMMA SeatAtFacts ==
  ASSUME NEW layout, layout.rows \in Nat, layout.cols \in Nat \ {0}
  PROVE  /\ layout.rows * layout.cols \in Nat
         /\ \A n \in 1..(layout.rows * layout.cols) : SeatAt(layout, n) \in Grid(layout)
         /\ \A n, m \in Nat \ {0} : SeatAt(layout, n) = SeatAt(layout, m) => n = m
         /\ \A id \in Grid(layout) :
              \E n \in 1..(layout.rows * layout.cols) : id = SeatAt(layout, n)
<1> DEFINE r == layout.rows
           c == layout.cols
<1>1. r * c \in Nat OBVIOUS
<1>2. \A n \in Nat \ {0} :
        /\ (n - 1) \div c \in Nat /\ (n - 1) % c \in 0..(c - 1)
        /\ n - 1 = c * ((n - 1) \div c) + ((n - 1) % c)
  <2>1. SUFFICES ASSUME NEW n \in Nat \ {0}
                 PROVE  /\ (n - 1) \div c \in Nat /\ (n - 1) % c \in 0..(c - 1)
                        /\ n - 1 = c * ((n - 1) \div c) + ((n - 1) % c)
    OBVIOUS
  <2>2. n - 1 \in Nat /\ c \in Nat \ {0} OBVIOUS
  <2> HIDE DEF c
  <2>3. QED BY ONLY <2>2, RowAndColumn
<1>3. ASSUME NEW n \in 1..(r * c) PROVE (n - 1) \div c \in 0..(r - 1)
  <2> DEFINE q == (n - 1) \div c
  <2>1. q \in Nat /\ c * q <= n - 1 /\ n - 1 < r * c BY <1>1, <1>2
  <2>2. SUFFICES ASSUME q >= r PROVE FALSE BY <2>1
  <2> HIDE DEF q
  <2>3. c * q >= c * r BY <2>1, <2>2
  <2>4. QED BY <1>1, <2>1, <2>3
<1>4. \A n \in 1..(r * c) : SeatAt(layout, n) \in Grid(layout)
  BY <1>1, <1>2, <1>3 DEF SeatAt, GenerateSeatId, Grid
<1>5. ASSUME NEW n \in Nat \ {0}, NEW m \in Nat \ {0}, SeatAt(layout, n) = SeatAt(layout, m)
      PROVE  n = m
  <2>1. (n - 1) \div c = (m - 1) \div c /\ (n - 1) % c = (m - 1) % c
    BY <1>2, <1>5 DEF SeatAt, GenerateSeatId
  <2>2. QED BY <1>2, <2>1
<1>6. ASSUME NEW id \in Grid(layout) PROVE \E n \in 1..(r * c) : id = SeatAt(layout, n)
  <2> DEFINE q == id.letter - 65
             k == id.number - 1
             n == c * q + k + 1
  <2>1. q \in 0..(r - 1) /\ k \in 0..(c - 1) BY DEF Grid
  <2>2. (n - 1) \div c = q /\ (n - 1) % c = k
    <3>1. q \in Nat /\ k \in 0..(c - 1) /\ c \in Nat \ {0} BY <2>1
    <3> HIDE DEF q, k, c
    <3>2. n - 1 = c * q + k BY <3>1
    <3> HIDE DEF n
    <3>3. QED BY ONLY <3>1, <3>2, PositionOf
  <2>3. n \in 1..(r * c)
    <3> HIDE DEF q, k
    <3>1. c * q <= c * (r - 1) /\ c * q \in Nat BY <2>1
    <3>2. c * (r - 1) = r * c - c OBVIOUS
    <3>3. QED BY <1>1, <2>1, <3>1, <3>2
  <2>4. id = [letter |-> 65 + q, number |-> 1 + k] BY DEF Grid
  <2>5. QED BY <2>2, <2>3, <2>4 DEF SeatAt, GenerateSeatId
<1>7. QED BY <1>1, <1>4, <1>5, <1>6

(* A seat that is appended to a list without it.                           *)
LEMMA AppendFacts ==
  ASSUME NEW S, NEW s \in Seq(S), IsInjective(s), NEW e \in S \ Range(s)
  PROVE  Append(s, e) \in Seq(S) /\ IsInjective(Append(s, e)) /\ Range(Append(s, e)) = Range(s) \cup {e}
<1>1. /\ Append(s, e) \in Seq(S) /\ Len(Append(s, e)) = Len(s) + 1
      /\ \A i \in 1..Len(s) : Append(s, e)[i] = s[i]
      /\ Append(s, e)[Len(s) + 1] = e
      /\ DOMAIN s = 1..Len(s) /\ DOMAIN Append(s, e) = 1..(Len(s) + 1)
  OBVIOUS
<1>2. IsInjective(Append(s, e)) BY <1>1 DEF IsInjective, Range
<1>3. Range(Append(s, e)) = Range(s) \cup {e} BY <1>1 DEF Range
<1>4. QED BY <1>1, <1>2, <1>3

(* For every layout generateSeatsMap makes the seats of the grid that are  *)
(* not marked as unavailable, no other, and none of them twice: so the     *)
(* document has as many seats as initializeShowtime counts.                *)
THEOREM EachSeatOnce ==
  ASSUME NEW layout, layout.rows \in Nat, layout.cols \in Nat \ {0}
  PROVE  /\ GenerateSeatsMap(layout) \in Seq(GridAvailable(layout))
         /\ IsInjective(GenerateSeatsMap(layout))
         /\ Range(GenerateSeatsMap(layout)) = GridAvailable(layout)
<1> DEFINE turns == layout.rows * layout.cols
           Before(n) == {SeatAt(layout, i) : i \in 1..n} \ layout.unavailable
<1>1. turns \in Nat BY SeatAtFacts
<1>2. PICK seatsMap : /\ seatsMap = [n \in 0..turns |-> Turn(layout, seatsMap, n)]
                      /\ GenerateSeatsMap(layout) = seatsMap[turns]
  BY <1>1, GenerateSeatsMapRuns
<1> DEFINE Right(n) == /\ seatsMap[n] \in Seq(GridAvailable(layout)) /\ IsInjective(seatsMap[n])
                       /\ Range(seatsMap[n]) = Before(n)
           T == {n \in Nat : n <= turns => Right(n)}
<1> HIDE DEF turns
<1>3. \A n \in 0..turns : seatsMap[n] = Turn(layout, seatsMap, n) BY <1>2
<1>4. 0 \in T
  <2>1. seatsMap[0] = << >> BY <1>1, <1>3 DEF Turn
  <2>2. Before(0) = {} OBVIOUS
  <2>3. << >> \in Seq(GridAvailable(layout)) /\ IsInjective(<< >>) /\ Range(<< >>) = {}
    BY DEF IsInjective, Range
  <2> HIDE DEF Before
  <2>4. QED BY <2>1, <2>2, <2>3
<1>5. ASSUME NEW n \in Nat, n \in T PROVE n + 1 \in T
  <2>1. SUFFICES ASSUME n + 1 <= turns PROVE Right(n + 1) OBVIOUS
  <2>2. Right(n) BY <1>1, <1>5, <2>1
  <2> DEFINE id == SeatAt(layout, n + 1)
  <2>3. seatsMap[n + 1] = SetSeat(layout, seatsMap[n], id)
    <3>1. n + 1 \in 0..turns /\ n + 1 # 0 /\ (n + 1) - 1 = n BY <1>1, <2>1
    <3>2. QED BY <1>3, <3>1 DEF Turn
  <2>4. id \in Grid(layout) BY <1>1, <2>1, SeatAtFacts DEF turns
  <2>5. \A i \in 1..n : SeatAt(layout, i) # id
    <3>1. \A i \in 1..n : i \in Nat \ {0} /\ n + 1 \in Nat \ {0} /\ i # n + 1 OBVIOUS
    <3>2. QED BY <3>1, SeatAtFacts
  <2>6. Before(n + 1) = Before(n) \cup ({id} \ layout.unavailable)
    <3>1. 1..(n + 1) = (1..n) \cup {n + 1} OBVIOUS
    <3>2. QED BY <3>1
  <2>7. CASE id \in layout.unavailable
    <3>1. seatsMap[n + 1] = seatsMap[n] BY <2>3, <2>7 DEF SetSeat
    <3>2. Before(n + 1) = Before(n) BY <2>6, <2>7
    <3>3. QED BY <2>2, <3>1, <3>2
  <2>8. CASE id \notin layout.unavailable
    <3>1. seatsMap[n + 1] = Append(seatsMap[n], id) BY <2>3, <2>8 DEF SetSeat
    <3>2. Before(n + 1) = Before(n) \cup {id} BY <2>6, <2>8
    <3>3. id \in GridAvailable(layout) \ Range(seatsMap[n]) BY <2>2, <2>4, <2>5, <2>8 DEF GridAvailable
    <3> HIDE DEF id, Before
    <3> DEFINE made == Append(seatsMap[n], id)
    <3>4. /\ made \in Seq(GridAvailable(layout)) /\ IsInjective(made)
          /\ Range(made) = Range(seatsMap[n]) \cup {id}
      BY <2>2, <3>3, AppendFacts
    <3> HIDE DEF made
    <3>5. seatsMap[n + 1] = made BY <3>1 DEF made
    <3>6. QED BY <2>2, <3>2, <3>4, <3>5
  <2>9. QED BY <2>7, <2>8
<1>6. Right(turns)
  <2> HIDE DEF Right
  <2>1. Nat \subseteq T BY <1>4, <1>5, CountingUp
  <2>2. QED BY <1>1, <2>1
<1>7. Before(turns) = GridAvailable(layout)
  BY SeatAtFacts DEF turns, GridAvailable
<1>8. QED BY <1>2, <1>6, <1>7
=================================================================================
