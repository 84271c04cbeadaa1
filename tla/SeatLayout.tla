------------------------------- MODULE SeatLayout -------------------------------
(***************************************************************************)
(* The seats of a showtime as the seeder makes them from the layout of a   *)
(* screen: seeds/seeder.ts generateSeatsMap, against what HoldSeatsDto     *)
(* accepts as a seat id.  A seat id is the code of its letter followed by  *)
(* its number; a layout is a record of rows, cols and unavailable ids.     *)
(* The types of the seats decide their prices only and are left out.       *)
(***************************************************************************)
EXTENDS Integers, Sequences

(* String.fromCharCode(65 + rowIndex), rows counted from 0, columns from 1 *)
RowFromOne(row, col) == [letter |-> 65 + row + 1, number |-> col]
GenerateSeatId(row, col) == [letter |-> 65 + row, number |-> col]

(* Row by row, from column 1: the order of the Map and of the document.    *)
SeatAt(layout, n) == GenerateSeatId((n - 1) \div layout.cols, 1 + ((n - 1) % layout.cols))

(* The loop's turn: a seat that is unavailable is skipped.                 *)
SetSeat(layout, seatsMap, id) ==
  IF id \in layout.unavailable THEN seatsMap ELSE Append(seatsMap, id)

GenerateSeatsMap(layout) ==
  LET turns == layout.rows * layout.cols
      seatsMap[n \in 0..turns] ==
        IF n = 0 THEN << >> ELSE SetSeat(layout, seatsMap[n - 1], SeatAt(layout, n))
  IN  seatsMap[turns]

(* HoldSeatsDto: /^[A-Z][0-9]{1,2}$/                                       *)
MatchesSeatId(id) == id.letter \in 65..90 /\ id.number \in 0..99
================================================================================
