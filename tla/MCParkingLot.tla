---------------------------- MODULE MCParkingLot ----------------------------
(* ParkingLot for TLC, with smaller lots than the program's 8 and 4.       *)
EXTENDS ParkingLot

SmallLot == [k \in Kinds |-> IF k = "auto" THEN 3 ELSE 1]
=============================================================================
