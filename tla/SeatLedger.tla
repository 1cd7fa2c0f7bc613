------------------------------ MODULE SeatLedger ------------------------------
(*****************************************************************************)
(* What the voice runtime promises about seats, without sockets that swallow *)
(* writes, leases, finalizers and moderation.                                *)
(*                                                                           *)
(* Join requests are asked one after the other.  Each is served at most      *)
(* once, with the seat it asked for and nothing else, on top of whoever sits *)
(* there or within the limits; it may as well be dropped.  A seat that was   *)
(* taken loses its socket or is emptied, and neither is ever undone: only    *)
(* another join fills the seat again.                                        *)
(*****************************************************************************)
EXTENDS Integers, Sequences, FiniteSets

CONSTANTS Rooms, Peers, Sockets, NoSocket, MaxRoomPeers, MaxVoicePeers

VARIABLES
  asked,    \* the seat each join asks for
  waiting,  \* the joins neither served nor dropped
  seats     \* who sits where, and over which socket

ledger == <<asked, waiting, seats>>

Keys == Rooms \X Peers
Empty == [t |-> 0, conn |-> NoSocket]

Init == asked = <<>> /\ waiting = {} /\ seats = [k \in Keys |-> Empty]

\* Another join is asked; it may be turned away at once.
Ask ==
  \E k \in Keys :
    /\ asked' = Append(asked, k)
    /\ waiting' \in {waiting, waiting \cup {Len(asked) + 1}}
    /\ UNCHANGED seats

Taken == {k \in Keys : seats[k].t # 0}
RoomFor(k) ==
  /\ Cardinality({j \in Taken : j[1] = k[1]}) < MaxRoomPeers
  /\ Cardinality(Taken) < MaxVoicePeers

\* Join n takes its seat over socket c.  The news of it may end other seats.
Serve(n, c) ==
  LET k == asked[n] IN
  /\ seats[k].t # 0 \/ RoomFor(k)
  /\ waiting' = waiting \ {n}
  /\ \E ended \in SUBSET (Keys \ {k}) :
       seats' = [j \in Keys |-> IF j = k THEN [t |-> n, conn |-> c]
                                ELSE IF j \in ended THEN Empty ELSE seats[j]]
  /\ UNCHANGED asked

\* Seats lose their sockets or are emptied, and joins are dropped.
Fade ==
  /\ waiting' \in SUBSET waiting
  /\ \E lost, ended \in SUBSET Keys :
       seats' = [k \in Keys |-> IF k \in ended THEN Empty
                                ELSE IF k \in lost THEN [seats[k] EXCEPT !.conn = NoSocket]
                                ELSE seats[k]]
  /\ UNCHANGED asked

Next == Ask \/ Fade \/ \E n \in waiting, c \in Sockets : Serve(n, c)

Spec == Init /\ [][Next]_ledger
===============================================================================
