--------------------------------- MODULE Draft ---------------------------------
(***************************************************************************)
(* What the captains' choice of the teams promises to the players: two     *)
(* sides that start with one player each take the others in turn, one at a *)
(* time; who is in a side stays in it, a place that falls free through the *)
(* loss of a captain is filled, and the turn is not lost by it.  A side may*)
(* lose its turn by choosing somebody who has left meanwhile.  Who picks,  *)
(* with which menu, and whether a clock picked for him is not seen here.   *)
(* Captains implements it.                                                 *)
(***************************************************************************)
EXTENDS Integers, FiniteSets

CONSTANTS Clients, PlayersMin, Events   \* as in Captains

VARIABLES
    seat,   \* where everybody sits
    turn    \* the side that takes the next player, if a draft is on

vars == <<seat, turn>>

Team == {"T", "CT"}
Drafting == turn \in Team
Side(st, t) == {p \in Clients : st[p] = t}
Pool(st) == Side(st, "SPECTATOR")
Opponent(t) == IF t = "CT" THEN "T" ELSE "CT"

\* Players are left, and one of the sides is short of half the players of a match.
Short(st) == Pool(st) # {} /\ \E t \in Team : Cardinality(Side(st, t)) < PlayersMin \div 2

Init == turn = "UNASSIGNED" /\ seat \in [Clients -> Team \cup {"SPECTATOR", "GONE"}]

\* It is the turn of t: the last player is given to it at once, which ends the draft.
Hand(t, st) ==
    \/ Cardinality(Pool(st)) # 1 /\ seat' = st /\ turn' = t
    \/ /\ Cardinality(Pool(st)) = 1 /\ turn' = "UNASSIGNED"
       /\ \E x \in Pool(st) : seat' = [st EXCEPT ![x] = t]

Lineup(a, b) ==
    [p \in Clients |-> CASE p = a -> "T" [] p = b -> "CT"
                         [] p \notin {a, b} /\ seat[p] = "GONE" -> "GONE"
                         [] OTHER -> "SPECTATOR"]

Open ==
    /\ ~Drafting
    /\ \E a \in Clients : \E b \in Clients \ {a}, t \in Team : Hand(t, Lineup(a, b))

Pick ==
    /\ Drafting
    /\ \E x \in Pool(seat) :
          LET joined == [seat EXCEPT ![x] = turn] IN
          \/ Short(joined) /\ Hand(Opponent(turn), joined)
          \/ ~Short(joined) /\ seat' = joined /\ turn' = "UNASSIGNED"

\* Whoever was chosen has left: nobody is taken, and the other side is on turn.
Forfeit ==
    /\ Drafting /\ "Leave" \in Events /\ Side(seat, "GONE") # {}
    /\ \/ Short(seat) /\ Hand(Opponent(turn), seat)
       \/ ~Short(seat) /\ seat' = seat /\ turn' = "UNASSIGNED"

\* A spectator takes the place of a captain, and the side on turn is still on turn.
Leave(p) ==
    LET left == [seat EXCEPT ![p] = "GONE"] IN
    /\ Drafting /\ "Leave" \in Events /\ seat[p] # "GONE"
    /\ \/ seat' = left /\ turn' = turn
       \/ /\ seat[p] \in Team /\ Pool(left) = {}
          /\ seat' = left /\ turn' = "UNASSIGNED"
       \/ /\ seat[p] \in Team
          /\ \E x \in Pool(left) : Hand(turn, [left EXCEPT ![x] = seat[p]])

Join(p) ==
    /\ Drafting /\ "Join" \in Events /\ seat[p] = "GONE"
    /\ seat' = [seat EXCEPT ![p] = "SPECTATOR"] /\ turn' = turn

\* Between two drafts the seats are not its business.
Free == ~Drafting /\ turn' = turn

Next == Free \/ Open \/ Pick \/ Forfeit \/ \E p \in Clients : Leave(p) \/ Join(p)

Spec == Init /\ [][Next]_vars

===============================================================================
