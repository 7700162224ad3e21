------------------------------- MODULE Captains -------------------------------
(***************************************************************************)
(* CCaptain (Captain.cpp): two captains take spectators in turn, each from *)
(* a menu that a clock of ten seconds answers in his place, while anybody  *)
(* may leave.  PugMod knows of this only that it is going on and that it   *)
(* ends; here are the captains, the spectators, the clocks and the menus.  *)
(*                                                                         *)
(* A client is modelled from the moment it has chosen a team or Spectator. *)
(* All players are human (a bot captain picks without a menu).  Of one who *)
(* left, the entity is still there for UTIL_PlayerByIndexSafe, but dormant *)
(* for the lists and counts of CPlayer; and gMenu belongs to the slot: the *)
(* menu of one who left waits for the next client of his slot.             *)
(***************************************************************************)
EXTENDS Integers, FiniteSets

CONSTANTS
    Clients,        \* entity indexes of the server
    NoOne,          \* the -1 of m_Captain
    PlayersMin,     \* pug_players_min
    CaptainQuorum,  \* the 5 of CCaptain::Init
    Events          \* "Join", "Leave": clients may come or go while captains pick;
                    \* "Inherit": and come to a slot where a menu was left open

Team == {"T", "CT"}
Seats == Team \cup {"SPECTATOR", "GONE"}

ASSUME ClientsAssumption == IsFiniteSet(Clients) /\ NoOne \notin Clients
ASSUME QuorumAssumption == PlayersMin \in Nat /\ CaptainQuorum \in Nat \ {0}
ASSUME EventsAssumption == Events \subseteq {"Join", "Leave", "Inherit"}

VARIABLES
    seat,       \* m_iTeam of every client
    captain,    \* m_Captain
    turn,       \* m_Picking
    clock,      \* which of the tasks TERRORIST and CT are armed
    menu,       \* gMenu of every slot: the items of the menu that is open ({}: none)
    next,       \* NextState(3) has been called and slot NEXT is armed
    state       \* "START", or "LATER" once the phase has advanced

vars == <<seat, captain, turn, clock, menu, next, state>>

Sitting(st, t) == {p \in Clients : st[p] = t}
Spectators(st) == Sitting(st, "SPECTATOR")
Opponent(t) == IF t = "CT" THEN "T" ELSE "CT"

NoCaptains == [t \in Team |-> NoOne]
NoClocks == [t \in Team |-> FALSE]
NoMenus == [p \in Clients |-> {}]
Picking == turn \in Team

Init ==
    /\ seat \in [Clients -> Seats]
    /\ captain = NoCaptains /\ turn = "UNASSIGNED" /\ clock = NoClocks
    /\ menu = NoMenus
    /\ next = FALSE /\ state = "START"

-------------------------------------------------------------------------------
(* What the handlers call.  st, cp, mn: seats, captains, menus at the call.*)

CheckPlayerCount(st) ==
    /\ Spectators(st) # {}
    /\ \E t \in Team : Cardinality(Sitting(st, t)) < PlayersMin \div 2

\* Mutants: a clock runs on; the captains are set to 0 instead of -1.
StopClocksRun(st, mn) ==
    /\ seat' = st /\ menu' = mn
    /\ captain' = NoCaptains /\ turn' = "UNASSIGNED" /\ UNCHANGED clock
    /\ next' = TRUE

StopZero(st, mn) ==
    /\ seat' = st /\ menu' = mn
    /\ captain' = [t \in Team |-> 0] /\ turn' = "UNASSIGNED" /\ clock' = NoClocks
    /\ next' = TRUE

\* Stop: Clear forgets captains and clocks, not the menus.
Stop(st, mn) ==
    /\ seat' = st /\ menu' = mn
    /\ captain' = NoCaptains /\ turn' = "UNASSIGNED" /\ clock' = NoClocks
    /\ next' = TRUE

\* Menu(t), where pk was picking.  Every caller has removed both clocks.  A single
\* spectator is taken at once (GetPlayer), which is the last pick.
Menu(t, st, cp, mn, pk) ==
    \/ /\ cp[t] = NoOne
       /\ seat' = st /\ captain' = cp /\ menu' = mn
       /\ turn' = pk /\ clock' = NoClocks
       /\ UNCHANGED next
    \/ /\ cp[t] # NoOne /\ Cardinality(Spectators(st)) = 1
       /\ \E x \in Spectators(st) : Stop([st EXCEPT ![x] = st[cp[t]]], mn)
    \/ /\ cp[t] # NoOne /\ Cardinality(Spectators(st)) # 1
       /\ seat' = st /\ captain' = cp
       /\ menu' = [mn EXCEPT ![cp[t]] = Spectators(st)]
       /\ turn' = t /\ clock' = [NoClocks EXCEPT ![t] = TRUE]
       /\ UNCHANGED next

\* JoinTeam: x joins the team of p.  The entity of one who left joins too, where
\* nobody counts it.
JoinTeam(p, x) == [seat EXCEPT ![x] = IF @ = "GONE" THEN @ ELSE seat[p]]

\* A mutant: the side that has picked picks again.
GetPlayerAgain(p, x, mn) ==
    LET joined == JoinTeam(p, x) IN
    IF CheckPlayerCount(joined) THEN Menu(turn, joined, captain, mn, turn) ELSE Stop(joined, mn)

\* GetPlayer(p, x): whether x is still there or not, the turn passes.
GetPlayer(p, x, mn) ==
    LET joined == JoinTeam(p, x) IN
    IF CheckPlayerCount(joined)
    THEN Menu(Opponent(turn), joined, captain, mn, turn)
    ELSE Stop(joined, mn)

-------------------------------------------------------------------------------
(* Handlers and callbacks.                                                 *)

InGame == Sitting(seat, "T") \cup Sitting(seat, "CT")
Present == InGame \cup Spectators(seat)

\* CCaptain::Init, when the players have elected captains: all become spectators, and
\* two of them the captains.
CaptainInit ==
    /\ state = "START" /\ ~Picking /\ ~next
    /\ \/ /\ Cardinality(InGame) > CaptainQuorum
          /\ \E a \in Present : \E b \in Present \ {a} : \E t \in Team :
                Menu(t, [p \in Clients |-> CASE p = a -> "T"
                                           [] p = b -> "CT"
                                           [] p \in Present \ {a, b} -> "SPECTATOR"
                                           [] OTHER -> "GONE"],
                     [c \in Team |-> IF c = "T" THEN a ELSE b], menu, "UNASSIGNED")
       \/ /\ ~(Cardinality(InGame) > CaptainQuorum)
          /\ Stop(seat, menu)
    /\ UNCHANGED state

\* CMenu::Handle hides the menu, MenuHandle takes the player the item names.
\* Nothing asks whether the menu was shown to this client, whether it is his turn,
\* or whether x is a spectator, or still there.
MenuHandle(p, x) ==
    /\ seat[p] # "GONE" /\ x \in menu[p]
    /\ GetPlayer(p, x, [menu EXCEPT ![p] = {}])
    /\ UNCHANGED state

\* A mutant: the captain keeps the menu that the clock has answered for him.
GetRandomPlayerOpen(t) ==
    /\ clock[t] /\ Picking
    /\ \/ /\ Spectators(seat) = {}
          /\ clock' = [clock EXCEPT ![t] = FALSE]
          /\ UNCHANGED <<seat, captain, turn, menu, next>>
       \/ \E x \in Spectators(seat) : GetPlayer(captain[turn], x, menu)
    /\ UNCHANGED state

\* The ten seconds of t are over.  (Somebody is picking then: ClockIsTurn.)
GetRandomPlayer(t) ==
    LET p == captain[turn]
        hidden == [menu EXCEPT ![p] = {}]
    IN  /\ clock[t] /\ Picking
        /\ \/ /\ Spectators(seat) = {}
              /\ clock' = [clock EXCEPT ![t] = FALSE]
              /\ menu' = hidden
              /\ UNCHANGED <<seat, captain, turn, next>>
           \/ \E x \in Spectators(seat) : GetPlayer(p, x, hidden)
        /\ UNCHANGED state

\* Mutants: the new captain is not noted; the picks do not resume.
ReplaceCaptainUnnoted(t, st, mn) ==
    IF Spectators(st) = {}
    THEN Stop(st, mn)
    ELSE \E x \in Spectators(st) : Menu(turn, [st EXCEPT ![x] = t], captain, mn, turn)

ReplaceCaptainOnly(t, st, mn) ==
    IF Spectators(st) = {}
    THEN Stop(st, mn)
    ELSE \E x \in Spectators(st) :
            /\ seat' = [st EXCEPT ![x] = t]
            /\ captain' = [captain EXCEPT ![t] = x]
            /\ menu' = mn /\ clock' = NoClocks
            /\ UNCHANGED <<turn, next>>

\* ClientDisconnected, for a captain: a spectator takes his place.  The menu of the
\* captain who left is not closed.
ReplaceCaptain(t, st, mn) ==
    IF Spectators(st) = {}
    THEN Stop(st, mn)
    ELSE \E x \in Spectators(st) :
            Menu(turn, [st EXCEPT ![x] = t], [captain EXCEPT ![t] = x], mn, turn)

Disconnect(p) ==
    LET left == [seat EXCEPT ![p] = "GONE"] IN
    /\ seat[p] # "GONE"
    /\ Picking => "Leave" \in Events
    /\ IF \E t \in Team : captain[t] = p
       THEN ReplaceCaptain(IF captain["T"] = p THEN "T" ELSE "CT", left, menu)
       ELSE seat' = left /\ UNCHANGED <<captain, turn, clock, menu, next>>
    /\ UNCHANGED state

\* In START a client can only become a spectator (ClientJoinTeam).  He may come to a
\* slot whose menu is open, and answer it.
Join(p) ==
    /\ seat[p] = "GONE"
    /\ Picking => "Join" \in Events
    /\ Picking /\ menu[p] # {} => "Inherit" \in Events
    /\ \E t \in (IF state = "START" THEN {"SPECTATOR"} ELSE Seats \ {"GONE"}) :
          seat' = [seat EXCEPT ![p] = t]
    /\ UNCHANGED <<captain, turn, clock, menu, next, state>>

\* The timer of slot NEXT: the phase advances (PugMod).
RunState ==
    /\ next
    /\ next' = FALSE /\ state' = "LATER"
    /\ UNCHANGED <<seat, captain, turn, clock, menu>>

Clock == \E t \in Team : GetRandomPlayer(t)
Next ==
    \/ CaptainInit
    \/ \E p \in Clients, x \in Clients : MenuHandle(p, x)
    \/ Clock
    \/ \E p \in Clients : Disconnect(p)
    \/ \E p \in Clients : Join(p)
    \/ RunState

Spec == Init /\ [][Next]_vars

\* Think calls the clock that is due in every frame.
FairSpec == Spec /\ WF_vars(Clock)

-------------------------------------------------------------------------------
(* Properties.                                                             *)

TypeOK ==
    /\ seat \in [Clients -> Seats]
    /\ captain \in [Team -> Clients \cup {NoOne}]
    /\ turn \in Team \cup {"UNASSIGNED"}
    /\ clock \in [Team -> BOOLEAN]
    /\ menu \in [Clients -> SUBSET Clients]
    /\ next \in BOOLEAN /\ state \in {"START", "LATER"}

\* While players are picked there are two captains, each in his own team, however
\* many captains have left: Menu, GetRandomPlayer and the list rely on it.
CaptainsPresent ==
    Picking => \A t \in Team : captain[t] \in Clients /\ seat[captain[t]] = t

\* Only the captain whose turn it is has a clock running: one that is left over from
\* an earlier turn, a replaced captain or a selection that is over would pick for the other side.
ClockIsTurn == \A t \in Team : clock[t] => turn = t

\* While captains pick, nobody is taken out of a team: a menu that the clock has answered,
\* that lists players taken meanwhile, or that a replaced captain left, is not answered.
TeamsKept ==
    [][Picking => \A p \in Clients, t \in Team : seat[p] = t => seat'[p] \in {t, "GONE"}]_vars

\* Whatever the menus, the clocks and the losses of captains: the sides take players in
\* turn, one at a time; a side that loses its captain loses neither place nor turn, and
\* a turn is lost only on the choice of somebody who has left.
D == INSTANCE Draft
ImplementsDraft == D!Spec

\* Where nobody joins late, the captain on turn has a clock running as long as there is
\* anybody to pick, whoever leaves on whose turn: what a sleeping captain is picked for by.
TurnTimed == Picking /\ Spectators(seat) # {} => clock[turn]

\* As long as there are spectators, a selection with a captain who leaves or sleeps
\* goes on to its end: each turn arms a clock, and every loss of a captain a new one.
PickingGoesOn == Picking ~> (~Picking \/ Spectators(seat) = {})

\* README.md: "run a full match without any admin".  A selection ends.
PickingEnds == Picking ~> ~Picking

===============================================================================
