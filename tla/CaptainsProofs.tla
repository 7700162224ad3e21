---------------------------- MODULE CaptainsProofs ----------------------------
(* The captains' turns, for any number of clients: types, the place of the *)
(* captains, the clocks, that a pick moves only spectators, that all this  *)
(* is a draft as Draft has it, that a draft makes even teams, and that the *)
(* clocks take the selection on to its end.                                *)
EXTENDS Captains, FiniteSetTheorems, TLAPS

\* When nobody picks there are no captains.
NoneWhileIdle == ~Picking => \A t \in Team : captain[t] = NoOne

\* No client comes to a slot in which one who left has left a menu open.
NoInheritance == ~({"Leave", "Join", "Inherit"} \subseteq Events)

\* One who has left while captains pick.
Left(st, p) == st[p] = "GONE" /\ "Leave" \in Events

\* Only the captain on turn can answer a menu, of clients that are in no team: the other
\* menus are those of captains who left.
MenuIsTurn ==
    Picking => \A p \in Clients : menu[p] # {} =>
        \/ p = captain[turn] /\ \A x \in menu[p] : seat[x] = "SPECTATOR" \/ Left(seat, x)
        \/ Left(seat, p)

\* Before the selection no menu of it is open.
MenusClosedBefore ==
    (state = "START" /\ ~next /\ ~Picking) => \A p \in Clients : menu[p] = {}

\* The selection is over before its phase is.
PickingFirst == Picking => state = "START" /\ ~next

Inv == TypeOK /\ CaptainsPresent /\ ClockIsTurn /\ NoneWhileIdle /\ MenuIsTurn
       /\ MenusClosedBefore /\ PickingFirst

-------------------------------------------------------------------------------
(* The operators that the handlers share.                                  *)

\* Stop leaves no captain, no clock and the phase due.
LEMMA StopStep ==
    ASSUME NEW st \in [Clients -> Seats], NEW mn \in [Clients -> SUBSET Clients],
           state \in {"START", "LATER"}, UNCHANGED state, Stop(st, mn)
    PROVE  Inv' /\ ~Picking' /\ seat' = st
  BY DEF Stop, Inv, TypeOK, CaptainsPresent, ClockIsTurn, NoneWhileIdle, MenuIsTurn,
         MenusClosedBefore, PickingFirst, Picking, NoCaptains, NoClocks, Team

\* JoinTeam moves nobody but x, who may have left.
LEMMA JoinTeamStep ==
    ASSUME seat \in [Clients -> Seats], NEW p \in Clients, NEW x \in Clients
    PROVE  /\ JoinTeam(p, x) \in [Clients -> Seats]
           /\ \A q \in Clients \ {x} : JoinTeam(p, x)[q] = seat[q]
           /\ seat[x] = "GONE" => JoinTeam(p, x) = seat
           /\ seat[x] # "GONE" => JoinTeam(p, x) = [seat EXCEPT ![x] = seat[p]]
  BY DEF JoinTeam

\* Menu for a captain who sits in his team, when every other menu is of one who left.
LEMMA MenuStep ==
    ASSUME NEW t \in Team, NEW st \in [Clients -> Seats], NEW cp \in [Team -> Clients],
           NEW mn \in [Clients -> SUBSET Clients], NEW pk,
           \A c \in Team : st[cp[c]] = c,
           \A p \in Clients : p # cp[t] /\ mn[p] # {} => Left(st, p),
           state = "START", next \in BOOLEAN, ~next, UNCHANGED state,
           Menu(t, st, cp, mn, pk)
    PROVE  /\ Inv'
           /\ \A p \in Clients, c \in Team \cup {"GONE"} : st[p] = c => seat'[p] = c
<1>1. cp[t] \in Clients /\ cp[t] # NoOne
  BY ClientsAssumption
<1>2. CASE \E x \in Spectators(st) : Stop([st EXCEPT ![x] = st[cp[t]]], mn)
  <2>1. PICK x \in Spectators(st) : Stop([st EXCEPT ![x] = st[cp[t]]], mn)
    BY <1>2
  <2>2. [st EXCEPT ![x] = st[cp[t]]] \in [Clients -> Seats]
    BY <1>1
  <2>3. Inv' /\ seat' = [st EXCEPT ![x] = st[cp[t]]]
    BY <2>1, <2>2, StopStep
  <2> QED
    BY <2>1, <2>3 DEF Spectators, Sitting, Team
<1>3. CASE /\ seat' = st /\ captain' = cp
           /\ menu' = [mn EXCEPT ![cp[t]] = Spectators(st)]
           /\ turn' = t /\ clock' = [NoClocks EXCEPT ![t] = TRUE]
           /\ UNCHANGED next
  <2>1. TypeOK'
    BY <1>1, <1>3 DEF TypeOK, NoClocks, Spectators, Sitting
  <2>2. CaptainsPresent' /\ ClockIsTurn' /\ NoneWhileIdle' /\ MenusClosedBefore' /\ PickingFirst'
    BY <1>3 DEF CaptainsPresent, ClockIsTurn, NoneWhileIdle, MenusClosedBefore, PickingFirst,
                Picking, NoClocks
  <2>3. MenuIsTurn'
    BY <1>1, <1>3 DEF MenuIsTurn, Picking, Spectators, Sitting, Team, Left
  <2> QED
    BY <1>3, <2>1, <2>2, <2>3 DEF Inv
<1> QED
  BY <1>1, <1>2, <1>3 DEF Menu

\* A pick of a client in no team, by the captain on turn, whose menu is closed.
LEMMA PickStep ==
    ASSUME Inv, Picking, UNCHANGED state,
           NEW x \in Clients, seat[x] \notin Team,
           GetPlayer(captain[turn], x, [menu EXCEPT ![captain[turn]] = {}])
    PROVE  /\ Inv'
           /\ \A q \in Clients, t \in Team : seat[q] = t => seat'[q] = t
<1> DEFINE p == captain[turn]
           mn == [menu EXCEPT ![p] = {}]
           joined == JoinTeam(p, x)
<1>1. /\ p \in Clients /\ seat[p] = turn /\ turn \in Team
      /\ captain \in [Team -> Clients]
      /\ \A t \in Team : seat[captain[t]] = t
  BY DEF Inv, CaptainsPresent, Picking, TypeOK
<1>2. joined \in [Clients -> Seats] /\ mn \in [Clients -> SUBSET Clients]
  BY <1>1, JoinTeamStep DEF Inv, TypeOK
<1>3. /\ \A t \in Team : joined[captain[t]] = t
      /\ \A q \in Clients, t \in Team \cup {"GONE"} : seat[q] = t => joined[q] = t
  BY <1>1, JoinTeamStep DEF Inv, TypeOK, Team
<1>4. \A q \in Clients : mn[q] # {} => Left(joined, q)
  BY <1>1, <1>3 DEF Inv, TypeOK, MenuIsTurn, Left
<1>5. state = "START" /\ next \in BOOLEAN /\ ~next /\ Opponent(turn) \in Team
  BY DEF Inv, TypeOK, PickingFirst, Opponent, Team
<1>6. CASE Menu(Opponent(turn), joined, captain, mn, turn)
  <2>1. /\ Inv'
        /\ \A q \in Clients, t \in Team : joined[q] = t => seat'[q] = t
    <3> HIDE DEF p, mn, joined
    <3> QED
      BY <1>1, <1>2, <1>3, <1>4, <1>5, <1>6, MenuStep
  <2> QED
    BY <1>3, <2>1
<1>7. CASE Stop(joined, mn)
  BY <1>2, <1>3, <1>5, <1>7, StopStep
<1> QED
  BY <1>6, <1>7 DEF GetPlayer

-------------------------------------------------------------------------------
(* Each handler.                                                           *)

\* The captain's menu answers.  When nobody is picking, it is a menu left over from the
\* selection, and GetPlayer can only stop again or do nothing.
LEMMA MenuHandleStep ==
    ASSUME Inv, NEW p \in Clients, NEW x \in Clients, MenuHandle(p, x)
    PROVE  /\ Inv'
           /\ Picking => \A q \in Clients, t \in Team : seat[q] = t => seat'[q] = t
<1> DEFINE mn == [menu EXCEPT ![p] = {}]
           joined == JoinTeam(p, x)
<1>1. /\ mn \in [Clients -> SUBSET Clients] /\ joined \in [Clients -> Seats]
      /\ state \in {"START", "LATER"} /\ UNCHANGED state
  BY JoinTeamStep DEF Inv, TypeOK, MenuHandle
<1>2. CASE Picking
  <2>1. p = captain[turn] /\ seat[x] \notin Team
    BY <1>2 DEF Inv, MenuIsTurn, MenuHandle, Left, Team
  <2>2. GetPlayer(captain[turn], x, [menu EXCEPT ![captain[turn]] = {}])
    BY <2>1 DEF MenuHandle
  <2> QED
    BY <1>1, <1>2, <2>1, <2>2, PickStep
<1>3. CASE ~Picking
  <2>1. GetPlayer(p, x, mn)
    BY DEF MenuHandle
  <2>2. turn = "UNASSIGNED" /\ Opponent(turn) = "CT"
    BY <1>3 DEF Inv, TypeOK, Picking, Opponent
  <2>3. captain[Opponent(turn)] = NoOne
    BY <1>3, <2>2 DEF Inv, NoneWhileIdle, Team
  <2>4. CASE Stop(joined, mn)
    BY <1>1, <1>3, <2>4, StopStep
  <2>5. CASE Menu(Opponent(turn), joined, captain, mn, turn)
    <3>1. /\ seat' = joined /\ captain' = captain /\ menu' = mn
          /\ turn' = turn /\ clock' = NoClocks /\ UNCHANGED <<next, state>>
      BY <1>1, <2>3, <2>5 DEF Menu
    <3> QED
      BY <1>1, <1>3, <3>1 DEF Inv, TypeOK, CaptainsPresent, ClockIsTurn, NoneWhileIdle,
                              MenuIsTurn, MenusClosedBefore, PickingFirst, Picking,
                              NoClocks
  <2> QED
    BY <2>1, <2>4, <2>5 DEF GetPlayer
<1> QED
  BY <1>2, <1>3

LEMMA ClockStep ==
    ASSUME Inv, NEW t \in Team, GetRandomPlayer(t)
    PROVE  /\ Inv'
           /\ \A q \in Clients, c \in Team : seat[q] = c => seat'[q] = c
<1>1. Picking /\ turn \in Team /\ captain[turn] \in Clients /\ UNCHANGED state
  BY DEF GetRandomPlayer, Inv, CaptainsPresent, Picking
<1>2. CASE /\ clock' = [clock EXCEPT ![t] = FALSE]
           /\ menu' = [menu EXCEPT ![captain[turn]] = {}]
           /\ UNCHANGED <<seat, captain, turn, next>>
  BY <1>1, <1>2 DEF Inv, TypeOK, CaptainsPresent, ClockIsTurn, NoneWhileIdle, MenuIsTurn,
                    MenusClosedBefore, PickingFirst, Picking
<1>3. CASE \E x \in Spectators(seat) :
              GetPlayer(captain[turn], x, [menu EXCEPT ![captain[turn]] = {}])
  BY <1>1, <1>3, PickStep DEF Spectators, Sitting, Team
<1> QED
  BY <1>2, <1>3 DEF GetRandomPlayer

LEMMA InitStep ==
    ASSUME Inv, CaptainInit
    PROVE  Inv'
<1>1. /\ state = "START" /\ ~Picking /\ ~next /\ UNCHANGED state /\ next \in BOOLEAN
      /\ seat \in [Clients -> Seats] /\ menu \in [Clients -> SUBSET Clients]
      /\ \A p \in Clients : menu[p] = {}
  BY DEF CaptainInit, Inv, TypeOK, MenusClosedBefore
<1>2. ASSUME NEW a \in Present, NEW b \in Present \ {a}, NEW t \in Team,
             Menu(t, [p \in Clients |-> CASE p = a -> "T"
                                        [] p = b -> "CT"
                                        [] p \in Present \ {a, b} -> "SPECTATOR"
                                        [] OTHER -> "GONE"],
                  [c \in Team |-> IF c = "T" THEN a ELSE b], menu, "UNASSIGNED")
      PROVE  Inv'
  <2> DEFINE st == [p \in Clients |-> CASE p = a -> "T"
                                         [] p = b -> "CT"
                                         [] p \in Present \ {a, b} -> "SPECTATOR"
                                         [] OTHER -> "GONE"]
             cp == [c \in Team |-> IF c = "T" THEN a ELSE b]
  <2>1. a \in Clients /\ b \in Clients /\ a # b
    BY DEF Present, InGame, Spectators, Sitting
  <2>2. st \in [Clients -> Seats]
    BY DEF Seats, Team
  <2>3. cp \in [Team -> Clients] /\ \A c \in Team : st[cp[c]] = c
    BY <2>1 DEF Team
  <2>4. Menu(t, st, cp, menu, "UNASSIGNED")
    BY <1>2
  <2> HIDE DEF st, cp
  <2> QED
    BY <1>1, <2>2, <2>3, <2>4, MenuStep
<1>3. CASE Stop(seat, menu)
  BY <1>1, <1>3, StopStep
<1> QED
  BY <1>2, <1>3 DEF CaptainInit

LEMMA DisconnectStep ==
    ASSUME Inv, NEW p \in Clients, Disconnect(p)
    PROVE  /\ Inv'
           /\ \A q \in Clients, t \in Team : seat[q] = t => seat'[q] \in {t, "GONE"}
<1> DEFINE left == [seat EXCEPT ![p] = "GONE"]
<1>1. /\ left \in [Clients -> Seats] /\ menu \in [Clients -> SUBSET Clients]
      /\ (Picking => "Leave" \in Events)
      /\ state \in {"START", "LATER"} /\ next \in BOOLEAN /\ UNCHANGED state
      /\ \A q \in Clients, t \in Team : seat[q] = t => left[q] \in {t, "GONE"}
  BY DEF Inv, TypeOK, Seats, Disconnect
<1>2. CASE ~\E t \in Team : captain[t] = p
  <2>1. seat' = left /\ UNCHANGED <<captain, turn, clock, menu, next, state>>
    BY <1>2 DEF Disconnect
  <2>2. CaptainsPresent'
    BY <1>2, <2>1 DEF Inv, CaptainsPresent, Picking, TypeOK
  <2>3. MenuIsTurn'
    BY <1>1, <2>1 DEF Inv, MenuIsTurn, Picking, TypeOK, Team, Left
  <2> QED
    BY <1>1, <2>1, <2>2, <2>3 DEF Inv, TypeOK, ClockIsTurn, NoneWhileIdle, MenusClosedBefore,
                                  PickingFirst, Picking
<1>3. CASE \E t \in Team : captain[t] = p
  <2>1. PICK t \in Team : captain[t] = p /\ ReplaceCaptain(t, left, menu)
    BY <1>3 DEF Disconnect, Team
  <2>2. Picking /\ turn \in Team /\ state = "START" /\ next \in BOOLEAN /\ ~next
    BY <2>1, ClientsAssumption DEF Inv, TypeOK, NoneWhileIdle, PickingFirst, Picking
  <2>3. CASE Stop(left, menu)
    BY <1>1, <2>3, StopStep
  <2>4. ASSUME NEW x \in Spectators(left),
               Menu(turn, [left EXCEPT ![x] = t], [captain EXCEPT ![t] = x], menu, turn)
        PROVE  /\ Inv'
               /\ \A q \in Clients, c \in Team : seat[q] = c => seat'[q] \in {c, "GONE"}
    <3> DEFINE st == [left EXCEPT ![x] = t]
               cp == [captain EXCEPT ![t] = x]
    <3>1. x \in Clients /\ seat[x] \notin Team /\ x # p
      BY DEF Spectators, Sitting, Team, Inv, TypeOK
    <3>2. st \in [Clients -> Seats] /\ cp \in [Team -> Clients]
      BY <1>1, <2>2, <3>1 DEF Seats, Inv, CaptainsPresent, TypeOK
    <3>3. \A c \in Team : st[cp[c]] = c
      BY <2>1, <2>2, <3>1 DEF Inv, CaptainsPresent, TypeOK, Team
    <3>7. /\ \A q \in Clients, c \in Team : seat[q] = c => st[q] = c \/ q = p
          /\ \A q \in Clients : q = p \/ seat[q] = "GONE" => st[q] = "GONE"
      BY <3>1 DEF Inv, TypeOK, Spectators, Sitting
    <3>4. \A q \in Clients : q # cp[turn] /\ menu[q] # {} => Left(st, q)
      <4> SUFFICES ASSUME NEW q \in Clients, q # cp[turn], menu[q] # {}
                   PROVE  st[q] = "GONE" /\ "Leave" \in Events
        BY DEF Left
      <4>1. q = captain[turn] \/ seat[q] = "GONE"
        BY <2>2 DEF Inv, MenuIsTurn, Left
      <4>2. q = captain[turn] => q = p
        BY <2>1, <2>2 DEF Inv, TypeOK
      <4> QED
        BY <1>1, <2>2, <3>7, <4>1, <4>2
    <3> HIDE DEF st, cp
    <3>5. Menu(turn, st, cp, menu, turn)
      BY <2>4 DEF st, cp
    <3>6. Inv' /\ \A q \in Clients, c \in Team \cup {"GONE"} : st[q] = c => seat'[q] = c
      <4> HIDE DEF left
      <4> QED
        BY <1>1, <2>2, <3>2, <3>3, <3>4, <3>5, MenuStep
    <3> QED
      BY <3>5, <3>6, <3>7
  <2> QED
    BY <2>1, <2>3, <2>4 DEF ReplaceCaptain
<1> QED
  BY <1>1, <1>2, <1>3

LEMMA OtherSteps ==
    ASSUME NoInheritance, Inv, (\E p \in Clients : Join(p)) \/ RunState
    PROVE  /\ Inv'
           /\ \A q \in Clients, t \in Team : seat[q] = t => seat'[q] = t
<1>1. CASE RunState
  BY <1>1 DEF RunState, Inv, TypeOK, CaptainsPresent, ClockIsTurn, NoneWhileIdle, MenuIsTurn,
              MenusClosedBefore, PickingFirst, Picking
<1>2. ASSUME NEW p \in Clients, Join(p)
      PROVE  /\ Inv'
             /\ \A q \in Clients, t \in Team : seat[q] = t => seat'[q] = t
  <2>1. PICK s \in (IF state = "START" THEN {"SPECTATOR"} ELSE Seats \ {"GONE"}) :
           seat' = [seat EXCEPT ![p] = s]
    BY <1>2 DEF Join
  <2>2. /\ s \in Seats /\ seat[p] = "GONE" /\ seat[p] \notin Team
        /\ UNCHANGED <<captain, turn, clock, menu, next, state>>
    BY <1>2, <2>1 DEF Seats, Join, Team
  <2>3. Picking => s = "SPECTATOR" /\ s \notin Team
    BY <2>1 DEF Inv, PickingFirst, Team
  <2>4. CaptainsPresent'
    BY <2>1, <2>2, <2>3 DEF Inv, TypeOK, CaptainsPresent, Picking
  <2>5. Picking => menu[p] = {}
    <3> SUFFICES ASSUME Picking, menu[p] # {} PROVE FALSE
      OBVIOUS
    <3>1. seat[captain[turn]] = turn /\ turn # "GONE"
      BY DEF Picking, Inv, CaptainsPresent, Team
    <3>2. Left(seat, p)
      BY <2>2, <3>1 DEF Inv, MenuIsTurn
    <3> QED
      BY <1>2, <3>2 DEF Join, Left, NoInheritance
  <2>6. MenuIsTurn'
    BY <2>1, <2>2, <2>3, <2>5 DEF Inv, TypeOK, MenuIsTurn, Picking, Left
  <2> QED
    BY <2>1, <2>2, <2>4, <2>6 DEF Inv, TypeOK, ClockIsTurn, NoneWhileIdle, MenusClosedBefore,
                            PickingFirst, Picking
<1> QED
  BY <1>1, <1>2

-------------------------------------------------------------------------------
(* The theorems.                                                           *)

LEMMA InvHolds == ASSUME NoInheritance PROVE Spec => []Inv
<1>1. Init => Inv
  BY DEF Init, Inv, TypeOK, CaptainsPresent, ClockIsTurn, NoneWhileIdle, MenuIsTurn,
         MenusClosedBefore, PickingFirst, Picking, NoCaptains, NoClocks, NoMenus, Team
<1>2. Inv /\ [Next]_vars => Inv'
  <2> SUFFICES ASSUME Inv, [Next]_vars PROVE Inv'
    OBVIOUS
  <2>1. CASE UNCHANGED vars
    BY <2>1 DEF vars, Inv, TypeOK, CaptainsPresent, ClockIsTurn, NoneWhileIdle, MenuIsTurn,
                MenusClosedBefore, PickingFirst, Picking
  <2> QED
    BY <2>1, InitStep, MenuHandleStep, ClockStep, DisconnectStep, OtherSteps DEF Next, Clock
<1> QED
  BY <1>1, <1>2, PTL DEF Spec

\* While players are picked both captains are there, each in his team, whoever leaves and
\* comes, unless somebody comes to a slot that a captain left with his menu open.
THEOREM CaptainsCorrect == ASSUME NoInheritance PROVE Spec => []CaptainsPresent
<1>1. Inv => CaptainsPresent
  BY DEF Inv
<1> QED
  BY <1>1, InvHolds, PTL

\* A pick moves only clients that are in no team, under the same condition: whoever inherits
\* a menu may answer it after the players it lists were taken.
THEOREM PicksCorrect == ASSUME NoInheritance PROVE Spec => TeamsKept
<1> DEFINE Kept == Picking => \A p \in Clients, t \in Team :
                                 seat[p] = t => seat'[p] \in {t, "GONE"}
<1>1. Inv /\ [Next]_vars => [Kept]_vars
  <2> SUFFICES ASSUME Inv, Next PROVE Kept
    OBVIOUS
  <2>1. CASE CaptainInit
    BY <2>1 DEF CaptainInit
  <2> QED
    BY <2>1, MenuHandleStep, ClockStep, DisconnectStep, OtherSteps DEF Next, Clock
<1> QED
  BY <1>1, InvHolds, PTL DEF Spec, TeamsKept

-------------------------------------------------------------------------------
(* Types and clocks, whoever answers which menu.                           *)

\* There are two captains, or nobody picks and there is none.
BothOrNone ==
    \/ Picking /\ \A t \in Team : captain[t] \in Clients
    \/ turn = "UNASSIGNED" /\ \A t \in Team : captain[t] = NoOne

TurnInv == TypeOK /\ ClockIsTurn /\ BothOrNone

LEMMA StopTurn ==
    ASSUME NEW st \in [Clients -> Seats], NEW mn \in [Clients -> SUBSET Clients],
           TurnInv, UNCHANGED state, Stop(st, mn)
    PROVE  TurnInv'
  BY DEF Stop, TurnInv, TypeOK, ClockIsTurn, BothOrNone, NoCaptains, NoClocks, Team

LEMMA MenuTurn ==
    ASSUME NEW t \in Team, NEW st \in [Clients -> Seats],
           NEW cp \in [Team -> Clients \cup {NoOne}], NEW mn \in [Clients -> SUBSET Clients],
           NEW pk, (\A c \in Team : cp[c] \in Clients)
                   \/ (pk = "UNASSIGNED" /\ \A c \in Team : cp[c] = NoOne),
           TurnInv, UNCHANGED state, Menu(t, st, cp, mn, pk)
    PROVE  TurnInv'
<1>1. CASE cp[t] = NoOne
  <2>1. pk = "UNASSIGNED" /\ \A c \in Team : cp[c] = NoOne
    BY <1>1, ClientsAssumption
  <2>2. /\ seat' = st /\ captain' = cp /\ menu' = mn /\ turn' = pk /\ clock' = NoClocks
        /\ UNCHANGED <<next, state>>
    BY <1>1 DEF Menu
  <2> QED
    BY <2>1, <2>2 DEF TurnInv, TypeOK, ClockIsTurn, BothOrNone, NoClocks, Team
<1>2. CASE cp[t] # NoOne
  <2>1. (\A c \in Team : cp[c] \in Clients) /\ cp[t] \in Clients
    BY <1>2
  <2>2. ASSUME NEW x \in Spectators(st), Stop([st EXCEPT ![x] = st[cp[t]]], mn)
        PROVE  TurnInv'
    <3>1. [st EXCEPT ![x] = st[cp[t]]] \in [Clients -> Seats]
      BY <2>1
    <3> QED
      BY <2>2, <3>1, StopTurn
  <2>3. CASE /\ seat' = st /\ captain' = cp
             /\ menu' = [mn EXCEPT ![cp[t]] = Spectators(st)]
             /\ turn' = t /\ clock' = [NoClocks EXCEPT ![t] = TRUE]
             /\ UNCHANGED next
    <3>1. TypeOK'
      BY <2>1, <2>3 DEF TurnInv, TypeOK, NoClocks, Spectators, Sitting
    <3> QED
      BY <2>1, <2>3, <3>1 DEF TurnInv, ClockIsTurn, BothOrNone, Picking, NoClocks
  <2> QED
    BY <1>2, <2>2, <2>3 DEF Menu
<1> QED
  BY <1>1, <1>2

LEMMA GetPlayerTurn ==
    ASSUME TurnInv, NEW p \in Clients, NEW x \in Clients,
           NEW mn \in [Clients -> SUBSET Clients], UNCHANGED state, GetPlayer(p, x, mn)
    PROVE  TurnInv'
<1>1. /\ JoinTeam(p, x) \in [Clients -> Seats] /\ Opponent(turn) \in Team
      /\ captain \in [Team -> Clients \cup {NoOne}]
      /\ (\A c \in Team : captain[c] \in Clients)
         \/ (turn = "UNASSIGNED" /\ \A c \in Team : captain[c] = NoOne)
  BY JoinTeamStep DEF TurnInv, TypeOK, BothOrNone, Opponent, Team
<1>2. Menu(Opponent(turn), JoinTeam(p, x), captain, mn, turn) \/ Stop(JoinTeam(p, x), mn)
  BY DEF GetPlayer
<1> QED
  BY <1>1, <1>2, MenuTurn, StopTurn

LEMMA InitTurn == ASSUME TurnInv, CaptainInit PROVE TurnInv'
<1>1. /\ seat \in [Clients -> Seats] /\ menu \in [Clients -> SUBSET Clients] /\ UNCHANGED state
  BY DEF CaptainInit, TurnInv, TypeOK
<1>2. ASSUME NEW a \in Present, NEW b \in Present \ {a}, NEW t \in Team,
             Menu(t, [p \in Clients |-> CASE p = a -> "T"
                                        [] p = b -> "CT"
                                        [] p \in Present \ {a, b} -> "SPECTATOR"
                                        [] OTHER -> "GONE"],
                  [c \in Team |-> IF c = "T" THEN a ELSE b], menu, "UNASSIGNED")
      PROVE  TurnInv'
  <2> DEFINE st == [p \in Clients |-> CASE p = a -> "T"
                                         [] p = b -> "CT"
                                         [] p \in Present \ {a, b} -> "SPECTATOR"
                                         [] OTHER -> "GONE"]
             cp == [c \in Team |-> IF c = "T" THEN a ELSE b]
  <2>1. a \in Clients /\ b \in Clients
    BY DEF Present, InGame, Spectators, Sitting
  <2>2. st \in [Clients -> Seats]
    BY DEF Seats, Team
  <2>3. cp \in [Team -> Clients \cup {NoOne}] /\ \A c \in Team : cp[c] \in Clients
    BY <2>1 DEF Team
  <2>4. Menu(t, st, cp, menu, "UNASSIGNED")
    BY <1>2
  <2> HIDE DEF st, cp
  <2> QED
    BY <1>1, <2>2, <2>3, <2>4, MenuTurn
<1>3. CASE Stop(seat, menu)
  BY <1>1, <1>3, StopTurn
<1> QED
  BY <1>2, <1>3 DEF CaptainInit

LEMMA DisconnectTurn == ASSUME TurnInv, NEW p \in Clients, Disconnect(p) PROVE TurnInv'
<1> DEFINE left == [seat EXCEPT ![p] = "GONE"]
<1>1. left \in [Clients -> Seats] /\ menu \in [Clients -> SUBSET Clients] /\ UNCHANGED state
  BY DEF TurnInv, TypeOK, Seats, Disconnect
<1>2. CASE seat' = left /\ UNCHANGED <<captain, turn, clock, menu, next>>
  BY <1>1, <1>2 DEF TurnInv, TypeOK, ClockIsTurn, BothOrNone, Picking
<1>3. ASSUME NEW t \in Team, captain[t] = p, ReplaceCaptain(t, left, menu) PROVE TurnInv'
  <2>1. Picking /\ turn \in Team /\ \A c \in Team : captain[c] \in Clients
    BY <1>3, ClientsAssumption DEF TurnInv, BothOrNone, Picking
  <2>2. ASSUME NEW x \in Spectators(left),
               Menu(turn, [left EXCEPT ![x] = t], [captain EXCEPT ![t] = x], menu, turn)
        PROVE  TurnInv'
    <3> DEFINE st == [left EXCEPT ![x] = t]
               cp == [captain EXCEPT ![t] = x]
    <3>1. x \in Clients /\ st \in [Clients -> Seats]
      BY <1>1 DEF Spectators, Sitting, Seats
    <3>2. cp \in [Team -> Clients \cup {NoOne}] /\ \A c \in Team : cp[c] \in Clients
      BY <2>1, <3>1 DEF TurnInv, TypeOK
    <3>3. Menu(turn, st, cp, menu, turn)
      BY <2>2
    <3> HIDE DEF st, cp
    <3> QED
      BY <1>1, <2>1, <3>1, <3>2, <3>3, MenuTurn
  <2> QED
    BY <1>1, <1>3, <2>2, StopTurn DEF ReplaceCaptain
<1> QED
  BY <1>2, <1>3 DEF Disconnect, Team

LEMMA TurnInvHolds == Spec => []TurnInv
<1>1. Init => TurnInv
  BY DEF Init, TurnInv, TypeOK, ClockIsTurn, BothOrNone, NoCaptains, NoClocks, NoMenus
<1>2. TurnInv /\ [Next]_vars => TurnInv'
  <2> SUFFICES ASSUME TurnInv, [Next]_vars PROVE TurnInv'
    OBVIOUS
  <2>1. CASE UNCHANGED vars
    BY <2>1 DEF vars, TurnInv, TypeOK, ClockIsTurn, BothOrNone, Picking
  <2>2. CASE RunState
    BY <2>2 DEF RunState, TurnInv, TypeOK, ClockIsTurn, BothOrNone, Picking
  <2>3. ASSUME NEW p \in Clients, Join(p) PROVE TurnInv'
    BY <2>3 DEF Join, TurnInv, TypeOK, ClockIsTurn, BothOrNone, Picking, Seats
  <2>4. ASSUME NEW p \in Clients, NEW x \in Clients, MenuHandle(p, x) PROVE TurnInv'
    <3>1. [menu EXCEPT ![p] = {}] \in [Clients -> SUBSET Clients]
      BY DEF TurnInv, TypeOK
    <3> QED
      BY <2>4, <3>1, GetPlayerTurn DEF MenuHandle
  <2>5. ASSUME NEW t \in Team, GetRandomPlayer(t) PROVE TurnInv'
    <3>1. /\ Picking /\ captain[turn] \in Clients /\ UNCHANGED state
          /\ [menu EXCEPT ![captain[turn]] = {}] \in [Clients -> SUBSET Clients]
      BY <2>5 DEF GetRandomPlayer, TurnInv, TypeOK, BothOrNone, Picking, Team
    <3>2. CASE /\ clock' = [clock EXCEPT ![t] = FALSE]
               /\ menu' = [menu EXCEPT ![captain[turn]] = {}]
               /\ UNCHANGED <<seat, captain, turn, next>>
      BY <3>1, <3>2 DEF TurnInv, TypeOK, ClockIsTurn, BothOrNone, Picking
    <3>3. CASE \E x \in Spectators(seat) :
                  GetPlayer(captain[turn], x, [menu EXCEPT ![captain[turn]] = {}])
      BY <3>1, <3>3, GetPlayerTurn DEF Spectators, Sitting
    <3> QED
      BY <2>5, <3>2, <3>3 DEF GetRandomPlayer
  <2> QED
    BY <2>1, <2>2, <2>3, <2>4, <2>5, InitTurn, DisconnectTurn DEF Next, Clock
<1> QED
  BY <1>1, <1>2, PTL DEF Spec

\* Every variable keeps its type, for any number of clients.
THEOREM TypeCorrect == Spec => []TypeOK
<1>1. TurnInv => TypeOK
  BY DEF TurnInv
<1> QED
  BY <1>1, TurnInvHolds, PTL

\* No clock but that of the captain on turn runs, whoever answers a menu that was left open.
THEOREM ClockCorrect == Spec => []ClockIsTurn
<1>1. TurnInv => ClockIsTurn
  BY DEF TurnInv
<1> QED
  BY <1>1, TurnInvHolds, PTL

-------------------------------------------------------------------------------
(* The captains implement the draft: each step is one of its steps, or     *)
(* leaves seats and turn alone.                                            *)

LEMMA SameCardinality == \A S : D!Cardinality(S) = Cardinality(S)
  BY Zenon DEF Cardinality, D!Cardinality

LEMMA DraftNames ==
  /\ Team = D!Team /\ (Picking <=> D!Drafting)
  /\ \A t \in Team : Opponent(t) = D!Opponent(t) /\ Opponent(t) \in Team
  /\ \A st, t : Sitting(st, t) = D!Side(st, t)
  /\ \A st : Spectators(st) = D!Pool(st)
  /\ \A st : CheckPlayerCount(st) <=> D!Short(st)
<1>1. /\ Team = D!Team /\ (Picking <=> D!Drafting)
      /\ \A t \in Team : Opponent(t) = D!Opponent(t) /\ Opponent(t) \in Team
  BY DEF Team, D!Team, Picking, D!Drafting, Opponent, D!Opponent
<1>2. \A st, t : Sitting(st, t) = D!Side(st, t)
  BY DEF Sitting, D!Side
<1>3. \A st : Spectators(st) = D!Pool(st)
  BY DEF Sitting, D!Side, Spectators, D!Pool
<1>4. \A st : CheckPlayerCount(st) <=> D!Short(st)
  BY SameCardinality DEF Team, D!Team, Sitting, D!Side, Spectators, D!Pool, CheckPlayerCount, D!Short
<1> QED
  BY <1>1, <1>2, <1>3, <1>4

\* A menu for the captain of t is the turn of t.
LEMMA MenuHands ==
    ASSUME NEW t \in Team, NEW st \in [Clients -> Seats], NEW cp \in [Team -> Clients],
           NEW mn, NEW pk, st[cp[t]] = t, Menu(t, st, cp, mn, pk)
    PROVE  D!Hand(t, st)
<1>1. /\ cp[t] # NoOne /\ Spectators(st) = D!Pool(st)
      /\ D!Cardinality(D!Pool(st)) = Cardinality(Spectators(st))
  BY ClientsAssumption, DraftNames, SameCardinality
<1>2. CASE /\ Cardinality(Spectators(st)) = 1
           /\ \E x \in Spectators(st) : Stop([st EXCEPT ![x] = st[cp[t]]], mn)
  BY <1>1, <1>2 DEF Stop, D!Hand
<1>3. CASE Cardinality(Spectators(st)) # 1 /\ seat' = st /\ turn' = t
  BY <1>1, <1>3 DEF D!Hand
<1> QED
  BY <1>1, <1>2, <1>3 DEF Menu

\* Whoever the captain on turn takes, by his menu or by his clock.
LEMMA PickShown ==
    ASSUME Inv, Picking, NEW x \in Spectators(seat), NEW mn, GetPlayer(captain[turn], x, mn)
    PROVE  D!Pick
<1> DEFINE joined == [seat EXCEPT ![x] = turn]
<1>1. /\ turn \in Team /\ x \in Clients /\ seat[x] = "SPECTATOR"
      /\ captain \in [Team -> Clients] /\ \A t \in Team : seat[captain[t]] = t
      /\ seat \in [Clients -> Seats]
  BY DEF Inv, TypeOK, CaptainsPresent, Picking, Spectators, Sitting
<1>2. joined \in [Clients -> Seats] /\ \A t \in Team : joined[captain[t]] = t
  BY <1>1 DEF Seats, Team
<1>3. IF CheckPlayerCount(joined)
      THEN Menu(Opponent(turn), joined, captain, mn, turn)
      ELSE Stop(joined, mn)
  <2>1. JoinTeam(captain[turn], x) = joined
    BY <1>1, JoinTeamStep
  <2> QED
    BY <2>1 DEF GetPlayer
<1> HIDE DEF joined
<1>4. IF D!Short(joined)
      THEN D!Hand(D!Opponent(turn), joined)
      ELSE seat' = joined /\ turn' = "UNASSIGNED"
  BY <1>1, <1>2, <1>3, MenuHands, DraftNames DEF Stop
<1>5. D!Drafting /\ x \in D!Pool(seat)
  BY DraftNames
<1> QED
  BY <1>4, <1>5 DEF D!Pick, joined

\* Nobody is picking: a menu that is still open, people who come and go.
LEMMA FreeStep == ASSUME ~Picking, turn' = turn PROVE D!Free
  BY DraftNames DEF D!Free

\* Whoever the captain on turn chooses on his menu has left.
LEMMA ForfeitShown ==
    ASSUME Inv, Picking, NEW x \in Clients, Left(seat, x), NEW mn, GetPlayer(captain[turn], x, mn)
    PROVE  D!Forfeit
<1>1. /\ turn \in Team /\ seat \in [Clients -> Seats]
      /\ captain \in [Team -> Clients] /\ \A t \in Team : seat[captain[t]] = t
  BY DEF Inv, TypeOK, CaptainsPresent, Picking
<1>2. IF CheckPlayerCount(seat)
      THEN Menu(Opponent(turn), seat, captain, mn, turn)
      ELSE Stop(seat, mn)
  <2>1. JoinTeam(captain[turn], x) = seat
    BY <1>1, JoinTeamStep DEF Left
  <2> QED
    BY <2>1 DEF GetPlayer
<1>3. IF D!Short(seat)
      THEN D!Hand(D!Opponent(turn), seat)
      ELSE seat' = seat /\ turn' = "UNASSIGNED"
  BY <1>1, <1>2, MenuHands, DraftNames DEF Stop
<1>4. D!Drafting /\ x \in D!Side(seat, "GONE") /\ "Leave" \in Events
  BY DraftNames DEF Left, D!Side
<1> QED
  BY <1>3, <1>4 DEF D!Forfeit

LEMMA MenuHandleShown ==
    ASSUME Inv, NEW p \in Clients, NEW x \in Clients, MenuHandle(p, x)
    PROVE  [D!Next]_D!vars
<1>1. CASE Picking
  <2>1. p = captain[turn] /\ (x \in Spectators(seat) \/ Left(seat, x))
    BY <1>1 DEF MenuHandle, Inv, MenuIsTurn, Left, Spectators, Sitting
  <2>2. D!Pick \/ D!Forfeit
    BY <1>1, <2>1, PickShown, ForfeitShown DEF MenuHandle
  <2> QED
    BY <2>2 DEF D!Next
<1>2. CASE ~Picking
  <2>1. turn = "UNASSIGNED" /\ captain[Opponent(turn)] = NoOne
    BY <1>2 DEF Inv, TypeOK, NoneWhileIdle, Picking, Opponent, Team
  <2>2. turn' = turn
    BY <1>2, <2>1 DEF MenuHandle, GetPlayer, Menu, Stop
  <2> QED
    BY <1>2, <2>2, FreeStep DEF D!Next
<1> QED
  BY <1>1, <1>2

LEMMA ClockShown ==
    ASSUME Inv, NEW t \in Team, GetRandomPlayer(t)
    PROVE  [D!Next]_D!vars
<1>1. CASE UNCHANGED <<seat, turn>>
  BY <1>1 DEF D!vars
<1>2. CASE \E x \in Spectators(seat) :
              GetPlayer(captain[turn], x, [menu EXCEPT ![captain[turn]] = {}])
  <2>1. D!Pick
    BY <1>2, PickShown DEF GetRandomPlayer
  <2> QED
    BY <2>1 DEF D!Next
<1> QED
  BY <1>1, <1>2 DEF GetRandomPlayer

LEMMA InitShown == ASSUME Inv, CaptainInit PROVE [D!Next]_D!vars
<1>1. ~Picking /\ seat \in [Clients -> Seats] /\ turn = "UNASSIGNED"
  BY DEF CaptainInit, Inv, TypeOK, Picking
<1>2. ASSUME NEW a \in Present, NEW b \in Present \ {a}, NEW t \in Team,
             Menu(t, [p \in Clients |-> CASE p = a -> "T"
                                        [] p = b -> "CT"
                                        [] p \in Present \ {a, b} -> "SPECTATOR"
                                        [] OTHER -> "GONE"],
                  [c \in Team |-> IF c = "T" THEN a ELSE b], menu, "UNASSIGNED")
      PROVE  D!Open
  <2> DEFINE st == [p \in Clients |-> CASE p = a -> "T"
                                         [] p = b -> "CT"
                                         [] p \in Present \ {a, b} -> "SPECTATOR"
                                         [] OTHER -> "GONE"]
             cp == [c \in Team |-> IF c = "T" THEN a ELSE b]
  <2>1. a \in Clients /\ b \in Clients \ {a}
    BY DEF Present, InGame, Spectators, Sitting
  <2>2. \A p \in Clients : p \in Present <=> seat[p] # "GONE"
    BY <1>1 DEF Present, InGame, Spectators, Sitting, Seats, Team
  <2>3. st = D!Lineup(a, b)
    BY <2>1, <2>2 DEF D!Lineup
  <2>4. st \in [Clients -> Seats] /\ cp \in [Team -> Clients] /\ st[cp[t]] = t
    BY <2>1 DEF Seats, Team
  <2>5. Menu(t, st, cp, menu, "UNASSIGNED")
    BY <1>2
  <2> HIDE DEF st, cp
  <2>6. D!Hand(t, st)
    BY <2>4, <2>5, MenuHands
  <2> QED
    BY <1>1, <2>1, <2>3, <2>6, DraftNames DEF D!Open
<1>3. CASE Stop(seat, menu)
  BY <1>1, <1>3, FreeStep DEF Stop, D!Next
<1> QED
  BY <1>2, <1>3 DEF CaptainInit, D!Next

LEMMA DisconnectShown ==
    ASSUME Inv, NEW p \in Clients, Disconnect(p)
    PROVE  [D!Next]_D!vars
<1> DEFINE left == [seat EXCEPT ![p] = "GONE"]
<1>1. left \in [Clients -> Seats] /\ seat \in [Clients -> Seats]
  BY DEF Inv, TypeOK, Seats
<1>2. CASE ~\E t \in Team : captain[t] = p
  <2>1. seat' = left /\ turn' = turn
    BY <1>2 DEF Disconnect
  <2>2. CASE Picking
    <3>1. D!Leave(p)
      BY <2>1, <2>2, DraftNames DEF Disconnect, D!Leave
    <3> QED
      BY <3>1 DEF D!Next
  <2>3. CASE ~Picking
    BY <2>1, <2>3, FreeStep DEF D!Next
  <2> QED
    BY <2>2, <2>3
<1>3. CASE \E t \in Team : captain[t] = p
  <2>1. PICK t \in Team : captain[t] = p /\ ReplaceCaptain(t, left, menu)
    BY <1>3 DEF Disconnect, Team
  <2>2. Picking /\ turn \in Team /\ captain \in [Team -> Clients] /\ seat[p] = t
        /\ \A c \in Team : seat[captain[c]] = c
    BY <2>1, ClientsAssumption DEF Inv, TypeOK, CaptainsPresent, NoneWhileIdle, Picking
  <2>3. D!Drafting /\ "Leave" \in Events /\ seat[p] # "GONE" /\ seat[p] \in D!Team
        /\ Spectators(left) = D!Pool(left)
    BY <2>2, DraftNames DEF Disconnect
  <2>4. CASE Spectators(left) = {} /\ Stop(left, menu)
    <3>1. D!Leave(p)
      BY <2>3, <2>4 DEF Stop, D!Leave
    <3> QED
      BY <3>1 DEF D!Next
  <2>5. ASSUME NEW x \in Spectators(left),
               Menu(turn, [left EXCEPT ![x] = t], [captain EXCEPT ![t] = x], menu, turn)
        PROVE  D!Leave(p)
    <3> DEFINE st == [left EXCEPT ![x] = t]
               cp == [captain EXCEPT ![t] = x]
    <3>1. x \in Clients /\ seat[x] = "SPECTATOR" /\ x # p
      BY <1>1 DEF Spectators, Sitting
    <3>2. st \in [Clients -> Seats] /\ cp \in [Team -> Clients] /\ st[cp[turn]] = turn
      BY <1>1, <2>1, <2>2, <3>1 DEF Seats, Team
    <3>3. Menu(turn, st, cp, menu, turn)
      BY <2>5
    <3> HIDE DEF st, cp
    <3>4. D!Hand(turn, st)
      <4> HIDE DEF left
      <4> QED
        BY <2>2, <3>2, <3>3, MenuHands
    <3> QED
      BY <2>2, <2>3, <3>4 DEF D!Leave, st
  <2> QED
    BY <2>1, <2>4, <2>5 DEF ReplaceCaptain, D!Next
<1> QED
  BY <1>2, <1>3

LEMMA JoinShown == ASSUME Inv, NEW p \in Clients, Join(p) PROVE [D!Next]_D!vars
<1>1. CASE Picking
  <2>1. seat' = [seat EXCEPT ![p] = "SPECTATOR"] /\ turn' = turn
    BY <1>1 DEF Inv, PickingFirst, Join
  <2>2. D!Join(p)
    BY <1>1, <2>1, DraftNames DEF Join, D!Join
  <2> QED
    BY <2>2 DEF D!Next
<1>2. CASE ~Picking
  BY <1>2, FreeStep DEF Join, D!Next
<1> QED
  BY <1>1, <1>2

LEMMA NextShown == ASSUME Inv, [Next]_vars PROVE [D!Next]_D!vars
<1>1. CASE UNCHANGED <<seat, turn>>
  BY <1>1 DEF D!vars
<1>2. CASE RunState \/ UNCHANGED vars
  BY <1>1, <1>2 DEF RunState, vars
<1> QED
  BY <1>2, InitShown, MenuHandleShown, ClockShown, DisconnectShown, JoinShown DEF Next, Clock

\* For any number of clients, and with every race of menus, clocks, leavers and replacements:
\* the captains do nothing but take players in turn, one for each side, and lose a turn only
\* by choosing somebody who has left, unless somebody comes to a slot left with a menu.
THEOREM DraftImplemented == ASSUME NoInheritance PROVE Spec => ImplementsDraft
<1>1. Init => D!Init
  BY DEF Init, D!Init, Seats, Team, D!Team
<1> QED
  BY <1>1, NextShown, InvHolds, PTL DEF Spec, ImplementsDraft, D!Spec

-------------------------------------------------------------------------------
(* Even teams, of the draft and so of the captains, as long as nobody      *)
(* leaves: of a side that loses a player who is no captain, nobody notices.*)

NoLeavers == "Leave" \notin Events

\* By how many the side that is not on turn is ahead of side t.
Lead(st, t) == Cardinality(Sitting(st, Opponent(t))) - Cardinality(Sitting(st, t))

\* The side on turn is level, or one behind.
Balanced == Picking => Lead(seat, turn) \in {0, 1}

\* Each step of a selection, the last one included, leaves two sides that differ
\* by one player at most.
EvenTeams == [][Picking => Lead(seat', turn) \in -1..1]_vars

LEMMA SideCount ==
    ASSUME NEW st, NEW t
    PROVE  IsFiniteSet(Sitting(st, t)) /\ Cardinality(Sitting(st, t)) \in Nat
BY ClientsAssumption, FS_Subset, FS_CardinalityType DEF Sitting

\* A player who takes a seat in side t.
LEMMA TakeLead ==
    ASSUME NEW st \in [Clients -> Seats], NEW x \in Clients, st[x] \notin Team, NEW t \in Team
    PROVE  /\ Lead(st, t) \in Int
           /\ Lead([st EXCEPT ![x] = t], t) = Lead(st, t) - 1
           /\ Lead([st EXCEPT ![x] = t], Opponent(t)) = 1 - Lead(st, t)
<1> DEFINE taken == [st EXCEPT ![x] = t]
<1>1. /\ Opponent(t) \in Team /\ Opponent(t) # t /\ Opponent(Opponent(t)) = t
  BY DEF Opponent, Team
<1>2. /\ Sitting(taken, t) = Sitting(st, t) \cup {x} /\ x \notin Sitting(st, t)
      /\ Sitting(taken, Opponent(t)) = Sitting(st, Opponent(t))
  BY <1>1 DEF Sitting
<1> HIDE DEF taken
<1>3. Cardinality(Sitting(taken, t)) = Cardinality(Sitting(st, t)) + 1
  BY <1>2, SideCount, FS_AddElement
<1>4. Cardinality(Sitting(st, t)) \in Nat /\ Cardinality(Sitting(st, Opponent(t))) \in Nat
  BY SideCount
<1>5. /\ Lead(st, t) \in Int /\ Lead(taken, t) = Lead(st, t) - 1
      /\ Lead(taken, Opponent(t)) = 1 - Lead(st, t)
  BY <1>1, <1>2, <1>3, <1>4 DEF Lead
<1> QED
  BY <1>5 DEF taken

\* The turn goes to a side that is level or one behind.
LEMMA HandLead ==
    ASSUME NEW t \in Team, NEW st \in [Clients -> Seats], Lead(st, t) \in {0, 1}, D!Hand(t, st)
    PROVE  Balanced' /\ Lead(seat', t) \in -1..1
<1>1. CASE seat' = st /\ turn' = t
  BY <1>1 DEF Balanced
<1>2. CASE turn' = "UNASSIGNED" /\ \E x \in D!Pool(st) : seat' = [st EXCEPT ![x] = t]
  <2>1. PICK x \in D!Pool(st) : seat' = [st EXCEPT ![x] = t]
    BY <1>2
  <2>2. x \in Clients /\ st[x] \notin Team
    BY <2>1 DEF D!Pool, D!Side, Team
  <2>3. Lead(seat', t) = Lead(st, t) - 1
    BY <2>1, <2>2, TakeLead
  <2> QED
    BY <1>2, <2>3 DEF Balanced, Picking, Team
<1> QED
  BY <1>1, <1>2 DEF D!Hand

LEMMA OtherLead ==
    ASSUME NEW st, NEW t \in Team
    PROVE  Lead(st, t) \in Int /\ Lead(st, Opponent(t)) = 0 - Lead(st, t)
<1>1. Opponent(Opponent(t)) = t
  BY DEF Opponent, Team
<1> QED
  BY <1>1, SideCount DEF Lead

LEMMA OpenLead == ASSUME TypeOK, D!Open PROVE Balanced'
<1>1. PICK a \in Clients : \E b \in Clients \ {a}, t \in Team : D!Hand(t, D!Lineup(a, b))
  BY DraftNames DEF D!Open
<1>2. PICK b \in Clients \ {a} : \E t \in Team : D!Hand(t, D!Lineup(a, b))
  BY <1>1
<1>3. PICK t \in Team : D!Hand(t, D!Lineup(a, b))
  BY <1>2
<1> DEFINE st == D!Lineup(a, b)
<1>4. /\ st \in [Clients -> Seats]
      /\ Sitting(st, "T") = {a} /\ Sitting(st, "CT") = {b}
  BY DEF D!Lineup, Seats, Team, Sitting
<1> HIDE DEF st
<1>5. Lead(st, t) = 0
  <2>1. Cardinality(Sitting(st, "T")) = 1 /\ Cardinality(Sitting(st, "CT")) = 1
    BY <1>4, FS_Singleton
  <2>2. t \in Team /\ Opponent(t) \in Team
    BY DEF Opponent, Team
  <2>3. Cardinality(Sitting(st, t)) = 1 /\ Cardinality(Sitting(st, Opponent(t))) = 1
    BY <2>1, <2>2 DEF Team
  <2> QED
    BY <2>3 DEF Lead
<1> QED
  BY <1>3, <1>4, <1>5, HandLead DEF st

LEMMA PickLead ==
    ASSUME TypeOK, Balanced, Picking, D!Pick
    PROVE  Balanced' /\ Lead(seat', turn) \in -1..1
<1> DEFINE joined(x) == [seat EXCEPT ![x] = turn]
<1>1. PICK x \in D!Pool(seat) :
          \/ D!Short(joined(x)) /\ D!Hand(Opponent(turn), joined(x))
          \/ ~D!Short(joined(x)) /\ seat' = joined(x) /\ turn' = "UNASSIGNED"
  BY DraftNames DEF D!Pick, Picking
<1> DEFINE st == joined(x)
<1>2. /\ turn \in Team /\ Opponent(turn) \in Team /\ seat \in [Clients -> Seats]
      /\ x \in Clients /\ seat[x] \notin Team
  BY DraftNames DEF TypeOK, Picking, D!Pool, D!Side, Team
<1>3. /\ st \in [Clients -> Seats]
      /\ Lead(seat, turn) \in {0, 1} /\ Lead(st, turn) = Lead(seat, turn) - 1
      /\ Lead(st, Opponent(turn)) = 1 - Lead(seat, turn)
  BY <1>2, TakeLead DEF Balanced, Seats
<1>4. \/ D!Hand(Opponent(turn), st)
      \/ seat' = st /\ turn' = "UNASSIGNED"
  BY <1>1
<1> HIDE DEF st, joined
<1>5. CASE D!Hand(Opponent(turn), st)
  <2>1. Lead(st, Opponent(turn)) \in {0, 1}
    BY <1>3
  <2>2. Balanced' /\ Lead(seat', Opponent(turn)) \in -1..1
    BY <1>2, <1>3, <1>5, <2>1, HandLead
  <2>3. Lead(seat', turn) \in Int /\ Lead(seat', Opponent(turn)) = 0 - Lead(seat', turn)
    BY <1>2, OtherLead
  <2> QED
    BY <2>2, <2>3
<1>6. CASE seat' = st /\ turn' = "UNASSIGNED"
  BY <1>3, <1>6 DEF Balanced, Picking, Team
<1> QED
  BY <1>4, <1>5, <1>6

LEMMA LeadStep ==
    ASSUME NoLeavers, TypeOK, Balanced, [D!Next]_D!vars
    PROVE  Balanced' /\ (Picking => Lead(seat', turn) \in -1..1)
<1>1. CASE UNCHANGED <<seat, turn>>
  BY <1>1 DEF Balanced, Picking
<1>2. CASE D!Open
  BY <1>2, OpenLead, DraftNames DEF D!Open
<1>3. CASE D!Pick
  BY <1>3, PickLead, DraftNames DEF D!Pick
<1>4. CASE D!Free
  BY <1>4, DraftNames DEF D!Free, Balanced, Picking
<1>5. CASE \E p \in Clients : D!Join(p)
  <2>1. PICK p \in Clients : D!Join(p)
    BY <1>5
  <2>2. /\ turn' = turn /\ Picking /\ turn \in Team
        /\ \A t \in Team : Sitting(seat', t) = Sitting(seat, t)
    BY <2>1, DraftNames DEF D!Join, TypeOK, Sitting, Team, Picking
  <2>3. Lead(seat', turn) = Lead(seat, turn)
    BY <2>2 DEF Lead, Opponent, Team
  <2> QED
    BY <2>2, <2>3 DEF Balanced
<1>6. ~D!Forfeit /\ ~\E p \in Clients : D!Leave(p)
  BY DEF NoLeavers, D!Leave, D!Forfeit
<1> QED
  BY <1>1, <1>2, <1>3, <1>4, <1>5, <1>6 DEF D!Next, D!vars

\* For any number of clients: when nobody leaves while captains pick, the teams they
\* end with differ by one player at most, whoever was the last to be taken and how.
THEOREM EvenTeamsHolds == ASSUME NoLeavers PROVE Spec => EvenTeams
<1>1. Init => Balanced
  BY DEF Init, Balanced, Picking, Team
<1>2. Inv /\ Balanced /\ [Next]_vars => Balanced' /\ (Picking => Lead(seat', turn) \in -1..1)
  BY NextShown, LeadStep DEF Inv
<1> QED
  <2>1. NoInheritance
    BY DEF NoLeavers, NoInheritance
  <2> QED
    BY <1>1, <1>2, <2>1, InvHolds, PTL DEF Spec, EvenTeams

-------------------------------------------------------------------------------
(* The selection goes on: what its liveness rests on, without the fairness *)
(* of the timers.                                                          *)

NoLatecomers == "Join" \notin Events

\* A step of a selection that goes on after it adds no spectators, and when the clock makes
\* it, and there is anybody to pick, it takes one.
TakesOne ==
    Picking /\ Picking' =>
        /\ Spectators(seat') \subseteq Spectators(seat)
        /\ Clock /\ Spectators(seat) # {} => Spectators(seat') # Spectators(seat)

\* Menu ends the selection, or arms the clock of the captain it is for and moves nobody.
LEMMA MenuTimes ==
    ASSUME NEW t \in Team, NEW st, NEW cp, NEW mn, NEW pk, cp[t] # NoOne,
           Menu(t, st, cp, mn, pk)
    PROVE  ~Picking' \/ (seat' = st /\ turn' = t /\ clock'[t])
<1>1. CASE \E x \in Spectators(st) : Stop([st EXCEPT ![x] = st[cp[t]]], mn)
  BY <1>1 DEF Stop, Picking, Team
<1>2. CASE seat' = st /\ turn' = t /\ clock' = [NoClocks EXCEPT ![t] = TRUE]
  BY <1>2 DEF NoClocks
<1> QED
  BY <1>1, <1>2 DEF Menu

\* Whoever is chosen on the turn of a captain, a spectator or one who has left.
LEMMA PickTimes ==
    ASSUME Inv, Picking, NEW p, NEW mn, NEW x \in Clients, seat[x] \notin Team,
           p \in Clients, seat[p] \in Team, GetPlayer(p, x, mn)
    PROVE  /\ TurnTimed'
           /\ Picking' => Spectators(seat') = Spectators(seat) \ {x}
<1> DEFINE joined == JoinTeam(p, x)
<1>1. Spectators(joined) = Spectators(seat) \ {x}
  <2>1. /\ \A q \in Clients \ {x} : joined[q] = seat[q]
        /\ joined[x] # "SPECTATOR"
    BY JoinTeamStep DEF Inv, TypeOK, Team
  <2> HIDE DEF joined
  <2> QED
    BY <2>1 DEF Spectators, Sitting
<1>2. Opponent(turn) \in Team /\ captain[Opponent(turn)] # NoOne
  BY ClientsAssumption DEF Picking, Opponent, Team, Inv, CaptainsPresent
<1>3. CASE Menu(Opponent(turn), joined, captain, mn, turn)
  <2>1. ~Picking' \/ (seat' = joined /\ turn' = Opponent(turn) /\ clock'[Opponent(turn)])
    BY <1>2, <1>3, MenuTimes
  <2> QED
    BY <1>1, <2>1 DEF TurnTimed
<1>4. CASE Stop(joined, mn)
  BY <1>4 DEF Stop, TurnTimed, Picking, Team
<1> QED
  BY <1>3, <1>4 DEF GetPlayer

LEMMA MenuHandleTimes ==
    ASSUME Inv, TurnTimed, NEW p \in Clients, NEW x \in Clients, MenuHandle(p, x)
    PROVE  /\ TurnTimed'
           /\ Picking /\ Picking' => Spectators(seat') \subseteq Spectators(seat)
<1>1. CASE Picking
  <2>1. p = captain[turn] /\ seat[x] \notin Team
    BY <1>1 DEF Inv, MenuIsTurn, MenuHandle, Left, Team
  <2>2. p \in Clients /\ seat[p] \in Team
    BY <1>1, <2>1 DEF Inv, CaptainsPresent, Picking
  <2>3. GetPlayer(p, x, [menu EXCEPT ![p] = {}])
    BY DEF MenuHandle
  <2> QED
    BY <1>1, <2>1, <2>2, <2>3, PickTimes
<1>2. CASE ~Picking
  <2>1. turn = "UNASSIGNED" /\ Opponent(turn) = "CT" /\ captain["CT"] = NoOne
    BY <1>2 DEF Inv, TypeOK, Picking, Opponent, NoneWhileIdle, Team
  <2>2. turn' \in {turn, "UNASSIGNED"}
    BY <2>1 DEF MenuHandle, GetPlayer, Menu, Stop
  <2> QED
    BY <1>2, <2>1, <2>2 DEF TurnTimed, Picking
<1> QED
  BY <1>1, <1>2

LEMMA ClockTimes ==
    ASSUME Inv, TurnTimed, NEW t \in Team, GetRandomPlayer(t)
    PROVE  /\ TurnTimed'
           /\ Picking' => /\ Spectators(seat') \subseteq Spectators(seat)
                          /\ Spectators(seat) # {} => Spectators(seat') # Spectators(seat)
<1>1. Picking /\ captain[turn] \in Clients /\ seat[captain[turn]] \in Team
  BY DEF GetRandomPlayer, Inv, CaptainsPresent, Picking
<1>2. CASE Spectators(seat) = {} /\ seat' = seat
  BY <1>2 DEF TurnTimed
<1>3. ASSUME NEW x \in Spectators(seat),
             GetPlayer(captain[turn], x, [menu EXCEPT ![captain[turn]] = {}])
      PROVE  TurnTimed' /\ (Picking' => Spectators(seat') = Spectators(seat) \ {x})
  <2>1. x \in Clients /\ seat[x] \notin Team
    BY DEF Spectators, Sitting, Team
  <2> QED
    BY <1>1, <1>3, <2>1, PickTimes
<1> QED
  BY <1>2, <1>3 DEF GetRandomPlayer

LEMMA DisconnectTimes ==
    ASSUME Inv, TurnTimed, NEW p \in Clients, Disconnect(p)
    PROVE  /\ TurnTimed'
           /\ Picking /\ Picking' => Spectators(seat') \subseteq Spectators(seat)
<1> DEFINE left == [seat EXCEPT ![p] = "GONE"]
<1>1. Spectators(left) \subseteq Spectators(seat)
  BY DEF Inv, TypeOK, Spectators, Sitting
<1>2. CASE ~\E t \in Team : captain[t] = p
  BY <1>1, <1>2 DEF Disconnect, TurnTimed, Picking
<1>3. CASE \E t \in Team : captain[t] = p
  <2>1. PICK t \in Team : captain[t] = p /\ ReplaceCaptain(t, left, menu)
    BY <1>3 DEF Disconnect, Team
  <2>2. Picking /\ turn \in Team
    BY <2>1, ClientsAssumption DEF Inv, TypeOK, NoneWhileIdle, Picking
  <2>3. CASE Stop(left, menu)
    BY <2>3 DEF Stop, TurnTimed, Picking, Team
  <2>4. ASSUME NEW x \in Spectators(left),
               Menu(turn, [left EXCEPT ![x] = t], [captain EXCEPT ![t] = x], menu, turn)
        PROVE  TurnTimed' /\ (Picking' => Spectators(seat') \subseteq Spectators(seat))
    <3> DEFINE st == [left EXCEPT ![x] = t]
               cp == [captain EXCEPT ![t] = x]
    <3>1. cp[turn] # NoOne
      BY <2>2, ClientsAssumption DEF Inv, TypeOK, CaptainsPresent, Spectators, Sitting
    <3>2. Spectators(st) \subseteq Spectators(seat)
      BY <1>1 DEF Inv, TypeOK, Spectators, Sitting, Team
    <3>3. Menu(turn, st, cp, menu, turn)
      BY <2>4
    <3> HIDE DEF st, cp
    <3>4. ~Picking' \/ (seat' = st /\ turn' = turn /\ clock'[turn])
      BY <2>2, <3>1, <3>3, MenuTimes
    <3> QED
      BY <3>2, <3>4 DEF TurnTimed
  <2> QED
    BY <2>1, <2>3, <2>4 DEF ReplaceCaptain
<1> QED
  BY <1>2, <1>3

LEMMA InitTimes ==
    ASSUME Inv, CaptainInit
    PROVE  ~Picking /\ TurnTimed'
<1>1. ~Picking
  BY DEF CaptainInit
<1>2. ASSUME NEW a \in Present, NEW b \in Present \ {a}, NEW t \in Team,
             Menu(t, [p \in Clients |-> CASE p = a -> "T"
                                        [] p = b -> "CT"
                                        [] p \in Present \ {a, b} -> "SPECTATOR"
                                        [] OTHER -> "GONE"],
                  [c \in Team |-> IF c = "T" THEN a ELSE b], menu, "UNASSIGNED")
      PROVE  TurnTimed'
  <2> DEFINE st == [p \in Clients |-> CASE p = a -> "T"
                                         [] p = b -> "CT"
                                         [] p \in Present \ {a, b} -> "SPECTATOR"
                                         [] OTHER -> "GONE"]
             cp == [c \in Team |-> IF c = "T" THEN a ELSE b]
  <2>1. cp[t] # NoOne
    BY ClientsAssumption DEF Present, InGame, Spectators, Sitting, Team
  <2>2. Menu(t, st, cp, menu, "UNASSIGNED")
    BY <1>2
  <2> HIDE DEF st, cp
  <2>3. ~Picking' \/ (seat' = st /\ turn' = t /\ clock'[t])
    BY <2>1, <2>2, MenuTimes
  <2> QED
    BY <2>3 DEF TurnTimed
<1>3. CASE Stop(seat, menu)
  BY <1>1, <1>3 DEF Stop, TurnTimed, Picking, Team
<1> QED
  BY <1>1, <1>2, <1>3 DEF CaptainInit

LEMMA TimesNext ==
    ASSUME NoLatecomers, Inv, TurnTimed, [Next]_vars
    PROVE  TurnTimed' /\ TakesOne
<1>1. ASSUME UNCHANGED <<seat, turn, clock>> PROVE TurnTimed'
  BY <1>1 DEF TurnTimed, Picking
<1>2. CASE Clock
  BY <1>2, ClockTimes DEF Clock, TakesOne
<1>3. CASE ~Clock
  <2>1. ASSUME NEW p \in Clients, Join(p) PROVE TurnTimed' /\ ~Picking
    <3>1. ~Picking /\ turn' = turn
      BY <2>1 DEF Join, NoLatecomers
    <3> QED
      BY <3>1 DEF TurnTimed, Picking
  <2>2. CASE RunState \/ UNCHANGED vars
    <3>1. UNCHANGED <<seat, turn, clock>>
      BY <2>2 DEF RunState, vars
    <3> QED
      BY <1>1, <1>3, <3>1 DEF TakesOne
  <2> QED
    BY <1>3, <2>1, <2>2, MenuHandleTimes, DisconnectTimes, InitTimes DEF Next, TakesOne
<1> QED
  BY <1>2, <1>3

\* For any number of clients, of whom any may leave: while there is anybody to pick and
\* nobody joins late, the captain on turn has a clock.
THEOREM TurnsAreTimed == ASSUME NoLatecomers PROVE Spec => []TurnTimed
<1>1. Init => TurnTimed
  BY DEF Init, TurnTimed, Picking, Team
<1>2. Inv /\ TurnTimed /\ [Next]_vars => TurnTimed'
  BY TimesNext
<1> QED
  <2>1. NoInheritance
    BY DEF NoLatecomers, NoInheritance
  <2> QED
    BY <1>1, <1>2, <2>1, InvHolds, PTL DEF Spec

\* And each time the clock comes due a spectator is taken, or the selection is over, and
\* nothing adds spectators: after as many turns as there are spectators it is.
THEOREM TurnsTakeOne == ASSUME NoLatecomers PROVE Spec => [][TakesOne]_vars
<1>1. Init => TurnTimed
  BY DEF Init, TurnTimed, Picking, Team
<1>2. Inv /\ TurnTimed /\ [Next]_vars => TurnTimed' /\ [TakesOne]_vars
  BY TimesNext
<1> QED
  <2>1. NoInheritance
    BY DEF NoLatecomers, NoInheritance
  <2> QED
    BY <1>1, <1>2, <2>1, InvHolds, PTL DEF Spec

===============================================================================
