----------------------------- MODULE Connections -----------------------------
(***************************************************************************)
(* What the plugin does to clients whatever the match is at: the check of  *)
(* a new client by the API (CAuth) through the HTTP client (CLibCurl), the *)
(* delay before a player who left may come back (CAntiRetry), and the chat *)
(* limit (CAntiFlood).  Requests and chat counters are kept by slot, which *)
(* the next client takes over; delays are kept by authentication id.       *)
(*                                                                         *)
(* "connect" and "chat" behaviours are apart: they share the slots alone.  *)
(* The unit of time is the second in the one, that of FloodTime in the     *)
(* other.  Answers of the API are those to requests in flight; libcurl and *)
(* the API are external.                                                   *)
(***************************************************************************)
EXTENDS Integers, FiniteSets, Sequences, SequencesExt

CONSTANTS
    Auths, Slots, Nobody,   \* authentication ids; entity indexes; an empty slot
    Admins,                 \* users.ini
    Refused,                \* those to whom the API answers with a kick
    ApiTimeout,             \* CURLOPT_TIMEOUT
    ReconnectDelay,         \* pug_reconnect_delay, with pug_reconnect_ban_time 0
    FloodTime,              \* pug_flood_time
    FloodRepeat, FloodNext, \* MAX_FLOOD_REPEAT, MIN_FLOOD_NEXT_TIME
    MaxRequests, MaxTime    \* bounds: requests in flight, time of the chat

ASSUME SetsAssumption ==
    /\ IsFiniteSet(Auths) /\ IsFiniteSet(Slots) /\ Nobody \notin Auths
    /\ Admins \subseteq Auths /\ Refused \subseteq Auths
ASSUME NumbersAssumption ==
    /\ {ApiTimeout, ReconnectDelay, FloodTime} \subseteq Nat \ {0}
    /\ {FloodRepeat, FloodNext, MaxRequests, MaxTime} \subseteq Nat

NoEntry == -1

VARIABLES
    topic,
    holder,     \* who is in a slot
    inTeam,     \* slots whose client plays for T or CT
    requests,   \* CLibCurl::m_Data with its transfers, in the order they were sent
    retry,      \* CAntiRetry::m_Data as seconds left, or NoEntry
    flood,      \* CAntiFlood::m_Flood
    until,      \* CAntiFlood::m_Flooding as time left
    away,       \* history: seconds since a client left its team, up to ReconnectDelay
    unchecked,  \* history: clients whose check a map change has forgotten
    said, time  \* history: messages let through of a slot, the time of the chat

connectVars == <<requests, retry, away, unchecked>>
chatVars == <<flood, until, said, time>>
vars == <<topic, holder, inTeam, connectVars, chatVars>>

Present == {holder[s] : s \in Slots} \ {Nobody}

Init ==
    /\ topic \in {"connect", "chat"}
    /\ holder = [s \in Slots |-> Nobody] /\ inTeam = {}
    /\ requests = <<>> /\ retry = [a \in Auths |-> NoEntry]
    /\ away = [a \in Auths |-> ReconnectDelay] /\ unchecked = {}
    /\ flood = [s \in Slots |-> 0] /\ until = [s \in Slots |-> 0]
    /\ said = [s \in Slots |-> 0] /\ time = 0

-------------------------------------------------------------------------------
(* Clients connect and leave.                                              *)

Empty(s) == holder' = [holder EXCEPT ![s] = Nobody] /\ inTeam' = inTeam \ {s}

\* ReAPI_ClientConnected: CAntiRetry drops a client who is too early, and CAuth asks the API
\* about the slot all the same if the engine still has an id for it.
Connect(a, s) ==
    /\ a \notin Present /\ holder[s] = Nobody /\ Len(requests) < MaxRequests
    /\ holder' = IF retry[a] > 0 THEN holder ELSE [holder EXCEPT ![s] = a]
    /\ \E asked \in IF retry[a] > 0 THEN BOOLEAN ELSE {topic = "connect"} :
        requests' = IF asked THEN Append(requests, [of |-> a, slot |-> s, left |-> ApiTimeout])
                    ELSE requests
    /\ UNCHANGED <<topic, inTeam, retry, away, unchecked, chatVars>>

\* A mutant: std::map::insert without the erase keeps the entry that is there.
DelayedKept(a) == [retry EXCEPT ![a] = IF @ = NoEntry THEN ReconnectDelay ELSE @]

Delayed(a) == [retry EXCEPT ![a] = ReconnectDelay]

\* ReAPI_SV_DropClient for a client who leaves of his own will, or for another reason.
Leave(s, own) ==
    LET a == holder[s]
        noted == own /\ a \notin Admins /\ s \in inTeam
    IN /\ a # Nobody
       /\ Empty(s)
       /\ retry' = IF noted THEN Delayed(a) ELSE retry
       /\ away' = IF noted THEN [away EXCEPT ![a] = 0] ELSE away
       /\ unchecked' = unchecked \ {a}
       /\ UNCHANGED <<topic, requests, chatVars>>

JoinTeam(s) ==
    /\ topic = "connect" /\ holder[s] # Nobody
    /\ inTeam' = inTeam \cup {s}
    /\ UNCHANGED <<topic, holder, connectVars, chatVars>>

-------------------------------------------------------------------------------
(* CLibCurl::Frame and CAuth::RequestCallback.                             *)

\* A mutant: a request that fails lets the client play.
RefusesReached(request, reached) == reached /\ request.of \in Refused

Refuses(request, reached) == ~reached \/ request.of \in Refused

\* The answer, or the failure, of a transfer concerns whoever is in the slot by now.
Answer(i, reached) ==
    LET request == requests[i]
    IN /\ requests' = RemoveAt(requests, i)
       /\ IF Refuses(request, reached)
          THEN Empty(request.slot) /\ unchecked' = unchecked \ {holder[request.slot]}
          ELSE UNCHANGED <<holder, inTeam, unchecked>>
       /\ UNCHANGED <<topic, retry, away, chatVars>>

Due(i) == requests[i].left = 0
TimedOut == \E i \in DOMAIN requests : Due(i) /\ Answer(i, FALSE)

\* CLibCurl::Init forgets the transfers; the clients stay connected.  The clock of the engine
\* starts again, so that what is left of a chat delay grows.
MapChange ==
    /\ requests' = <<>>
    /\ unchecked' = unchecked \cup ({requests[i].of : i \in DOMAIN requests} \cap Present)
    /\ inTeam' = {}
    /\ until' = [s \in Slots |-> IF until[s] = 0 THEN 0 ELSE FloodTime + FloodNext]
    /\ UNCHANGED <<topic, holder, retry, away, flood, said, time>>

-------------------------------------------------------------------------------
(* CAntiFlood::ClientCommand.                                              *)

\* A mutant: one pause forgives everything.
ForgivenAll(n) == 0

Forgiven(n) == IF n > 0 THEN n - 1 ELSE 0

Say(s) ==
    LET early == until[s] > 0
        blocked == early /\ flood[s] >= FloodRepeat
    IN /\ topic = "chat" /\ holder[s] # Nobody
       /\ until' = [until EXCEPT ![s] = FloodTime + IF blocked THEN FloodNext ELSE 0]
       /\ flood' = [flood EXCEPT ![s] = IF blocked THEN @ ELSE IF early THEN @ + 1 ELSE Forgiven(@)]
       /\ said' = IF blocked THEN said ELSE [said EXCEPT ![s] = @ + 1]
       /\ UNCHANGED <<topic, holder, inTeam, connectVars, time>>

-------------------------------------------------------------------------------

Less(n) == IF n > 0 THEN n - 1 ELSE n

\* Time passes when no transfer has run out of it.
Tick ==
    /\ \A i \in DOMAIN requests : ~Due(i)
    /\ topic = "chat" => time < MaxTime
    /\ requests' = [i \in DOMAIN requests |-> [requests[i] EXCEPT !.left = @ - 1]]
    /\ retry' = [a \in Auths |-> Less(retry[a])]
    /\ away' = [a \in Auths |-> IF away[a] < ReconnectDelay THEN away[a] + 1 ELSE away[a]]
    /\ until' = [s \in Slots |-> Less(until[s])]
    /\ time' = IF topic = "chat" THEN time + 1 ELSE time
    /\ UNCHANGED <<topic, holder, inTeam, unchecked, flood, said>>

Next ==
    \/ \E s \in Slots :
        \/ \E a \in Auths : Connect(a, s)
        \/ \E own \in BOOLEAN : Leave(s, own)
        \/ JoinTeam(s)
        \/ Say(s)
    \/ \E i \in DOMAIN requests : \E reached \in BOOLEAN : Answer(i, reached)
    \/ TimedOut \/ MapChange \/ Tick

\* Frames come, and libcurl gives up a transfer after its time.
Spec == Init /\ [][Next]_vars /\ WF_vars(Tick) /\ WF_vars(TimedOut)

-------------------------------------------------------------------------------
(* Properties.                                                             *)

\* A client whom the API refuses, or about whom it cannot be asked, does not stay: transfers
\* fail, finish in any order, and clients leave and come back before the answer.  Only a map
\* change lets him stay, because it forgets the requests in flight.
RefusedLeave ==
    topic = "connect" => \A a \in Refused : a \in Present ~> a \notin Present \/ a \in unchecked

\* Until then his check is not forgotten: as long as he stays, a request about himself in his
\* own slot is in flight and has ApiTimeout at most, whatever is answered about those who had
\* the slot before or about him in another one.
RefusalPending ==
    topic = "connect" =>
        \A s \in Slots : holder[s] \in Refused \ unchecked =>
            \E i \in DOMAIN requests :
                /\ requests[i].of = holder[s] /\ requests[i].slot = s
                /\ requests[i].left \in 0..ApiTimeout

\* Who leaves a match of his own will does not come back before pug_reconnect_delay, the second
\* time he leaves either (Cvars.cpp: "Anti Reconnect time in seconds").
RetryWaits ==
    [][\A a \in Auths : a \in Present' \ Present => away[a] >= ReconnectDelay]_vars

\* The chat limit: over any time the messages of a slot are at most two for each FloodTime, one
\* in time and one early, besides those that may come early at once; whoever is in the slot.
ChatRate ==
    \A s \in Slots : said[s] <= FloodRepeat + 1 + 2 * (time \div FloodTime)

===============================================================================
