-------------------------- MODULE ConnectionsProofs ---------------------------
(***************************************************************************)
(* Proofs about Connections: the delay of who left, the chat limit, and the*)
(* check of who connects.                                                  *)
(***************************************************************************)
EXTENDS Connections, SequenceTheorems, TLAPS

LEMMA NumbersType ==
    /\ ReconnectDelay \in Nat \ {0} /\ FloodTime \in Nat \ {0}
    /\ FloodRepeat \in Nat /\ FloodNext \in Nat
    BY NumbersAssumption

-------------------------------------------------------------------------------

\* What is left of a delay, and the time since the client left, make up the whole of it.
RetryTyped ==
    /\ retry \in [Auths -> Nat \cup {NoEntry}]
    /\ away \in [Auths -> 0..ReconnectDelay]
DelayRuns ==
    \A a \in Auths : IF retry[a] = NoEntry THEN away[a] = ReconnectDelay
                     ELSE away[a] + retry[a] >= ReconnectDelay
RetryInv == RetryTyped /\ DelayRuns

LEMMA RetryInit == Init => RetryInv
    BY NumbersType DEF Init, RetryInv, RetryTyped, DelayRuns, NoEntry

\* Only leaving and time change the delays.
LEMMA RetryChanges ==
    ASSUME [Next]_vars
    PROVE  \/ \E s \in Slots : \E own \in BOOLEAN : Leave(s, own)
           \/ Tick
           \/ UNCHANGED <<retry, away>>
    BY DEF Next, Connect, JoinTeam, Say, Answer, TimedOut, MapChange, vars, connectVars

LEMMA RetryNext == RetryInv /\ [Next]_vars => RetryInv'
    <1> SUFFICES ASSUME RetryInv, [Next]_vars PROVE RetryInv'
        OBVIOUS
    <1> USE NumbersType DEF RetryInv, RetryTyped, DelayRuns, NoEntry
    <1>1. ASSUME NEW s \in Slots, NEW own \in BOOLEAN, Leave(s, own) PROVE RetryInv'
        <2> DEFINE a == holder[s]
        <2>1. \/ UNCHANGED <<retry, away>>
              \/ retry' = [retry EXCEPT ![a] = ReconnectDelay] /\ away' = [away EXCEPT ![a] = 0]
            BY <1>1 DEF Leave, Delayed
        <2> HIDE DEF a
        <2> QED  BY <2>1
    <1>2. CASE Tick
        <2>1. /\ retry' = [a \in Auths |-> Less(retry[a])]
              /\ away' = [a \in Auths |-> IF away[a] < ReconnectDelay THEN away[a] + 1 ELSE away[a]]
            BY <1>2 DEF Tick
        <2>2. RetryTyped'
            BY <2>1 DEF Less
        <2>3. DelayRuns'
            BY <2>1 DEF Less
        <2> QED  BY <2>2, <2>3
    <1> QED  BY <1>1, <1>2, RetryChanges

\* Who comes back has no delay left.
LEMMA RetryStep ==
    ASSUME RetryInv, [Next]_vars, NEW a \in Auths, a \in Present' \ Present
    PROVE  away[a] >= ReconnectDelay
    <1>1. PICK s \in Slots : holder'[s] = a /\ a # Nobody
        BY DEF Present
    <1>2. holder[s] # a
        BY <1>1 DEF Present
    <1>3. ASSUME NEW b \in Auths, NEW r \in Slots, Connect(b, r) PROVE a = b /\ ~(retry[a] > 0)
        BY <1>1, <1>2, <1>3 DEF Connect
    <1>4. ASSUME NEW r, Empty(r) PROVE FALSE
        BY <1>1, <1>2, <1>4 DEF Empty
    <1>5. ASSUME UNCHANGED holder PROVE FALSE
        BY <1>1, <1>2, <1>5
    <1>6. \E b \in Auths : \E r \in Slots : Connect(b, r)
        <2>1. ASSUME NEW i, NEW reached, Answer(i, reached) PROVE FALSE
            BY <1>4, <1>5, <2>1 DEF Answer
        <2>2. ASSUME NEW r \in Slots, NEW own \in BOOLEAN, Leave(r, own) PROVE FALSE
            BY <1>4, <2>2 DEF Leave
        <2> QED
            BY <1>5, <2>1, <2>2 DEF Next, JoinTeam, Say, TimedOut, MapChange, Tick, vars
    <1> QED  BY <1>3, <1>6, NumbersType DEF RetryInv, RetryTyped, DelayRuns, NoEntry

\* For any number of clients and slots and any delay: nobody who left a match comes back
\* before the delay is over.
THEOREM RetriesWait == Spec => RetryWaits
    <1>1. RetryInv /\ [Next]_vars
          => [\A a \in Auths : a \in Present' \ Present => away[a] >= ReconnectDelay]_vars
        BY RetryStep
    <1> QED  BY <1>1, RetryInit, RetryNext, PTL DEF Spec, RetryWaits

-------------------------------------------------------------------------------

\* The messages of a slot that were not early.  Between two of them passes FloodTime, at
\* least, and each pays for one that is.
Paid(s, n) ==
    \/ n = 0 /\ said[s] = 0 /\ flood[s] = 0 /\ until[s] = 0
    \/ /\ n > 0 /\ topic = "chat"
       /\ said[s] <= flood[s] + 2 * n - 1
       /\ time + until[s] >= n * FloodTime
       /\ time >= (n - 1) * FloodTime

ChatTyped ==
    /\ time \in Nat
    /\ said \in [Slots -> Nat] /\ until \in [Slots -> Nat]
    /\ flood \in [Slots -> 0..FloodRepeat]
ChatInv == ChatTyped /\ \A s \in Slots : \E n \in Nat : Paid(s, n)

\* Multiplication, as far as it is needed.
LEMMA OneMore ==
    ASSUME NEW n \in Int
    PROVE  (n + 1) * FloodTime = n * FloodTime + FloodTime
    BY NumbersType

LEMMA ChatInit == Init => ChatInv
    <1> SUFFICES ASSUME Init PROVE ChatInv
        OBVIOUS
    <1>1. ChatTyped
        BY NumbersType DEF Init, ChatTyped
    <1>2. \A s \in Slots : Paid(s, 0)
        BY DEF Init, Paid
    <1> QED  BY <1>1, <1>2 DEF ChatInv

\* One message, early, blocked or neither.
LEMMA SayPaid ==
    ASSUME ChatInv, NEW s \in Slots, Say(s)
    PROVE  \E n \in Nat : Paid(s, n)'
    <1> USE NumbersType DEF ChatTyped
    <1>1. PICK n \in Nat : Paid(s, n)
        BY DEF ChatInv
    <1>2. /\ ChatTyped /\ topic = "chat" /\ topic' = "chat" /\ time' = time
        BY DEF Say, ChatInv
    <1>3. CASE until[s] = 0
        <2>1. /\ until'[s] = FloodTime /\ said'[s] = said[s] + 1
              /\ flood'[s] = Forgiven(flood[s])
            BY <1>2, <1>3 DEF Say
        <2>2. said'[s] <= flood'[s] + 2 * (n + 1) - 1
            BY <1>1, <1>2, <2>1 DEF Paid, Forgiven
        <2>3. time >= n * FloodTime
            BY <1>1, <1>2, <1>3 DEF Paid
        <2>4. time + FloodTime >= (n + 1) * FloodTime
            <3>1. n * FloodTime \in Nat /\ (n + 1) * FloodTime = n * FloodTime + FloodTime
                BY OneMore
            <3> QED  BY <1>2, <2>3, <3>1
        <2>5. Paid(s, n + 1)'
            BY <1>2, <2>1, <2>2, <2>3, <2>4 DEF Paid
        <2> QED  BY <2>5
    <1>4. CASE until[s] > 0
        <2>1. /\ n > 0 /\ said[s] <= flood[s] + 2 * n - 1 /\ time >= (n - 1) * FloodTime
            BY <1>1, <1>4 DEF Paid
        <2>2. /\ until'[s] \in Nat /\ until'[s] >= FloodTime
              /\ \/ said'[s] = said[s] /\ flood'[s] = flood[s]
                 \/ said'[s] = said[s] + 1 /\ flood'[s] = flood[s] + 1
            BY <1>2, <1>4 DEF Say
        <2>3. said'[s] <= flood'[s] + 2 * n - 1
            BY <1>2, <2>1, <2>2
        <2>4. time + until'[s] >= n * FloodTime
            <3>1. (n - 1) * FloodTime \in Nat /\ n * FloodTime = (n - 1) * FloodTime + FloodTime
                BY <2>1, OneMore
            <3> QED  BY <1>2, <2>1, <2>2, <3>1
        <2>5. Paid(s, n)'
            BY <1>2, <2>1, <2>3, <2>4 DEF Paid
        <2> QED  BY <2>5
    <1> QED  BY <1>2, <1>3, <1>4

\* What is left of the delay grows at a map change, and time takes its place otherwise.
LEMMA ChatNext == ChatInv /\ [Next]_vars => ChatInv'
    <1> SUFFICES ASSUME ChatInv, [Next]_vars PROVE ChatInv'
        OBVIOUS
    <1> USE NumbersType
    <1>1. ASSUME NEW s \in Slots, Say(s) PROVE ChatInv'
        <2>1. ChatTyped'
            BY <1>1 DEF Say, ChatInv, ChatTyped, Forgiven
        <2>2. ASSUME NEW r \in Slots, r # s PROVE \E n \in Nat : Paid(r, n)'
            BY <1>1, <2>2 DEF Say, ChatInv, ChatTyped, Paid
        <2>3. \E n \in Nat : Paid(s, n)'
            BY <1>1, SayPaid
        <2> QED  BY <2>1, <2>2, <2>3 DEF ChatInv
    <1>2. CASE MapChange
        <2>1. /\ UNCHANGED <<topic, time, said, flood>>
              /\ until' = [s \in Slots |-> IF until[s] = 0 THEN 0 ELSE FloodTime + FloodNext]
            BY <1>2 DEF MapChange
        <2>2. ChatTyped'
            BY <2>1 DEF ChatInv, ChatTyped
        <2>3. ASSUME NEW s \in Slots PROVE \E n \in Nat : Paid(s, n)'
            <3>1. PICK n \in Nat : Paid(s, n)
                BY DEF ChatInv
            <3>2. CASE until[s] = 0
                BY <2>1, <3>1, <3>2 DEF Paid
            <3>3. CASE until[s] # 0
                <4>1. (n - 1) * FloodTime \in Int /\ n * FloodTime = (n - 1) * FloodTime + FloodTime
                    BY OneMore
                <4>2. time + (FloodTime + FloodNext) >= n * FloodTime
                    BY <3>1, <3>3, <4>1 DEF Paid, ChatInv, ChatTyped
                <4> QED  BY <2>1, <3>1, <3>3, <4>2 DEF Paid
            <3> QED  BY <3>2, <3>3
        <2> QED  BY <2>2, <2>3 DEF ChatInv
    <1>3. CASE Tick
        <2>1. /\ UNCHANGED <<topic, said, flood>>
              /\ time' = IF topic = "chat" THEN time + 1 ELSE time
              /\ until' = [s \in Slots |-> Less(until[s])]
            BY <1>3 DEF Tick
        <2>2. ChatTyped'
            BY <2>1 DEF ChatInv, ChatTyped, Less
        <2>3. ASSUME NEW s \in Slots PROVE \E n \in Nat : Paid(s, n)'
            <3>1. PICK n \in Nat : Paid(s, n)
                BY DEF ChatInv
            <3>2. CASE n = 0
                BY <2>1, <3>1, <3>2 DEF Paid, Less
            <3>3. CASE n > 0
                <4>1. /\ topic = "chat" /\ time' = time + 1
                      /\ time' + until'[s] >= time + until[s]
                    BY <2>1, <3>1, <3>3 DEF Paid, Less, ChatInv, ChatTyped
                <4>2. n * FloodTime \in Int /\ (n - 1) * FloodTime \in Int
                    OBVIOUS
                <4>3. /\ time' + until'[s] >= n * FloodTime /\ time' >= (n - 1) * FloodTime
                    <5> DEFINE due == n * FloodTime
                               last == (n - 1) * FloodTime
                    <5>1. time + until[s] >= due /\ time >= last
                        BY <3>1, <3>3 DEF Paid
                    <5>2. due \in Int /\ last \in Int
                        BY <4>2
                    <5>3. time \in Nat /\ until[s] \in Nat /\ until'[s] \in Nat
                        BY <2>2 DEF ChatInv, ChatTyped
                    <5> HIDE DEF due, last
                    <5>4. time' + until'[s] >= due /\ time' >= last
                        BY <4>1, <5>1, <5>2, <5>3
                    <5> QED  BY <5>4 DEF due, last
                <4> QED  BY <2>1, <3>1, <3>3, <4>1, <4>3 DEF Paid
            <3> QED  BY <3>2, <3>3
        <2> QED  BY <2>2, <2>3 DEF ChatInv
    <1>4. CASE UNCHANGED <<topic, chatVars>>
        BY <1>4 DEF chatVars, ChatInv, ChatTyped, Paid
    <1> QED
        BY <1>1, <1>2, <1>3, <1>4
        DEF Next, Connect, Leave, JoinTeam, Answer, TimedOut, vars

\* The number of whole intervals that have passed.
LEMMA Intervals ==
    ASSUME NEW n \in Nat, NEW t \in Nat, t >= n * FloodTime
    PROVE  n <= t \div FloodTime
    <1> DEFINE q == t \div FloodTime
    <1>1. q \in Nat /\ t < (q + 1) * FloodTime
        BY NumbersType
    <1>2. CASE n >= q + 1
        <2>1. n * FloodTime >= (q + 1) * FloodTime
            <3> HIDE DEF q
            <3> QED  BY <1>1, <1>2, NumbersType
        <2>2. n * FloodTime \in Int /\ (q + 1) * FloodTime \in Int
            BY <1>1, NumbersType
        <2> QED  BY <1>1, <2>1, <2>2
    <1> QED  BY <1>1, <1>2

LEMMA ChatIsPaid == ChatInv => ChatRate
    <1> SUFFICES ASSUME ChatInv, NEW s \in Slots
                 PROVE  said[s] <= FloodRepeat + 1 + 2 * (time \div FloodTime)
        BY DEF ChatRate
    <1>1. PICK n \in Nat : Paid(s, n)
        BY DEF ChatInv
    <1>2. time \in Nat /\ flood[s] \in 0..FloodRepeat /\ said[s] \in Nat
        BY DEF ChatInv, ChatTyped
    <1>3. time \div FloodTime \in Nat
        BY <1>2, NumbersType
    <1>4. CASE n = 0
        BY <1>1, <1>2, <1>3, <1>4, NumbersType DEF Paid
    <1>5. CASE n > 0
        <2>1. n - 1 \in Nat /\ time >= (n - 1) * FloodTime /\ said[s] <= flood[s] + 2 * n - 1
            BY <1>1, <1>5 DEF Paid
        <2>2. n - 1 <= time \div FloodTime
            BY <1>2, <2>1, Intervals
        <2> QED  BY <1>2, <1>3, <2>1, <2>2, NumbersType
    <1> QED  BY <1>4, <1>5

\* For any limits and any order of messages, losses of clients and map changes: over any time
\* a slot gets two messages for each FloodTime through, and FloodRepeat + 1 more.
THEOREM ChatIsLimited == Spec => []ChatRate
    BY ChatInit, ChatNext, ChatIsPaid, PTL DEF Spec

-------------------------------------------------------------------------------

\* A client is in one slot, and one whom the API refuses has a request in flight.
Request == [of : Auths, slot : Slots, left : 0..ApiTimeout]
RequestsTyped == requests \in Seq(Request) /\ holder \in [Slots -> Auths \cup {Nobody}]
OneSlot == \A s, r \in Slots : holder[s] = holder[r] /\ holder[s] # Nobody => s = r
RefusalInv == RequestsTyped /\ OneSlot /\ RefusalPending

\* Slot s has its request, if it needs one.
Asked(s) ==
    \E i \in DOMAIN requests : requests[i].of = holder[s] /\ requests[i].slot = s
Checked(s) == topic = "connect" /\ holder[s] \in Refused \ unchecked => Asked(s)

\* The types leave that to be shown of every slot.
LEMMA SlotIsChecked ==
    ASSUME RefusalInv, NEW s \in Slots
    PROVE  Checked(s)
    BY DEF RefusalInv, RefusalPending, Checked, Asked

LEMMA AllAreChecked ==
    ASSUME RequestsTyped', OneSlot', \A s \in Slots : Checked(s)'
    PROVE  RefusalInv'
    <1>1. ASSUME NEW i \in DOMAIN requests' PROVE requests'[i].left \in 0..ApiTimeout
        <2>1. requests' \in Seq(Request)
            BY DEF RequestsTyped
        <2>2. requests'[i] \in Request
            BY <2>1
        <2> QED  BY <2>2 DEF Request
    <1>2. RefusalPending'
        BY <1>1 DEF RefusalPending, Checked, Asked
    <1> QED  BY <1>2 DEF RefusalInv

LEMMA RefusedType == Refused \subseteq Auths /\ Nobody \notin Refused /\ ApiTimeout \in Nat \ {0}
    BY SetsAssumption, NumbersAssumption

\* Sequences: what is left of one without an element.
LEMMA RemoveKeeps ==
    ASSUME NEW S, NEW q \in Seq(S), NEW i \in DOMAIN q
    PROVE  /\ RemoveAt(q, i) \in Seq(S)
           /\ \A j \in DOMAIN q \ {i} : \E k \in DOMAIN RemoveAt(q, i) : RemoveAt(q, i)[k] = q[j]
    <1> DEFINE front == SubSeq(q, 1, i - 1)
               back == SubSeq(q, i + 1, Len(q))
    <1>1. i \in 1..Len(q) /\ Len(q) \in Nat /\ DOMAIN q = 1..Len(q)
        BY LenProperties
    <1>2. \A j \in 1..Len(q) : q[j] \in S
        BY ElementOfSeq
    <1>3. front \in Seq(S) /\ Len(front) = i - 1 /\ \A j \in 1..(i - 1) : front[j] = q[j]
        <2>1. \A j \in 1..(i - 1) : q[j] \in S
            BY <1>1, <1>2
        <2>2. /\ front \in Seq(S) /\ Len(front) = IF 1 <= i - 1 THEN i - 1 - 1 + 1 ELSE 0
              /\ \A j \in 1..(i - 1 - 1 + 1) : front[j] = q[1 + j - 1]
            BY <1>1, <2>1, SubSeqProperties
        <2> HIDE DEF front
        <2> QED  BY <1>1, <2>2
    <1>4. /\ back \in Seq(S) /\ Len(back) = Len(q) - i
          /\ \A j \in 1..(Len(q) - i) : back[j] = q[i + j]
        <2>1. \A j \in (i + 1)..Len(q) : q[j] \in S
            BY <1>1, <1>2
        <2>2. /\ back \in Seq(S)
              /\ Len(back) = IF i + 1 <= Len(q) THEN Len(q) - (i + 1) + 1 ELSE 0
              /\ \A j \in 1..(Len(q) - (i + 1) + 1) : back[j] = q[i + 1 + j - 1]
            BY <1>1, <2>1, SubSeqProperties
        <2> HIDE DEF back
        <2>3. Len(q) - (i + 1) + 1 = Len(q) - i /\ (~(i + 1 <= Len(q)) => Len(q) - i = 0)
            BY <1>1
        <2>4. \A j \in 1..(Len(q) - i) : i + 1 + j - 1 = i + j
            BY <1>1
        <2>5. Len(back) = Len(q) - i
            BY <2>2, <2>3
        <2>6. \A j \in 1..(Len(q) - i) : back[j] = q[i + 1 + j - 1]
            BY <2>2, <2>3
        <2> QED  BY <2>2, <2>4, <2>5, <2>6
    <1>5. RemoveAt(q, i) = front \o back
        BY DEF RemoveAt
    <1> HIDE DEF front, back
    <1>6. /\ front \o back \in Seq(S) /\ DOMAIN (front \o back) = 1..(Len(q) - 1)
          /\ \A j \in 1..(Len(q) - 1) :
                (front \o back)[j] = IF j <= i - 1 THEN front[j] ELSE back[j - (i - 1)]
        <2>1. /\ front \o back \in Seq(S) /\ Len(front \o back) = Len(front) + Len(back)
              /\ \A j \in 1..(Len(front) + Len(back)) :
                    (front \o back)[j] = IF j <= Len(front) THEN front[j] ELSE back[j - Len(front)]
            BY <1>3, <1>4, ConcatProperties
        <2>2. Len(front) + Len(back) = Len(q) - 1
            BY <1>1, <1>3, <1>4
        <2>3. DOMAIN (front \o back) = 1..Len(front \o back)
            BY <2>1, LenProperties
        <2> DEFINE all == front \o back
        <2> HIDE DEF all
        <2>4. /\ all \in Seq(S) /\ DOMAIN all = 1..(Len(q) - 1)
              /\ \A j \in 1..(Len(q) - 1) : all[j] = IF j <= i - 1 THEN front[j] ELSE back[j - (i - 1)]
            <3>1. /\ all \in Seq(S) /\ Len(all) = Len(q) - 1 /\ DOMAIN all = 1..Len(all)
                BY <2>1, <2>2, <2>3 DEF all
            <3>2. \A j \in 1..(Len(q) - 1) :
                      all[j] = IF j <= Len(front) THEN front[j] ELSE back[j - Len(front)]
                BY <2>1, <2>2 DEF all
            <3>3. Len(front) = i - 1
                BY <1>3
            <3> QED  BY <3>1, <3>2, <3>3
        <2> QED  BY <2>4 DEF all
    <1>7. ASSUME NEW j \in DOMAIN q \ {i}
          PROVE  \E k \in DOMAIN (front \o back) : (front \o back)[k] = q[j]
        <2>1. j \in 1..Len(q) /\ j # i
            BY <1>1
        <2>2. CASE j < i
            <3>1. j \in 1..(Len(q) - 1) /\ j <= i - 1 /\ j \in 1..(i - 1)
                BY <1>1, <2>1, <2>2
            <3>2. (front \o back)[j] = q[j]
                BY <1>3, <1>6, <3>1
            <3> QED  BY <1>6, <3>1, <3>2
        <2>3. CASE j > i
            <3>1. /\ j - 1 \in 1..(Len(q) - 1) /\ ~(j - 1 <= i - 1)
                  /\ (j - 1) - (i - 1) \in 1..(Len(q) - i) /\ i + ((j - 1) - (i - 1)) = j
                BY <1>1, <2>1, <2>3
            <3>2. (front \o back)[j - 1] = q[j]
                BY <1>4, <1>6, <3>1
            <3> QED  BY <1>6, <3>1, <3>2
        <2> QED  BY <1>1, <2>1, <2>2, <2>3
    <1> QED  BY <1>5, <1>6, <1>7

LEMMA RefusalInit == Init => RefusalInv
    BY RefusedType DEF Init, RefusalInv, RequestsTyped, OneSlot, RefusalPending

LEMMA ConnectAsks ==
    ASSUME RefusalInv, NEW a \in Auths, NEW s \in Slots, Connect(a, s)
    PROVE  RefusalInv'
    <1> DEFINE new == [of |-> a, slot |-> s, left |-> ApiTimeout]
    <1>1. /\ a \notin Present /\ holder[s] = Nobody /\ UNCHANGED <<topic, unchecked>>
          /\ requests' \in {requests, Append(requests, new)}
          /\ \/ holder' = holder
             \/ holder' = [holder EXCEPT ![s] = a] /\ ~(retry[a] > 0)
        BY DEF Connect
    <1>2. holder'[s] = a /\ topic = "connect" /\ ~(retry[a] > 0) => requests' = Append(requests, new)
        BY DEF Connect
    <1>3. new \in Request /\ requests \in Seq(Request)
        BY RefusedType DEF Request, RefusalInv, RequestsTyped
    <1> HIDE DEF new
    <1>4. /\ requests' \in Seq(Request)
          /\ \A i \in DOMAIN requests : i \in DOMAIN requests' /\ requests'[i] = requests[i]
          /\ requests' = Append(requests, new) => \E i \in DOMAIN requests' : requests'[i] = new
        <2>1. CASE requests' = requests
            BY <1>3, <2>1
        <2>2. CASE requests' = Append(requests, new)
            BY <1>3, <2>2
        <2> QED  BY <1>1, <1>3, <2>1, <2>2
    <1>5. RequestsTyped'
        BY <1>1, <1>4 DEF RefusalInv, RequestsTyped
    <1>6. OneSlot'
        BY <1>1 DEF RefusalInv, RequestsTyped, OneSlot, Present
    <1>7. ASSUME NEW r \in Slots PROVE Checked(r)'
        <2>1. Checked(r)
            BY SlotIsChecked
        <2>2. CASE holder'[r] = holder[r]
            BY <1>1, <1>4, <2>1, <2>2 DEF Checked, Asked
        <2>3. CASE holder'[r] # holder[r]
            <3>1. r = s /\ holder'[s] = a /\ ~(retry[a] > 0)
                BY <1>1, <2>3 DEF RefusalInv, RequestsTyped
            <3>2. topic' = "connect" => \E i \in DOMAIN requests' : requests'[i] = new
                BY <1>1, <1>2, <1>4, <3>1
            <3> QED  BY <3>1, <3>2 DEF Checked, Asked, new
        <2> QED  BY <2>2, <2>3
    <1> QED  BY <1>5, <1>6, <1>7, AllAreChecked

\* A slot is emptied, and whoever was in it is no longer of interest.
LEMMA EmptyChecks ==
    ASSUME RefusalInv, NEW s \in Slots, Empty(s), unchecked' = unchecked \ {holder[s]},
           topic' = topic, NEW r \in Slots,
           holder'[r] = holder[r] => (Asked(r) => Asked(r)')
    PROVE  Checked(r)'
    <1>1. holder' = [holder EXCEPT ![s] = Nobody] /\ holder \in [Slots -> Auths \cup {Nobody}]
        BY DEF Empty, RefusalInv, RequestsTyped
    <1>2. CASE r = s
        BY <1>1, <1>2, RefusedType DEF Checked
    <1>3. CASE r # s
        <2>1. holder'[r] = holder[r] /\ (holder[r] # Nobody => holder[r] # holder[s])
            BY <1>1, <1>3 DEF RefusalInv, OneSlot
        <2>2. Checked(r)
            BY SlotIsChecked
        <2> QED  BY <2>1, <2>2, RefusedType DEF Checked
    <1> QED  BY <1>2, <1>3

LEMMA EmptyTypes ==
    ASSUME RequestsTyped, OneSlot, NEW s \in Slots, Empty(s), requests' \in Seq(Request)
    PROVE  RequestsTyped' /\ OneSlot'
    BY DEF RequestsTyped, OneSlot, Empty

\* An answer takes its own request, and the client it is about if it refuses him.
LEMMA AnswerChecks ==
    ASSUME RefusalInv, NEW i \in DOMAIN requests, NEW reached \in BOOLEAN, Answer(i, reached)
    PROVE  RefusalInv'
    <1> DEFINE request == requests[i]
    <1>1. requests \in Seq(Request) /\ request \in Request /\ request.slot \in Slots
        <2>1. requests \in Seq(Request)
            BY DEF RefusalInv, RequestsTyped
        <2>2. request \in Request
            BY <2>1
        <2> QED  BY <2>1, <2>2 DEF Request
    <1>2. requests' = RemoveAt(requests, i) /\ topic' = topic
        BY DEF Answer
    <1>3. /\ requests' \in Seq(Request)
          /\ \A j \in DOMAIN requests \ {i} : \E k \in DOMAIN requests' : requests'[k] = requests[j]
        BY <1>1, <1>2, RemoveKeeps
    <1>4. ASSUME NEW r \in Slots, holder'[r] = holder[r], Asked(r)
          PROVE  Asked(r)' \/ (request.of = holder[r] /\ request.slot = r)
        BY <1>3, <1>4 DEF Asked
    <1>5. CASE Refuses(request, reached)
        <2>1. Empty(request.slot) /\ unchecked' = unchecked \ {holder[request.slot]}
            BY <1>5 DEF Answer
        <2>2. RequestsTyped' /\ OneSlot'
            BY <1>1, <1>3, <2>1, EmptyTypes DEF RefusalInv
        <2>3. ASSUME NEW r \in Slots PROVE Checked(r)'
            <3>1. CASE r = request.slot
                BY <1>1, <2>1, <3>1, RefusedType DEF Empty, RefusalInv, RequestsTyped, Checked
            <3>2. CASE r # request.slot
                <4>1. holder'[r] = holder[r] => (Asked(r) => Asked(r)')
                    BY <1>4, <3>2
                <4> HIDE DEF request
                <4> QED  BY <1>1, <1>2, <2>1, <4>1, EmptyChecks
            <3> QED  BY <3>1, <3>2
        <2> QED  BY <2>2, <2>3, AllAreChecked
    <1>6. CASE ~Refuses(request, reached)
        <2>1. UNCHANGED <<holder, unchecked>> /\ request.of \notin Refused
            BY <1>6 DEF Answer, Refuses
        <2>2. RequestsTyped' /\ OneSlot'
            BY <1>3, <2>1 DEF RefusalInv, RequestsTyped, OneSlot
        <2>3. ASSUME NEW r \in Slots PROVE Checked(r)'
            <3>1. Checked(r)
                BY SlotIsChecked
            <3> QED  BY <1>2, <1>4, <2>1, <3>1 DEF Checked
        <2> QED  BY <2>2, <2>3, AllAreChecked
    <1> QED  BY <1>5, <1>6

LEMMA RefusalNext == RefusalInv /\ [Next]_vars => RefusalInv'
    <1> SUFFICES ASSUME RefusalInv, [Next]_vars PROVE RefusalInv'
        OBVIOUS
    <1>1. ASSUME NEW s \in Slots, NEW own \in BOOLEAN, Leave(s, own) PROVE RefusalInv'
        <2>1. /\ Empty(s) /\ unchecked' = unchecked \ {holder[s]} /\ UNCHANGED <<topic, requests>>
            BY <1>1 DEF Leave
        <2>2. RequestsTyped' /\ OneSlot'
            BY <2>1, EmptyTypes DEF RefusalInv, RequestsTyped
        <2>3. ASSUME NEW r \in Slots PROVE Checked(r)'
            <3>1. holder'[r] = holder[r] => (Asked(r) => Asked(r)')
                BY <2>1 DEF Asked
            <3> QED  BY <2>1, <3>1, EmptyChecks
        <2> QED  BY <2>2, <2>3, AllAreChecked
    <1>2. CASE MapChange
        <2>1. /\ requests' = <<>> /\ UNCHANGED <<topic, holder>>
              /\ unchecked' = unchecked \cup ({requests[i].of : i \in DOMAIN requests} \cap Present)
            BY <1>2 DEF MapChange
        <2>2. RequestsTyped' /\ OneSlot'
            BY <2>1 DEF RefusalInv, RequestsTyped, OneSlot
        <2>3. ASSUME NEW r \in Slots PROVE Checked(r)'
            <3>1. Checked(r)
                BY SlotIsChecked
            <3>2. holder[r] # Nobody => holder[r] \in Present
                BY DEF Present
            <3> QED  BY <2>1, <3>1, <3>2, RefusedType DEF Checked, Asked
        <2> QED  BY <2>2, <2>3, AllAreChecked
    <1>3. CASE Tick
        <2>1. /\ \A i \in DOMAIN requests : requests[i].left # 0
              /\ requests' = [i \in DOMAIN requests |-> [requests[i] EXCEPT !.left = @ - 1]]
              /\ UNCHANGED <<topic, holder, unchecked>>
            BY <1>3 DEF Tick, Due
        <2>2. requests \in Seq(Request) /\ \A i \in DOMAIN requests : requests[i] \in Request
            <3>1. requests \in Seq(Request)
                BY DEF RefusalInv, RequestsTyped
            <3> QED  BY <3>1
        <2>3. ASSUME NEW i \in DOMAIN requests
              PROVE  /\ requests'[i] \in Request
                     /\ requests'[i].of = requests[i].of /\ requests'[i].slot = requests[i].slot
            <3> DEFINE request == requests[i]
            <3>1. /\ request.of \in Auths /\ request.slot \in Slots /\ request.left \in 0..ApiTimeout
                  /\ request = [of |-> request.of, slot |-> request.slot, left |-> request.left]
                BY <2>2 DEF Request
            <3>2. request.left - 1 \in 0..ApiTimeout
                BY <2>1, <3>1, RefusedType
            <3>3. requests'[i] = [request EXCEPT !.left = request.left - 1]
                BY <2>1
            <3> HIDE DEF request
            <3>4. requests'[i] = [of |-> request.of, slot |-> request.slot, left |-> request.left - 1]
                BY <3>1, <3>3
            <3>5. requests'[i] \in Request
                BY <3>1, <3>2, <3>4 DEF Request
            <3> QED  BY <3>4, <3>5 DEF request
        <2>4. requests' \in Seq(Request)
            <3>1. DOMAIN requests' = 1..Len(requests) /\ Len(requests) \in Nat
                BY <2>1, <2>2, LenProperties
            <3>2. \A i \in 1..Len(requests) : requests'[i] \in Request
                BY <2>1, <2>3, <3>1
            <3>3. requests' = [i \in 1..Len(requests) |-> requests'[i]]
                BY <2>1, <3>1
            <3>4. requests' \in [1..Len(requests) -> Request]
                BY <3>2, <3>3
            <3> QED  BY <3>1, <3>4, SeqDef
        <2>5. RequestsTyped' /\ OneSlot'
            BY <2>1, <2>4 DEF RefusalInv, RequestsTyped, OneSlot
        <2>6. ASSUME NEW r \in Slots PROVE Checked(r)'
            <3>1. Checked(r)
                BY SlotIsChecked
            <3>2. DOMAIN requests' = DOMAIN requests
                BY <2>1
            <3>3. Asked(r) => Asked(r)'
                BY <2>1, <2>3, <3>2 DEF Asked
            <3> QED  BY <2>1, <3>1, <3>3 DEF Checked
        <2> QED  BY <2>5, <2>6, AllAreChecked
    <1>4. CASE UNCHANGED <<topic, holder, requests, unchecked>>
        BY <1>4 DEF RefusalInv, RequestsTyped, OneSlot, RefusalPending
    <1>5. CASE TimedOut
        BY <1>5, AnswerChecks DEF TimedOut
    <1> QED
        BY <1>1, <1>2, <1>3, <1>4, <1>5, ConnectAsks, AnswerChecks
        DEF Next, JoinTeam, Say, vars, connectVars

\* For any number of clients, slots and requests in flight, with answers in any order and
\* clients who leave and come back in other slots: the check of a client whom the API refuses
\* is in flight until he has left, unless a map change forgot it, and runs out in time.
THEOREM RefusalIsPending == Spec => []RefusalPending
    <1>1. RefusalInv => RefusalPending
        BY DEF RefusalInv
    <1> QED  BY <1>1, RefusalInit, RefusalNext, PTL DEF Spec
===============================================================================
