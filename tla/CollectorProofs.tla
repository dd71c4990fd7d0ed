--------------------------- MODULE CollectorProofs ---------------------------
(***************************************************************************)
(* Theorems about the collector, for any number of trades and failures.    *)
(***************************************************************************)
EXTENDS Collector, TLAPS

Connection ==
    [state : {"none", "up", "cut", "silent"}, next : 0 .. MaxTrades + 1, last : 0 .. MaxTrades]

ManagerPhases == {"gone", "connecting", "hung", "sending", "sleeping"}

(* The types again, with the records and the channel spelt out.              *)
Typed ==
    /\ read \in Connection
    /\ handover = <<>> \/ \E c \in Connection : handover = <<c>>
    /\ managers \in [Runs -> [phase : ManagerPhases, stream : Connection]]
    /\ loop \in {"down", "init", "reading"}
    /\ runs \in 0 .. MaxFailures + 1
    /\ loop # "down" => runs \in Runs
    /\ emitted \in 0 .. MaxTrades
    /\ published \subseteq 1 .. MaxTrades /\ lost \subseteq 1 .. MaxTrades
    /\ openings \subseteq 1 .. MaxTrades + 1
    /\ failures \in 0 .. MaxFailures
    /\ \A c \in Connections : c.last <= emitted /\ c.next <= emitted + 1
    /\ \A c \in Connections : c.state # "none" => c.next >= 1

(* The trades that were read, whatever became of their publish.              *)
Delivered == published \union lost

(* Trade t may come next: it comes after one that was read, or begins a      *)
(* connection.                                                               *)
MayComeNext(t) == t \in openings \/ t - 1 \in Delivered

(* The connection has not been read yet: it is where it was opened.          *)
IsUnread(c) == c.state # "none" => c.next \in openings

CollectorInv ==
    /\ Typed
    /\ \A t \in Delivered : MayComeNext(t)
    /\ read.state # "none" => MayComeNext(read.next)
    /\ \A k \in DOMAIN handover : IsUnread(handover[k])
    /\ \A i \in Runs : IsUnread(managers[i].stream)

-----------------------------------------------------------------------------
LEMMA NoneTyped == None \in Connection
    BY CollectorAssumption DEF None, Connection

LEMMA OpenedTyped ==
    ASSUME Typed
    PROVE  Opened \in Connection /\ Opened.state = "up" /\ Opened.next = emitted + 1 /\ Opened.last = 0
    BY CollectorAssumption DEF Typed, Opened, Connection

LEMMA CollectorInit == Init => CollectorInv
<1> SUFFICES ASSUME Init PROVE CollectorInv
    OBVIOUS
<1>1. \A c \in Connections : c = None
    BY DEF Init, Connections, Manager
<1>2. managers \in [Runs -> [phase : ManagerPhases, stream : Connection]]
    BY NoneTyped DEF Init, Manager, ManagerPhases
<1>3. Typed
    BY <1>1, <1>2, NoneTyped, CollectorAssumption DEF Init, Typed, None
<1>4. Delivered = {} /\ read.state = "none" /\ DOMAIN handover = {}
    BY DEF Init, Delivered, None
<1>5. \A i \in Runs : IsUnread(managers[i].stream)
    BY DEF Init, Manager, IsUnread, None
<1>. QED
    BY <1>3, <1>4, <1>5 DEF CollectorInv

-----------------------------------------------------------------------------
(* Types *)

(* Of the connections someone holds, only the trades they have matter.       *)
ConnectionOk(c) == c \in Connection /\ c.last <= emitted /\ c.next <= emitted + 1 /\ (c.state # "none" => c.next >= 1)

LEMMA ConnectionsOk ==
    ASSUME Typed
    PROVE  /\ \A c \in Connections : ConnectionOk(c)
           /\ ConnectionOk(read)
           /\ handover # <<>> => ConnectionOk(Head(handover)) /\ handover = <<Head(handover)>>
           /\ \A i \in Runs : ConnectionOk(managers[i].stream)
           /\ ConnectionOk(None) /\ ConnectionOk(Opened)
<1>1. handover # <<>> => /\ Head(handover) \in Connection /\ handover = <<Head(handover)>>
                         /\ Head(handover) \in Connections
    BY DEF Typed, Connections
<1>2. read \in Connections /\ \A i \in Runs : managers[i].stream \in Connections
    BY DEF Connections
<1>3. \A c \in Connections : c \in Connection
    BY <1>1 DEF Typed, Connections
<1>4. ConnectionOk(None)
    BY NoneTyped, CollectorAssumption DEF Typed, ConnectionOk, None
<1>5. ConnectionOk(Opened)
    BY OpenedTyped, CollectorAssumption DEF Typed, ConnectionOk
<1>6. \A c \in Connections : ConnectionOk(c)
    BY <1>3 DEF Typed, ConnectionOk
<1>. QED
    BY <1>1, <1>2, <1>4, <1>5, <1>6

LEMMA BrokenOk ==
    ASSUME Typed, NEW c, ConnectionOk(c), NEW how \in {"cut", "silent"}, c.state = "up"
    PROVE  ConnectionOk(Broken(c, how))
<1> DEFINE b == Broken(c, how)
<1>1. c \in Connection /\ emitted \in 0 .. MaxTrades /\ MaxTrades \in Nat
    BY CollectorAssumption DEF ConnectionOk, Typed
<1>2. b = [state |-> how, next |-> c.next, last |-> emitted]
    BY DEF Broken
<1>3. c.next \in 0 .. MaxTrades + 1 /\ c.next <= emitted + 1 /\ c.next >= 1
    BY <1>1 DEF ConnectionOk, Connection
<1> HIDE DEF b
<1>4. b \in Connection
    BY <1>1, <1>2, <1>3 DEF Connection
<1>. QED
    BY <1>1, <1>2, <1>3, <1>4 DEF ConnectionOk, b

(* The pieces of Typed that a step has to keep.                              *)
LEMMA TypedFrom ==
    ASSUME Typed, emitted' \in 0 .. MaxTrades, emitted' >= emitted,
           ConnectionOk(read'),
           handover' = <<>> \/ \E c : ConnectionOk(c) /\ handover' = <<c>>,
           managers' \in [Runs -> [phase : ManagerPhases, stream : Connection]],
           \A i \in Runs : ConnectionOk(managers'[i].stream),
           loop' \in {"down", "init", "reading"}, runs' \in 0 .. MaxFailures + 1,
           loop' # "down" => runs' \in Runs,
           published' \subseteq 1 .. MaxTrades, lost' \subseteq 1 .. MaxTrades,
           openings' \subseteq 1 .. MaxTrades + 1, failures' \in 0 .. MaxFailures
    PROVE  Typed'
<1>1. \A c \in Connections' : ConnectionOk(c)
    BY DEF Connections
<1>2. ASSUME NEW c, ConnectionOk(c)
      PROVE  c \in Connection /\ c.last <= emitted' /\ c.next <= emitted' + 1 /\ (c.state # "none" => c.next >= 1)
    BY <1>2, CollectorAssumption DEF ConnectionOk, Connection, Typed
<1>3. handover' = <<>> \/ \E c \in Connection : handover' = <<c>>
    BY <1>2
<1>. QED
    BY <1>1, <1>2, <1>3 DEF Typed

LEMMA ManagerTyped ==
    ASSUME Typed, NEW i \in Runs, NEW phase \in ManagerPhases, NEW c, ConnectionOk(c),
           managers' = [managers EXCEPT ![i] = Manager(phase, c)]
    PROVE  /\ managers' \in [Runs -> [phase : ManagerPhases, stream : Connection]]
           /\ \A j \in Runs : ConnectionOk(managers'[j].stream)
<1>1. Manager(phase, c) \in [phase : ManagerPhases, stream : Connection] /\ Manager(phase, c).stream = c
    BY DEF Manager, ConnectionOk
<1>2. \A j \in Runs : managers'[j] = IF j = i THEN Manager(phase, c) ELSE managers[j]
    BY DEF Typed
<1>. QED
    BY <1>1, <1>2, ConnectionsOk DEF Typed

LEMMA UnreadRange ==
    ASSUME Typed, NEW c, ConnectionOk(c)
    PROVE  /\ Unread(c) \subseteq 1 .. emitted /\ Unread(c) \subseteq 1 .. MaxTrades
           /\ Unread(c) # {} => c.next \in 1 .. emitted /\ c.next \in Unread(c)
    BY CollectorAssumption DEF Unread, ConnectionOk, Connection, Typed

(* The next trade is taken from the connection.                              *)
LEMMA ReadNext ==
    ASSUME Typed, Unread(read) # {}, read' = [read EXCEPT !.next = @ + 1], emitted' = emitted
    PROVE  /\ ConnectionOk(read') /\ read.next \in 1 .. MaxTrades
           /\ read'.state = read.state
           /\ Unread(read) = {read.next} \union Unread(read)'
<1>1. ConnectionOk(read) /\ read \in Connection
    BY ConnectionsOk DEF ConnectionOk
<1>2. /\ read.next \in 1 .. emitted /\ read.next \in 1 .. MaxTrades
      /\ read.last <= emitted /\ read.last \in Nat /\ emitted \in Nat /\ emitted <= MaxTrades
    BY <1>1, UnreadRange, CollectorAssumption DEF ConnectionOk, Connection, Typed
<1>3. read'.state = read.state /\ read'.next = read.next + 1 /\ read'.last = read.last
    BY <1>1 DEF Connection
<1>4. read' \in Connection
    BY <1>1, <1>2, CollectorAssumption DEF Connection
<1>5. ConnectionOk(read')
    BY <1>2, <1>3, <1>4 DEF ConnectionOk
<1>6. ASSUME NEW k \in Nat PROVE read.next <= k => read.next .. k = {read.next} \union (read.next + 1) .. k
    BY <1>2
<1>7. Unread(read) = {read.next} \union Unread(read)'
    BY <1>2, <1>3, <1>6 DEF Unread
<1>. QED
    BY <1>2, <1>3, <1>5, <1>7

LEMMA TypedStep ==
    ASSUME Typed, [Next]_vars
    PROVE  Typed'
<1>1. /\ emitted \in 0 .. MaxTrades /\ failures \in 0 .. MaxFailures
      /\ MaxTrades \in Nat /\ MaxFailures \in Nat
      /\ loop \in {"down", "init", "reading"} /\ runs \in 0 .. MaxFailures + 1
      /\ loop # "down" => runs \in Runs
      /\ published \subseteq 1 .. MaxTrades /\ lost \subseteq 1 .. MaxTrades
      /\ openings \subseteq 1 .. MaxTrades + 1
      /\ managers \in [Runs -> [phase : ManagerPhases, stream : Connection]]
    BY CollectorAssumption DEF Typed
<1>2. /\ ConnectionOk(read) /\ ConnectionOk(None) /\ ConnectionOk(Opened)
      /\ \A i \in Runs : ConnectionOk(managers[i].stream)
      /\ handover = <<>> \/ \E c : ConnectionOk(c) /\ handover = <<c>>
    BY ConnectionsOk
<1>3. CASE Emit
    <2>1. emitted' \in 0 .. MaxTrades /\ emitted' >= emitted
        BY <1>1, <1>3 DEF Emit
    <2>2. UNCHANGED <<managers, runs, loop, read, handover, published, openings, lost, failures>>
        BY <1>3 DEF Emit
    <2>. QED
        BY <1>1, <1>2, <2>1, <2>2, TypedFrom
<1>4. ASSUME NEW i \in Runs, ManagerStep(i) \/ ConnectFails(i) \/ ConnectHangs(i), UNCHANGED managerVars
      PROVE  Typed'
    <2>1. PICK phase, c : phase \in ManagerPhases /\ ConnectionOk(c) /\ managers' = [managers EXCEPT ![i] = Manager(phase, c)]
        BY <1>2, <1>4 DEF ManagerStep, Connect, HandOver, Wake, ConnectFails, ConnectHangs, Becomes, ManagerPhases
    <2>2. handover' = <<>> \/ \E d : ConnectionOk(d) /\ handover' = <<d>>
        BY <1>2, <1>4 DEF ManagerStep, Connect, HandOver, Wake, ConnectFails, ConnectHangs
    <2>3. failures' \in 0 .. MaxFailures
        BY <1>1, <1>4 DEF ManagerStep, Connect, HandOver, Wake, ConnectFails, ConnectHangs, Failure
    <2>4. /\ managers' \in [Runs -> [phase : ManagerPhases, stream : Connection]]
          /\ \A j \in Runs : ConnectionOk(managers'[j].stream)
        BY <2>1, ManagerTyped
    <2>5. UNCHANGED <<emitted, runs, loop, read, published, lost>>
        BY <1>4 DEF managerVars
    <2>6. openings' \subseteq 1 .. MaxTrades + 1
        <3>1. Opened.next \in 1 .. MaxTrades + 1
            BY <1>1, OpenedTyped
        <3>. QED
            BY <1>1, <1>4, <3>1 DEF ManagerStep, Connect, HandOver, Wake, ConnectFails, ConnectHangs
    <2>. QED
        BY <1>1, <1>2, <2>2, <2>3, <2>4, <2>5, <2>6, TypedFrom
<1>5. CASE Start
    <2>1. runs + 1 \in Runs /\ runs + 1 \in 0 .. MaxFailures + 1
        BY <1>1, <1>5 DEF Start, Runs
    <2>2. /\ runs' = runs + 1 /\ loop' = "init"
          /\ managers' = [managers EXCEPT ![runs + 1] = Manager("connecting", None)]
          /\ UNCHANGED <<emitted, read, handover, published, openings, lost, failures>>
        BY <1>5 DEF Start
    <2>3. /\ managers' \in [Runs -> [phase : ManagerPhases, stream : Connection]]
          /\ \A j \in Runs : ConnectionOk(managers'[j].stream)
        BY <1>2, <2>1, <2>2, ManagerTyped DEF ManagerPhases
    <2>. QED
        BY <1>1, <1>2, <2>1, <2>2, <2>3, TypedFrom
<1>6. ASSUME LoopEnds, UNCHANGED <<managers, failures>> PROVE Typed'
    BY <1>1, <1>2, <1>6, TypedFrom DEF LoopEnds
<1>7. ASSUME Adopt, UNCHANGED <<managers, failures>> PROVE Typed'
    <2>1. ConnectionOk(Head(handover)) /\ loop # "down"
        BY <1>7, ConnectionsOk DEF Adopt
    <2>2. /\ loop' = "reading" /\ read' = Head(handover) /\ handover' = <<>>
          /\ UNCHANGED <<emitted, runs, published, openings, lost>>
        BY <1>7 DEF Adopt
    <2>. QED
        BY <1>1, <1>2, <1>7, <2>1, <2>2, TypedFrom
<1>8. ASSUME ReadTrade \/ PublishLost, UNCHANGED managers, failures' \in 0 .. MaxFailures PROVE Typed'
    <2>1. /\ read' = [read EXCEPT !.next = @ + 1] /\ Unread(read) # {}
          /\ UNCHANGED <<emitted, runs, loop, handover, openings>>
          /\ published' \subseteq published \union {read.next} /\ lost' \subseteq lost \union {read.next}
        BY <1>8 DEF ReadTrade, PublishLost
    <2>2. ConnectionOk(read') /\ read.next \in 1 .. MaxTrades
        BY <2>1, ReadNext
    <2>. QED
        BY <1>1, <1>2, <1>8, <2>1, <2>2, TypedFrom
<1>9. CASE Crash
    <2>1. managers' = [i \in Runs |-> Manager("gone", None)] /\ failures' \in 0 .. MaxFailures
        BY <1>1, <1>9 DEF Crash, Failure
    <2>2. managers' \in [Runs -> [phase : ManagerPhases, stream : Connection]]
          /\ \A j \in Runs : ConnectionOk(managers'[j].stream)
        BY <1>2, <2>1, NoneTyped DEF Manager, ManagerPhases
    <2>. QED
        BY <1>1, <1>2, <1>9, <2>1, <2>2, TypedFrom DEF Crash, LoopEnds
<1>10. ASSUME NEW how \in {"cut", "silent"}, Breaks(how) PROVE Typed'
    <2>1. failures' \in 0 .. MaxFailures /\ UNCHANGED <<emitted, runs, loop, published, openings, lost>>
        BY <1>1, <1>10 DEF Breaks, Failure
    <2>2. CASE read.state = "up" /\ read' = Broken(read, how) /\ UNCHANGED <<handover, managers>>
        <3>1. ConnectionOk(read')
            BY <1>2, <2>2, BrokenOk
        <3>. QED
            BY <1>1, <1>2, <2>1, <2>2, <3>1, TypedFrom
    <2>3. CASE /\ handover # <<>> /\ Head(handover).state = "up"
               /\ handover' = <<Broken(Head(handover), how)>> /\ UNCHANGED <<read, managers>>
        <3>1. ConnectionOk(Broken(Head(handover), how))
            BY <2>3, ConnectionsOk, BrokenOk
        <3>. QED
            BY <1>1, <1>2, <2>1, <2>3, <3>1, TypedFrom
    <2>4. ASSUME NEW i \in Runs, managers[i].stream.state = "up",
                 managers' = [managers EXCEPT ![i].stream = Broken(@, how)], UNCHANGED <<read, handover>>
          PROVE  Typed'
        <3>1. ConnectionOk(Broken(managers[i].stream, how))
            BY <1>2, <2>4, BrokenOk
        <3>2. managers' = [managers EXCEPT ![i] = Manager(managers[i].phase, Broken(managers[i].stream, how))]
            <4>1. managers[i] \in [phase : ManagerPhases, stream : Connection]
                BY <1>1
            <4>2. \A x : [managers[i] EXCEPT !.stream = x] = Manager(managers[i].phase, x)
                BY <4>1 DEF Manager
            <4>. QED
                BY <2>4, <4>2
        <3>3. managers[i].phase \in ManagerPhases
            BY <1>1
        <3>4. /\ managers' \in [Runs -> [phase : ManagerPhases, stream : Connection]]
              /\ \A j \in Runs : ConnectionOk(managers'[j].stream)
            BY <3>1, <3>2, <3>3, ManagerTyped
        <3>. QED
            BY <1>1, <1>2, <2>1, <2>4, <3>4, TypedFrom
    <2>. QED
        BY <1>10, <2>2, <2>3, <2>4 DEF Breaks
<1>11. CASE UNCHANGED vars
    BY <1>1, <1>2, <1>11, TypedFrom DEF vars
<1>. QED
    <2>1. CASE LoopStep
        BY <1>1, <1>6, <1>7, <1>8, <2>1 DEF LoopStep, InitFails, ManagerDied, ReadEnds
    <2>2. CASE PublishLost
        BY <1>1, <1>8, <2>2 DEF PublishLost, Failure
    <2>. QED
        BY <1>3, <1>4, <1>5, <1>9, <1>10, <1>11, <2>1, <2>2 DEF Next, ManagerStep, Hangs

-----------------------------------------------------------------------------
(* Gaps *)

(* Once a trade may come next, it always may.                                *)
LEMMA MayStill ==
    ASSUME NEW t, MayComeNext(t), openings \subseteq openings', Delivered \subseteq Delivered'
    PROVE  MayComeNext(t)'
    BY DEF MayComeNext

(* A step that reads no trade: of the connections someone holds afterwards,  *)
(* each was there before, is a broken one of those, or was just opened.      *)
LEMMA NothingRead ==
    ASSUME CollectorInv, Typed', UNCHANGED <<published, lost>>, openings \subseteq openings',
           read'.state # "none" => \/ read.state # "none" /\ read'.next = read.next
                                   \/ read'.next \in openings',
           \A k \in DOMAIN handover' : IsUnread(handover[k])',
           \A i \in Runs : IsUnread(managers[i].stream)'
    PROVE  CollectorInv'
<1>1. Delivered' = Delivered
    BY DEF Delivered
<1>2. \A t \in Delivered' : MayComeNext(t)'
    BY <1>1, MayStill DEF CollectorInv
<1>3. read'.state # "none" => MayComeNext(read.next)'
    BY <1>1 DEF CollectorInv, MayComeNext
<1>. QED
    BY <1>2, <1>3 DEF CollectorInv

LEMMA ManagerUnread ==
    ASSUME Typed, NEW i \in Runs, NEW phase, NEW c,
           \A j \in Runs : IsUnread(managers[j].stream),
           managers' = [managers EXCEPT ![i] = Manager(phase, c)],
           openings \subseteq openings', c.state # "none" => c.next \in openings'
    PROVE  \A j \in Runs : IsUnread(managers[j].stream)'
<1>1. \A j \in Runs : managers'[j] = IF j = i THEN Manager(phase, c) ELSE managers[j]
    BY DEF Typed
<1>2. Manager(phase, c).stream = c
    BY DEF Manager
<1>. QED
    BY <1>1, <1>2 DEF IsUnread

(* The next trade is read: it may come next, and the one after it then may.  *)
LEMMA TradeRead ==
    ASSUME CollectorInv, Typed', Unread(read) # {}, read' = [read EXCEPT !.next = @ + 1],
           Delivered' = Delivered \union {read.next},
           UNCHANGED <<emitted, openings, handover, managers>>
    PROVE  CollectorInv'
<1>1. Typed /\ read.state # "none"
    BY DEF CollectorInv, Unread
<1>2. read.next \in 1 .. MaxTrades /\ read \in Connection
    BY <1>1, ReadNext DEF Typed
<1>3. read'.next - 1 = read.next
    BY <1>2, CollectorAssumption DEF Connection
<1>4. \A t \in Delivered' : MayComeNext(t)'
    BY <1>1, MayStill DEF CollectorInv
<1>5. MayComeNext(read.next)'
    BY <1>3 DEF MayComeNext
<1>. QED
    BY <1>4, <1>5 DEF CollectorInv, IsUnread

LEMMA CollectorStep ==
    ASSUME CollectorInv, [Next]_vars
    PROVE  CollectorInv'
<1>1. /\ Typed /\ Typed' /\ managers \in [Runs -> [phase : ManagerPhases, stream : Connection]]
      /\ \A i \in Runs : IsUnread(managers[i].stream)
      /\ \A k \in DOMAIN handover : IsUnread(handover[k])
    BY TypedStep DEF CollectorInv, Typed
<1>2. None.state = "none" /\ DOMAIN <<>> = {}
    BY DEF None
<1>3. ASSUME UNCHANGED <<read, handover, managers, published, openings, lost>> PROVE CollectorInv'
    BY <1>1, <1>3, NothingRead DEF IsUnread
<1>4. ASSUME NEW i \in Runs, ManagerStep(i) \/ ConnectFails(i) \/ ConnectHangs(i), UNCHANGED managerVars
      PROVE  CollectorInv'
    <2>1. UNCHANGED <<read, published, lost>> /\ openings \subseteq openings'
        BY <1>4 DEF managerVars, ManagerStep, Connect, HandOver, Wake, ConnectFails, ConnectHangs
    <2>2. PICK phase, c : /\ managers' = [managers EXCEPT ![i] = Manager(phase, c)]
                          /\ c.state # "none" => c.next \in openings'
        BY <1>2, <1>4 DEF ManagerStep, Connect, HandOver, Wake, ConnectFails, ConnectHangs, Becomes
    <2>3. \A j \in Runs : IsUnread(managers[j].stream)'
        BY <1>1, <2>1, <2>2, ManagerUnread
    <2>4. handover' = handover \/ handover' = <<managers[i].stream>>
        BY <1>4 DEF ManagerStep, Connect, HandOver, Wake, ConnectFails, ConnectHangs
    <2>5. \A k \in DOMAIN handover' : IsUnread(handover[k])'
        BY <1>1, <2>1, <2>4 DEF IsUnread
    <2>. QED
        BY <1>1, <2>1, <2>3, <2>5, NothingRead
<1>5. CASE Start
    <2>1. runs + 1 \in Runs
        BY <1>1, <1>5, CollectorAssumption DEF Start, Runs, Typed
    <2>2. /\ managers' = [managers EXCEPT ![runs + 1] = Manager("connecting", None)]
          /\ UNCHANGED <<read, handover, published, openings, lost>>
        BY <1>5 DEF Start
    <2>3. \A j \in Runs : IsUnread(managers[j].stream)'
        BY <1>1, <1>2, <2>1, <2>2, ManagerUnread
    <2>. QED
        BY <1>1, <2>2, <2>3, NothingRead DEF IsUnread
<1>6. ASSUME LoopEnds, \A i \in Runs : IsUnread(managers[i].stream)' PROVE CollectorInv'
    BY <1>1, <1>2, <1>6, NothingRead DEF LoopEnds
<1>7. ASSUME Adopt, UNCHANGED managers PROVE CollectorInv'
    <2>1. /\ read' = Head(handover) /\ handover' = <<>>
          /\ UNCHANGED <<published, openings, lost>> /\ handover # <<>>
        BY <1>7 DEF Adopt
    <2>2. IsUnread(Head(handover))
        BY <1>1, <2>1 DEF Typed
    <2>. QED
        BY <1>1, <1>2, <1>7, <2>1, <2>2, NothingRead DEF IsUnread
<1>8. ASSUME ReadTrade \/ PublishLost, UNCHANGED managers PROVE CollectorInv'
    BY <1>1, <1>8, TradeRead DEF ReadTrade, PublishLost, Delivered
<1>9. CASE Crash
    <2>1. managers' = [i \in Runs |-> Manager("gone", None)]
        BY <1>9 DEF Crash
    <2>. QED
        BY <1>2, <1>6, <1>9, <2>1 DEF Crash, Manager, IsUnread
<1>10. ASSUME NEW how \in {"cut", "silent"}, Breaks(how) PROVE CollectorInv'
    <2>1. UNCHANGED <<published, openings, lost>>
        BY <1>10 DEF Breaks
    <2>2. \A c : Broken(c, how).next = c.next
        BY DEF Broken
    <2>3. CASE read.state = "up" /\ read' = Broken(read, how) /\ UNCHANGED <<handover, managers>>
        BY <1>1, <2>1, <2>2, <2>3, NothingRead DEF IsUnread
    <2>4. CASE /\ handover # <<>> /\ Head(handover).state = "up"
               /\ handover' = <<Broken(Head(handover), how)>> /\ UNCHANGED <<read, managers>>
        <3>1. IsUnread(Head(handover))
            BY <1>1, <2>4 DEF Typed
        <3>2. \A k \in DOMAIN handover' : IsUnread(handover[k])'
            BY <2>1, <2>2, <2>4, <3>1 DEF IsUnread
        <3>. QED
            BY <1>1, <2>1, <2>4, <3>2, NothingRead DEF IsUnread
    <2>5. ASSUME NEW i \in Runs, managers[i].stream.state = "up",
                 managers' = [managers EXCEPT ![i].stream = Broken(@, how)], UNCHANGED <<read, handover>>
          PROVE  CollectorInv'
        <3>1. \A j \in Runs : managers'[j].stream =
                  IF j = i THEN Broken(managers[i].stream, how) ELSE managers[j].stream
            BY <1>1, <2>5
        <3>2. \A j \in Runs : IsUnread(managers[j].stream)'
            BY <1>1, <2>1, <2>2, <2>5, <3>1 DEF IsUnread
        <3>. QED
            BY <1>1, <2>1, <2>5, <3>2, NothingRead DEF IsUnread
    <2>. QED
        BY <1>10, <2>3, <2>4, <2>5 DEF Breaks
<1>. QED
    <2>1. CASE LoopStep
        BY <1>1, <1>6, <1>7, <1>8, <2>1 DEF LoopStep, InitFails, ManagerDied, ReadEnds, IsUnread, LoopEnds
    <2>2. CASE PublishLost
        BY <1>8, <2>2 DEF PublishLost
    <2>3. CASE Emit \/ Hangs \/ UNCHANGED vars
        BY <1>3, <2>3 DEF Emit, Hangs, vars
    <2>. QED
        BY <1>4, <1>5, <1>9, <1>10, <2>1, <2>2, <2>3 DEF Next, ManagerStep

LEMMA CollectorInductive == Spec => []CollectorInv
    BY CollectorInit, CollectorStep, PTL DEF Spec

-----------------------------------------------------------------------------
(* Every variable of the collector has its type; the channel never holds     *)
(* more than one connection.                                                 *)
THEOREM CollectorTypes == Spec => []TypeOK
<1>1. ASSUME Typed PROVE TypeOK
    <2>1. ASSUME NEW c \in Connections
          PROVE  /\ c.state \in {"none", "up", "cut", "silent"}
                 /\ c.next \in 0 .. MaxTrades + 1 /\ c.last \in 0 .. MaxTrades
        BY <1>1, ConnectionsOk DEF ConnectionOk, Connection
    <2>2. Len(handover) <= 1
        <3>1. CASE handover = <<>>
            <4>1. Len(<<>>) = 0
                OBVIOUS
            <4>. QED
                BY <3>1, <4>1
        <3>2. ASSUME NEW c \in Connection, handover = <<c>> PROVE Len(handover) <= 1
            <4>1. Len(<<c>>) = 1
                OBVIOUS
            <4>. QED
                BY <3>2, <4>1
        <3>3. handover = <<>> \/ \E c \in Connection : handover = <<c>>
            BY <1>1 DEF Typed
        <3>. QED
            BY <3>1, <3>2, <3>3
    <2>3. \A i \in Runs : managers[i].phase \in ManagerPhases
        BY <1>1 DEF Typed
    <2>. QED
        BY <1>1, <2>1, <2>2, <2>3 DEF TypeOK, Typed, ManagerPhases
<1>2. CollectorInv => Typed
    BY DEF CollectorInv
<1>. QED
    BY <1>1, <1>2, CollectorInductive, PTL

(* Whatever fails, and however connections, managers and runs of the loop    *)
(* interleave, what the stream misses ends where a connection was opened.    *)
THEOREM NothingIsPassedOver == Spec => []GapsEndAtOpenings
<1>1. CollectorInv => GapsEndAtOpenings
    BY DEF CollectorInv, MayComeNext, Delivered, GapsEndAtOpenings
<1>. QED
    BY <1>1, CollectorInductive, PTL

=============================================================================
