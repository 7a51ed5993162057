---------------------------- MODULE ServiceProofs ----------------------------
(***************************************************************************)
(* What holds of Service for any clients, any capacities of its channels   *)
(* and any number of fills: a call that failed as UNAVAILABLE had no       *)
(* effect, and every fill stream is the feed of FillFeed.                  *)
(***************************************************************************)
EXTENDS Service, TLAPS

Command == [from : Clients \cup {Nobody}, kind : {"Order", "Subscribe", "Shutdown"}]

CallRecord ==
  [phase : {"idle", "sending", "asked", "answered", "unavailable"},
   kind : {"None", "Order", "Subscribe"}, handled : BOOLEAN]

TaskTypes ==
  /\ engine \in {"select", "ticking", "stopped"} /\ sent \in 0 .. MaxFills
  /\ shutdown \in {"waiting", "sending", "completed"}
  /\ server \in {"serving", "draining", "stopping", "joining", "returned"}

\* A command in the channel is the one its caller waits for, and each caller waits
\* for one. Once the engine has stopped the channel takes no more.
CallsInv ==
  /\ commands \in Seq(Command) /\ Len(commands) <= CommandBuffer
  /\ call \in [Clients -> CallRecord]
  /\ engine = "stopped" => commands = <<>>
  /\ \A i \in DOMAIN commands :
       commands[i].from # Nobody => call[commands[i].from].phase = "asked"
  /\ \A i, j \in DOMAIN commands :
       commands[i].from = commands[j].from /\ commands[i].from # Nobody => i = j
  /\ \A c \in Clients :
       /\ call[c].phase = "sending" => call[c].kind # "None"
       /\ call[c].phase # "answered" => ~call[c].handled

-----------------------------------------------------------------------------
\* One stream, when n fills are made and the engine is stopped or not.

StreamRecord ==
  [open : BOOLEAN, forwarder : {"receiving", "sending", "gone"}, since : Nat, next : Nat,
   holding : Seq(Item), buffer : Seq(Item), wire : Seq(Item), got : Seq(Item),
   end : {"none", "ok", "data_loss"}]

StreamTypes(s, n) ==
  /\ s \in StreamRecord
  /\ s.since <= n /\ s.next >= 1 /\ s.next <= n + 1
  /\ Len(s.buffer) <= StreamBuffer /\ Len(s.wire) <= Window
  /\ Len(s.holding) = IF s.forwarder = "sending" THEN 1 ELSE 0

\* The items that follow fill number `after', fill by fill; only the last may say
\* that fills were skipped.
FillsAfter(items, after) ==
  \A i \in DOMAIN items :
    \/ items[i] = after + i
    \/ items[i] = DataLoss /\ i = Len(items)

SaysLost(items) == items # <<>> /\ items[Len(items)] = DataLoss

Lost(s) == SaysLost(s.wire) \/ SaysLost(s.buffer) \/ SaysLost(s.holding)

\* The last fill that was read, put on the wire, buffered, taken from the ring, if no
\* item says that fills were skipped.
ReadTo(s) == s.since + Len(s.got)
WiredTo(s) == ReadTo(s) + Len(s.wire)
BufferedTo(s) == WiredTo(s) + Len(s.buffer)
TakenTo(s) == BufferedTo(s) + Len(s.holding)

\* What was read, is on the wire, buffered and held is one run of fills, from the
\* subscription on, to the fill that is received next.
Flow(s, n, stopped) ==
  /\ FillsAfter(s.got, s.since) /\ ~SaysLost(s.got)
  /\ FillsAfter(s.wire, ReadTo(s))
  /\ FillsAfter(s.buffer, WiredTo(s))
  /\ FillsAfter(s.holding, BufferedTo(s))
  /\ SaysLost(s.wire) => s.buffer = <<>>
  /\ SaysLost(s.wire) \/ SaysLost(s.buffer) => s.forwarder = "gone"
  /\ Lost(s) => n - (TakenTo(s) - 1) > FillBuffer
  /\ ~Lost(s) => /\ s.next = TakenTo(s) + 1
                 /\ s.forwarder = "gone" => stopped /\ s.next > n

StreamOK(s, n, stopped) ==
  /\ StreamTypes(s, n)
  /\ ~s.open => s.since = 0 /\ s.got = <<>>
  /\ s.open /\ s.end = "none" => Flow(s, n, stopped)
  /\ s.end # "none" => s.forwarder = "gone" /\ s.buffer = <<>> /\ s.wire = <<>>

StreamsInv ==
  /\ stream = [c \in Clients |-> stream[c]]
  /\ \A c \in Clients : StreamOK(stream[c], sent, engine = "stopped")

IInv == TaskTypes /\ CallsInv /\ StreamsInv

-----------------------------------------------------------------------------
(* The calls *)

LEMMA Constants ==
  /\ Nobody \notin Clients /\ Subscribers \subseteq Clients
  /\ CommandBuffer \in Nat \ {0} /\ FillBuffer \in Nat \ {0}
  /\ StreamBuffer \in Nat \ {0} /\ Window \in Nat \ {0} /\ MaxFills \in Nat
BY ServiceAssumption

LEMMA CommandFacts ==
  ASSUME NEW q \in Seq(Command)
  PROVE  /\ Len(q) \in Nat /\ DOMAIN q = 1 .. Len(q)
         /\ \A i \in 1 .. Len(q) : q[i] \in Command /\ q[i].from \in Clients \cup {Nobody}
<1>1. \A m \in Command : m.from \in Clients \cup {Nobody}
  BY DEF Command
<1>2. Len(q) \in Nat /\ DOMAIN q = 1 .. Len(q) /\ \A i \in 1 .. Len(q) : q[i] \in Command
  OBVIOUS
<1> QED BY <1>1, <1>2

LEMMA InitCalls == Init => CallsInv
<1> SUFFICES ASSUME Init PROVE CallsInv
  OBVIOUS
<1>1. commands = <<>> /\ commands \in Seq(Command) /\ Len(commands) = 0 /\ DOMAIN commands = {}
  BY DEF Init
<1>2. CallIdle \in CallRecord /\ CallIdle.phase = "idle" /\ ~CallIdle.handled
  BY DEF CallIdle, CallRecord
<1>3. call = [c \in Clients |-> CallIdle]
  BY DEF Init
<1> QED BY <1>1, <1>2, <1>3, Constants DEF CallsInv

\* A client calls.
LEMMA CallKeepsCalls ==
  ASSUME CallsInv, NEW c \in Clients, NEW kind \in {"Order", "Subscribe"}, Call(c, kind)
  PROVE  CallsInv'
<1> DEFINE new == [phase |-> "sending", kind |-> kind, handled |-> FALSE]
<1>1. /\ call' = [call EXCEPT ![c] = new]
      /\ commands' = commands /\ engine' = engine
      /\ call[c].phase # "asked"
  BY DEF Call
<1>2. new \in CallRecord /\ new.phase = "sending" /\ new.kind # "None" /\ ~new.handled
  BY DEF CallRecord
<1> HIDE DEF new
<1>3. call' \in [Clients -> CallRecord]
  BY <1>1, <1>2 DEF CallsInv
<1>4. call'[c] = new /\ \A d \in Clients : d # c => call'[d] = call[d]
  BY <1>1 DEF CallsInv
<1>5. \A i \in DOMAIN commands :
        commands[i].from # Nobody => call'[commands[i].from].phase = "asked"
  BY <1>1, <1>4, CommandFacts DEF CallsInv
<1>6. \A d \in Clients : /\ call'[d].phase = "sending" => call'[d].kind # "None"
                         /\ call'[d].phase # "answered" => ~call'[d].handled
  BY <1>2, <1>4 DEF CallsInv
<1> QED BY <1>1, <1>3, <1>5, <1>6 DEF CallsInv

\* ask sends its command.
LEMMA AskKeepsCalls ==
  ASSUME TaskTypes, CallsInv, NEW c \in Clients, Ask(c)
  PROVE  CallsInv'
<1> DEFINE m == [from |-> c, kind |-> call[c].kind]
<1>1. /\ call' = [call EXCEPT ![c].phase = "asked"]
      /\ commands' = Append(commands, m) /\ engine' = engine /\ engine # "stopped"
      /\ call[c].phase = "sending" /\ Len(commands) < CommandBuffer
  BY DEF Ask, HasRoom
<1>2. call[c] \in CallRecord /\ call[c].kind # "None" /\ ~call[c].handled
  BY <1>1 DEF CallsInv
<1>3. m \in Command /\ m.from = c
  BY <1>2 DEF CallRecord, Command
<1> HIDE DEF m
<1>4. /\ call' \in [Clients -> CallRecord]
      /\ call'[c].phase = "asked" /\ ~call'[c].handled
      /\ \A d \in Clients : d # c => call'[d] = call[d]
  BY <1>1, <1>2 DEF CallsInv, CallRecord
<1>5. /\ commands' \in Seq(Command) /\ Len(commands') = Len(commands) + 1
      /\ DOMAIN commands' = 1 .. Len(commands) + 1
      /\ commands'[Len(commands) + 1] = m
      /\ \A i \in 1 .. Len(commands) : commands'[i] = commands[i]
  BY <1>1, <1>3 DEF CallsInv
<1>6. /\ Len(commands) \in Nat /\ DOMAIN commands = 1 .. Len(commands)
      /\ \A i \in 1 .. Len(commands) : commands[i].from \in Clients \cup {Nobody}
  BY CommandFacts DEF CallsInv
<1>7. \A i \in 1 .. Len(commands) : commands[i].from # c
  BY <1>1, <1>6, Constants DEF CallsInv
<1>8. \A i \in 1 .. Len(commands) + 1 : i \in 1 .. Len(commands) \/ i = Len(commands) + 1
  BY <1>6
<1>9. \A i \in DOMAIN commands' :
        commands'[i].from # Nobody => call'[commands'[i].from].phase = "asked"
  BY <1>3, <1>4, <1>5, <1>6, <1>8 DEF CallsInv
<1>10. \A i, j \in DOMAIN commands' :
         commands'[i].from = commands'[j].from /\ commands'[i].from # Nobody => i = j
  BY <1>3, <1>5, <1>6, <1>7, <1>8 DEF CallsInv
<1>11. \A d \in Clients : /\ call'[d].phase = "sending" => call'[d].kind # "None"
                          /\ call'[d].phase # "answered" => ~call'[d].handled
  BY <1>4 DEF CallsInv
<1>12. Len(commands') <= CommandBuffer
  BY <1>1, <1>5, <1>6, Constants
<1> QED BY <1>1, <1>4, <1>5, <1>9, <1>10, <1>11, <1>12 DEF CallsInv

\* A command behind the last, that nobody waits for.
LEMMA ShutdownKeepsCalls ==
  ASSUME CallsInv, engine # "stopped", HasRoom, UNCHANGED <<engine, call>>,
         commands' = Append(commands, [from |-> Nobody, kind |-> "Shutdown"])
  PROVE  CallsInv'
<1> DEFINE m == [from |-> Nobody, kind |-> "Shutdown"]
<1>1. m \in Command /\ m.from = Nobody
  BY DEF Command
<1>2. Len(commands) < CommandBuffer /\ commands' = Append(commands, m)
  BY DEF HasRoom
<1> HIDE DEF m
<1>3. /\ commands' \in Seq(Command) /\ Len(commands') = Len(commands) + 1
      /\ DOMAIN commands' = 1 .. Len(commands) + 1
      /\ commands'[Len(commands) + 1] = m
      /\ \A i \in 1 .. Len(commands) : commands'[i] = commands[i]
  BY <1>1, <1>2 DEF CallsInv
<1>4. /\ Len(commands) \in Nat /\ DOMAIN commands = 1 .. Len(commands)
  BY CommandFacts DEF CallsInv
<1>5. \A i \in 1 .. Len(commands) + 1 : i \in 1 .. Len(commands) \/ i = Len(commands) + 1
  BY <1>4
<1>6. \A i \in DOMAIN commands' :
        commands'[i].from # Nobody => call'[commands'[i].from].phase = "asked"
  BY <1>1, <1>3, <1>4, <1>5 DEF CallsInv
<1>7. \A i, j \in DOMAIN commands' :
         commands'[i].from = commands'[j].from /\ commands'[i].from # Nobody => i = j
  BY <1>1, <1>3, <1>4, <1>5 DEF CallsInv
<1>8. Len(commands') <= CommandBuffer
  BY <1>2, <1>3, <1>4, Constants
<1> QED BY <1>3, <1>6, <1>7, <1>8 DEF CallsInv

\* The caller is told that the engine has stopped.
LEMMA UnavailableKeepsCalls ==
  ASSUME CallsInv, NEW c \in Clients, Unavailable(c)
  PROVE  CallsInv'
<1>1. /\ call' = [call EXCEPT ![c].phase = "unavailable"]
      /\ commands' = commands /\ engine' = engine /\ commands = <<>>
      /\ call[c] \in CallRecord /\ ~call[c].handled
  BY DEF Unavailable, FailsOnceStopped, CallsInv
<1>2. /\ call' \in [Clients -> CallRecord]
      /\ call'[c].phase = "unavailable" /\ ~call'[c].handled
      /\ \A d \in Clients : d # c => call'[d] = call[d]
  BY <1>1 DEF CallsInv, CallRecord
<1>3. \A d \in Clients : /\ call'[d].phase = "sending" => call'[d].kind # "None"
                         /\ call'[d].phase # "answered" => ~call'[d].handled
  BY <1>2 DEF CallsInv
<1> QED BY <1>1, <1>2, <1>3 DEF CallsInv

\* The client goes away; its command stays.
LEMMA LeaveKeepsCalls ==
  ASSUME CallsInv, NEW c \in Clients, Leave(c)
  PROVE  CallsInv'
<1> DEFINE new(i) == IF commands[i].from = c THEN [commands[i] EXCEPT !.from = Nobody]
                     ELSE commands[i]
<1>1. /\ call' = [call EXCEPT ![c] = CallIdle]
      /\ commands' = [i \in DOMAIN commands |-> new(i)] /\ engine' = engine
  BY DEF Leave
<1>2. CallIdle \in CallRecord /\ CallIdle.phase = "idle" /\ ~CallIdle.handled
  BY DEF CallIdle, CallRecord
<1>3. /\ call' \in [Clients -> CallRecord]
      /\ call'[c] = CallIdle /\ \A d \in Clients : d # c => call'[d] = call[d]
  BY <1>1, <1>2 DEF CallsInv
<1>4. /\ Len(commands) \in Nat /\ DOMAIN commands = 1 .. Len(commands)
      /\ \A i \in 1 .. Len(commands) : /\ commands[i] \in Command
                                       /\ commands[i].from \in Clients \cup {Nobody}
  BY CommandFacts DEF CallsInv
<1>5. \A i \in 1 .. Len(commands) :
        /\ new(i) \in Command
        /\ commands[i].from = c => new(i).from = Nobody
        /\ commands[i].from # c => new(i).from = commands[i].from
  BY <1>4 DEF Command
<1> HIDE DEF new
<1>6. /\ commands' \in Seq(Command) /\ Len(commands') = Len(commands)
      /\ DOMAIN commands' = DOMAIN commands
      /\ \A i \in DOMAIN commands : commands'[i] = new(i)
  BY <1>1, <1>4, <1>5
<1>7. engine' = "stopped" => commands' = <<>>
  BY <1>1, <1>4, <1>6 DEF CallsInv
<1>8. \A i \in DOMAIN commands' :
        commands'[i].from # Nobody => call'[commands'[i].from].phase = "asked"
  BY <1>3, <1>4, <1>5, <1>6 DEF CallsInv
<1>9. \A i, j \in DOMAIN commands' :
         commands'[i].from = commands'[j].from /\ commands'[i].from # Nobody => i = j
  BY <1>4, <1>5, <1>6 DEF CallsInv
<1>10. \A d \in Clients : /\ call'[d].phase = "sending" => call'[d].kind # "None"
                          /\ call'[d].phase # "answered" => ~call'[d].handled
  BY <1>2, <1>3 DEF CallsInv
<1> QED BY <1>3, <1>6, <1>7, <1>8, <1>9, <1>10 DEF CallsInv

\* The engine takes the first command.
LEMMA HandleKeepsCalls ==
  ASSUME CallsInv, Handle
  PROVE  CallsInv'
<1> DEFINE c == Head(commands).from
<1>1. /\ commands # <<>> /\ commands' = Tail(commands)
      /\ engine' = engine /\ engine = "select"
      /\ c = Nobody => call' = call
      /\ c # Nobody => call' = [call EXCEPT ![c].phase = "answered", ![c].handled = TRUE]
  BY DEF Handle
<1>2. /\ Len(commands) \in Nat /\ DOMAIN commands = 1 .. Len(commands)
      /\ \A i \in 1 .. Len(commands) : commands[i].from \in Clients \cup {Nobody}
  BY CommandFacts DEF CallsInv
<1>3. Len(commands) >= 1 /\ c = commands[1].from /\ 1 \in 1 .. Len(commands)
  BY <1>1, <1>2 DEF CallsInv
<1>4. /\ commands' \in Seq(Command) /\ Len(commands') = Len(commands) - 1
      /\ DOMAIN commands' = 1 .. Len(commands) - 1
      /\ \A i \in 1 .. Len(commands) - 1 : commands'[i] = commands[i + 1]
  BY <1>1 DEF CallsInv
<1>5. \A i \in 1 .. Len(commands) - 1 : i + 1 \in 1 .. Len(commands) /\ i + 1 # 1
  BY <1>2
<1>6. c \in Clients \cup {Nobody}
  BY <1>2, <1>3
<1> HIDE DEF c
<1>7. /\ call' \in [Clients -> CallRecord]
      /\ c \in Clients /\ c # Nobody => call'[c].phase = "answered"
      /\ \A d \in Clients : d # c => call'[d] = call[d]
  BY <1>1, <1>6 DEF CallsInv, CallRecord
<1>8. \A i \in DOMAIN commands' :
        commands'[i].from # Nobody => commands'[i].from # c /\ commands'[i].from \in Clients
  <2> SUFFICES ASSUME NEW i \in DOMAIN commands', commands'[i].from # Nobody
               PROVE  commands'[i].from # c /\ commands'[i].from \in Clients
    OBVIOUS
  <2>1. i + 1 \in DOMAIN commands /\ i + 1 # 1 /\ commands'[i] = commands[i + 1]
    BY <1>2, <1>4, <1>5
  <2>2. 1 \in DOMAIN commands
    BY <1>2, <1>3
  <2> QED BY <1>2, <1>3, <2>1, <2>2 DEF CallsInv
<1>9. \A i \in DOMAIN commands' :
        commands'[i].from # Nobody => call'[commands'[i].from].phase = "asked"
  BY <1>2, <1>4, <1>5, <1>7, <1>8 DEF CallsInv
<1>10. \A i, j \in DOMAIN commands' :
         commands'[i].from = commands'[j].from /\ commands'[i].from # Nobody => i = j
  <2> SUFFICES ASSUME NEW i \in DOMAIN commands', NEW j \in DOMAIN commands',
                      commands'[i].from = commands'[j].from, commands'[i].from # Nobody
               PROVE  i = j
    OBVIOUS
  <2>1. i + 1 = j + 1
    BY <1>2, <1>4, <1>5 DEF CallsInv
  <2> QED BY <1>2, <1>4, <2>1
<1>11. \A d \in Clients : /\ call'[d].phase = "sending" => call'[d].kind # "None"
                          /\ call'[d].phase # "answered" => ~call'[d].handled
  BY <1>1, <1>7, Constants DEF CallsInv
<1>12. Len(commands') <= CommandBuffer
  BY <1>2, <1>4, Constants DEF CallsInv
<1> QED BY <1>1, <1>4, <1>7, <1>9, <1>10, <1>11, <1>12 DEF CallsInv

\* Shutdown: the engine stops and drops the commands behind it.
LEMMA StopKeepsCalls ==
  ASSUME CallsInv, StopEngine
  PROVE  CallsInv'
<1>1. commands' = <<>> /\ call' = call /\ DOMAIN commands' = {}
  BY DEF StopEngine, CallsAfterStop
<1>2. <<>> \in Seq(Command) /\ Len(<<>>) = 0
  OBVIOUS
<1> QED BY <1>1, <1>2, Constants DEF CallsInv

LEMMA CallsUnchanged ==
  ASSUME CallsInv, UNCHANGED <<commands, call>>, engine' = "stopped" => engine = "stopped"
  PROVE  CallsInv'
BY DEF CallsInv

LEMMA NextCalls == TaskTypes /\ CallsInv /\ [Next]_vars => CallsInv'
<1> SUFFICES ASSUME TaskTypes, CallsInv, [Next]_vars PROVE CallsInv'
  OBVIOUS
<1>1. ASSUME NEW c \in Clients,
             \/ Forward(c) \/ ForwarderEnds(c) \/ Deposit(c) \/ ForwarderQuits(c)
             \/ Transmit(c) \/ ReadFill(c) \/ ReadEnd(c)
      PROVE  UNCHANGED <<engine, commands, call>>
  BY <1>1 DEF Forward, ForwarderEnds, Deposit, ForwarderQuits, Transmit, ReadFill, ReadEnd
<1>2. ASSUME TickBegin \/ Broadcast \/ TickEnd \/ CtrlC \/ ServerReturns \/ ServerFails \/ Join
      PROVE  UNCHANGED <<commands, call>> /\ (engine' = "stopped" => engine = "stopped")
  BY <1>2 DEF TickBegin, Broadcast, TickEnd, CtrlC, ServerReturns, ServerFails, Join
<1>3. ASSUME SignalShutdown
      PROVE  CallsInv'
  BY <1>3, ShutdownKeepsCalls DEF SignalShutdown, ShutdownQueued
<1>4. ASSUME StopAgain
      PROVE  CallsInv'
  <2>1. CASE engine = "stopped"
    BY <1>4, <2>1, CallsUnchanged DEF StopAgain
  <2>2. CASE engine # "stopped"
    BY <1>4, <2>2, ShutdownKeepsCalls DEF StopAgain
  <2> QED BY <2>1, <2>2
<1>5. CASE UNCHANGED vars
  BY <1>5, CallsUnchanged DEF vars
<1> QED BY <1>1, <1>2, <1>3, <1>4, <1>5, CallsUnchanged, CallKeepsCalls, AskKeepsCalls,
           UnavailableKeepsCalls, LeaveKeepsCalls, HandleKeepsCalls, StopKeepsCalls DEF Next

-----------------------------------------------------------------------------
(* One stream *)

LEMMA NoItems == \A after : FillsAfter(<<>>, after) /\ ~SaysLost(<<>>)
BY DEF FillsAfter, SaysLost

\* An item is put behind the others: the next fill, or that fills were skipped.
LEMMA ItemAdded ==
  ASSUME NEW items \in Seq(Item), NEW after \in Nat, FillsAfter(items, after), ~SaysLost(items),
         NEW item \in Item, item = after + Len(items) + 1 \/ item = DataLoss,
         NEW more, more = Append(items, item)
  PROVE  /\ more \in Seq(Item) /\ Len(more) = Len(items) + 1
         /\ FillsAfter(more, after) /\ (SaysLost(more) <=> item = DataLoss)
<1>1. /\ more \in Seq(Item) /\ Len(more) = Len(items) + 1 /\ Len(items) \in Nat
      /\ DOMAIN more = 1 .. Len(items) + 1 /\ DOMAIN items = 1 .. Len(items)
      /\ more[Len(items) + 1] = item /\ \A i \in 1 .. Len(items) : more[i] = items[i]
  OBVIOUS
<1>2. items # <<>> => Len(items) \in 1 .. Len(items)
  BY <1>1
<1>3. \A i \in 1 .. Len(items) : items[i] = after + i
  BY <1>1, <1>2 DEF FillsAfter, SaysLost
<1>4. \A i \in 1 .. Len(items) + 1 : i \in 1 .. Len(items) \/ i = Len(items) + 1
  BY <1>1
<1>5. more # <<>>
  BY <1>1
<1> QED BY <1>1, <1>3, <1>4, <1>5 DEF FillsAfter, SaysLost

\* The first item is taken from the others.
LEMMA ItemTaken ==
  ASSUME NEW items \in Seq(Item), items # <<>>, NEW after \in Nat, FillsAfter(items, after),
         NEW rest, rest = Tail(items)
  PROVE  /\ rest \in Seq(Item) /\ Len(rest) = Len(items) - 1 /\ Len(items) >= 1
         /\ Head(items) \in Item /\ Head(items) = items[1]
         /\ FillsAfter(rest, after + 1)
         /\ Head(items) = after + 1 \/ (Head(items) = DataLoss /\ Len(items) = 1)
         /\ SaysLost(items) <=> (SaysLost(rest) \/ Head(items) = DataLoss)
<1>1. /\ rest \in Seq(Item) /\ Len(rest) = Len(items) - 1 /\ Len(items) \in Nat \ {0}
      /\ DOMAIN rest = 1 .. Len(items) - 1 /\ DOMAIN items = 1 .. Len(items)
      /\ Head(items) = items[1] /\ items[1] \in Item
      /\ \A i \in 1 .. Len(items) - 1 : rest[i] = items[i + 1]
  OBVIOUS
<1>2. \A i \in 1 .. Len(items) - 1 : i + 1 \in 1 .. Len(items) /\ (after + 1) + i = after + (i + 1)
  BY <1>1
<1>3. FillsAfter(rest, after + 1)
  <2> SUFFICES ASSUME NEW i \in 1 .. Len(items) - 1
               PROVE  rest[i] = (after + 1) + i \/ (rest[i] = DataLoss /\ i = Len(rest))
    BY <1>1 DEF FillsAfter
  <2>1. i + 1 \in DOMAIN items /\ rest[i] = items[i + 1] /\ (after + 1) + i = after + (i + 1)
    BY <1>1, <1>2
  <2>2. items[i + 1] = after + (i + 1) \/ (items[i + 1] = DataLoss /\ i + 1 = Len(items))
    BY <2>1 DEF FillsAfter
  <2>3. i + 1 = Len(items) => i = Len(rest)
    <3>1. PICK k : k = Len(items)
      OBVIOUS
    <3>2. k \in Nat /\ Len(rest) = k - 1 /\ i \in Int
      BY <1>1, <3>1
    <3> QED BY <3>1, <3>2
  <2> QED BY <2>1, <2>2, <2>3
<1>4. 1 \in DOMAIN items /\ Len(items) \in DOMAIN items
  BY <1>1
<1>5. Head(items) = after + 1 \/ (Head(items) = DataLoss /\ Len(items) = 1)
  BY <1>1, <1>4 DEF FillsAfter
<1>6. after + 1 # DataLoss
  BY DEF DataLoss
<1>7. CASE Len(items) = 1
  <2>1. rest = <<>>
    BY <1>1, <1>7
  <2> QED BY <1>1, <1>3, <1>5, <1>7, <2>1 DEF SaysLost
<1>8. CASE Len(items) > 1
  <2>1. /\ rest # <<>> /\ Len(rest) \in 1 .. Len(items) - 1
        /\ rest[Len(rest)] = items[Len(items)]
    <3>1. Len(rest) \in 1 .. Len(items) - 1 /\ Len(rest) + 1 = Len(items) /\ Len(<<>>) = 0
      BY <1>1, <1>8
    <3>2. rest[Len(rest)] = items[Len(rest) + 1]
      BY <1>1, <3>1
    <3> QED BY <3>1, <3>2
  <2> QED BY <1>1, <1>3, <1>5, <1>6, <1>8, <2>1 DEF SaysLost
<1> QED BY <1>1, <1>7, <1>8

LEMMA FieldTypes ==
  ASSUME NEW s, NEW n \in Nat, StreamTypes(s, n)
  PROVE  /\ s.open \in BOOLEAN /\ s.forwarder \in {"receiving", "sending", "gone"}
         /\ s.since \in Nat /\ s.since <= n /\ s.next \in Nat /\ s.next >= 1 /\ s.next <= n + 1
         /\ s.holding \in Seq(Item) /\ s.buffer \in Seq(Item)
         /\ s.wire \in Seq(Item) /\ s.got \in Seq(Item)
         /\ Len(s.holding) \in Nat /\ Len(s.buffer) \in Nat
         /\ Len(s.wire) \in Nat /\ Len(s.got) \in Nat
         /\ s.end \in {"none", "ok", "data_loss"}
BY DEF StreamTypes, StreamRecord

LEMMA CountTypes ==
  ASSUME NEW s, NEW n \in Nat, StreamTypes(s, n)
  PROVE  ReadTo(s) \in Nat /\ WiredTo(s) \in Nat /\ BufferedTo(s) \in Nat /\ TakenTo(s) \in Nat
<1>0. /\ s.since \in Nat /\ Len(s.got) \in Nat /\ Len(s.wire) \in Nat
      /\ Len(s.buffer) \in Nat /\ Len(s.holding) \in Nat
  BY FieldTypes
<1>1. ReadTo(s) \in Nat
  BY <1>0 DEF ReadTo
<1>2. WiredTo(s) \in Nat
  BY <1>0, <1>1 DEF WiredTo
<1>3. BufferedTo(s) \in Nat
  BY <1>0, <1>2 DEF BufferedTo
<1>4. TakenTo(s) \in Nat
  BY <1>0, <1>3 DEF TakenTo
<1> QED BY <1>1, <1>2, <1>3, <1>4

\* No stream.
LEMMA NoStreamOK ==
  ASSUME NEW n \in Nat, NEW stopped \in BOOLEAN
  PROVE  StreamOK(NoStream, n, stopped)
<1>1. <<>> \in Seq(Item) /\ Len(<<>>) = 0
  OBVIOUS
<1>2. NoStream \in StreamRecord
  BY <1>1 DEF NoStream, StreamRecord
<1>3. StreamTypes(NoStream, n)
  BY <1>1, <1>2, Constants DEF NoStream, StreamTypes
<1> QED BY <1>3 DEF NoStream, StreamOK

Subscribed(n) ==
  [NoStream EXCEPT !.open = TRUE, !.forwarder = "receiving", !.since = n, !.next = n + 1]

LEMMA SubscribedOK ==
  ASSUME NEW n \in Nat, NEW stopped \in BOOLEAN
  PROVE  StreamOK(Subscribed(n), n, stopped)
<1> DEFINE t == Subscribed(n)
<1>1. <<>> \in Seq(Item) /\ Len(<<>>) = 0
  OBVIOUS
<1>2. /\ t.open = TRUE /\ t.forwarder = "receiving" /\ t.since = n /\ t.next = n + 1
      /\ t.holding = <<>> /\ t.buffer = <<>> /\ t.wire = <<>> /\ t.got = <<>> /\ t.end = "none"
  BY DEF Subscribed, NoStream
<1>3. t \in StreamRecord
  <2>1. NoStream \in StreamRecord
    BY NoStreamOK DEF StreamOK, StreamTypes
  <2>2. TRUE \in BOOLEAN /\ n + 1 \in Nat
    OBVIOUS
  <2> QED BY <2>1, <2>2 DEF Subscribed, StreamRecord
<1> HIDE DEF t
<1>4. StreamTypes(t, n)
  BY <1>1, <1>2, <1>3, Constants DEF StreamTypes
<1>5. Flow(t, n, stopped)
  BY <1>1, <1>2, NoItems DEF Flow, Lost, ReadTo, WiredTo, BufferedTo, TakenTo
<1> QED BY <1>2, <1>4, <1>5 DEF StreamOK, t

\* What the forwarder still holds of a client that went away.
Left(s) ==
  [NoStream EXCEPT !.forwarder = s.forwarder, !.next = s.next, !.holding = s.holding]

LEMMA LeftOK ==
  ASSUME NEW s, NEW n \in Nat, NEW stopped \in BOOLEAN, StreamOK(s, n, stopped)
  PROVE  StreamOK(Left(s), n, stopped)
<1> DEFINE t == Left(s)
<1>1. <<>> \in Seq(Item) /\ Len(<<>>) = 0
  OBVIOUS
<1>2. /\ t.open = FALSE /\ t.forwarder = s.forwarder /\ t.since = 0 /\ t.next = s.next
      /\ t.holding = s.holding /\ t.buffer = <<>> /\ t.wire = <<>> /\ t.got = <<>>
      /\ t.end = "none"
  BY DEF Left, NoStream
<1>3. StreamTypes(s, n)
  BY DEF StreamOK
<1>4. t \in StreamRecord
  BY <1>1, <1>3, FieldTypes DEF Left, NoStream, StreamRecord
<1> HIDE DEF t
<1>5. StreamTypes(t, n)
  BY <1>1, <1>2, <1>3, <1>4, Constants DEF StreamTypes
<1> QED BY <1>2, <1>5 DEF StreamOK, t

\* The engine makes one more fill, which no forwarder has taken yet.
LEMMA FillMade ==
  ASSUME NEW s, NEW n \in Nat, StreamOK(s, n, FALSE)
  PROVE  StreamOK(s, n + 1, FALSE)
<1>1. StreamTypes(s, n)
  BY DEF StreamOK
<1>2. StreamTypes(s, n + 1)
  BY <1>1, FieldTypes DEF StreamTypes
<1>3. TakenTo(s) \in Nat
  BY <1>1, CountTypes
<1>4. Flow(s, n, FALSE) => Flow(s, n + 1, FALSE)
  BY <1>1, <1>3, FieldTypes, Constants DEF Flow
<1> QED BY <1>2, <1>4 DEF StreamOK

LEMMA EngineGone ==
  ASSUME NEW s, NEW n \in Nat, StreamOK(s, n, FALSE)
  PROVE  StreamOK(s, n, TRUE)
BY DEF StreamOK, Flow

\* The forwarder takes a fill from the ring, or learns that it has lost some.
LEMMA ForwardOK ==
  ASSUME NEW s, NEW stopped \in BOOLEAN, sent \in Nat, sent <= MaxFills,
         StreamOK(s, sent, stopped), s.forwarder = "receiving", Received(s) # <<>>,
         NEW t, t = [s EXCEPT !.forwarder = "sending", !.holding = Received(s),
                              !.next = IF Received(s) = <<DataLoss>> THEN Oldest
                                       ELSE Received(s)[1] + 1]
  PROVE  StreamOK(t, sent, stopped)
<1>1. StreamTypes(s, sent) /\ s.forwarder \notin {"gone", "sending"}
  BY DEF StreamOK
<1>2. /\ s.since \in Nat /\ s.next \in Nat /\ s.next >= 1 /\ s.since <= sent
      /\ s.holding \in Seq(Item) /\ Len(s.holding) = 0
      /\ Len(s.got) \in Nat /\ Len(s.wire) \in Nat /\ Len(s.buffer) \in Nat
  BY <1>1, FieldTypes DEF StreamTypes
<1>3. s.holding = <<>>
  BY <1>2
<1>4. PICK item : item = IF s.next < Oldest THEN DataLoss ELSE s.next
  OBVIOUS
<1>5. s.next <= sent /\ Received(s) = <<item>>
  BY <1>2, <1>4 DEF Received
<1>6. FillBuffer \in Nat \ {0} /\ MaxFills \in Nat
  BY Constants
<1>7. /\ Oldest \in Nat /\ Oldest >= 1 /\ Oldest <= sent
      /\ s.next < Oldest => sent - s.next + 1 > FillBuffer
  BY <1>2, <1>5, <1>6 DEF Oldest
<1>8. /\ item \in Item /\ (item = DataLoss <=> s.next < Oldest)
      /\ item # DataLoss => item = s.next
  BY <1>2, <1>4, <1>5, <1>6 DEF Item, DataLoss
<1>9. PICK next : next = IF item = DataLoss THEN Oldest ELSE item + 1
  OBVIOUS
<1>10. <<item>> = <<DataLoss>> <=> item = DataLoss
  OBVIOUS
<1>11. t = [s EXCEPT !.forwarder = "sending", !.holding = <<item>>, !.next = next]
  BY <1>5, <1>9, <1>10
<1>12. next \in Nat /\ next >= 1 /\ next <= sent + 1
  BY <1>2, <1>5, <1>7, <1>8, <1>9
<1>13. /\ t.open = s.open /\ t.forwarder = "sending" /\ t.since = s.since /\ t.next = next
       /\ t.holding = <<item>> /\ t.buffer = s.buffer /\ t.wire = s.wire /\ t.got = s.got
       /\ t.end = s.end
  BY <1>1, <1>11 DEF StreamTypes, StreamRecord
<1>14. <<item>> \in Seq(Item) /\ Len(<<item>>) = 1 /\ <<item>> = Append(<<>>, item)
  BY <1>8
<1>15. t \in StreamRecord
  BY <1>1, <1>11, <1>12, <1>14 DEF StreamTypes, StreamRecord
<1>16. StreamTypes(t, sent)
  BY <1>1, <1>12, <1>13, <1>14, <1>15 DEF StreamTypes
<1>17. ASSUME Flow(s, sent, stopped)
       PROVE  Flow(t, sent, stopped)
  <2>1. ~SaysLost(s.wire) /\ ~SaysLost(s.buffer) /\ ~Lost(s)
    BY <1>1, <1>3, <1>17, NoItems DEF Flow, Lost
  <2>2. /\ BufferedTo(s) \in Nat /\ TakenTo(s) = BufferedTo(s)
        /\ s.next = BufferedTo(s) + 1
    <3>1. BufferedTo(s) \in Nat
      BY <1>1, CountTypes
    <3>2. TakenTo(s) = BufferedTo(s)
      BY <1>2, <3>1 DEF TakenTo
    <3>3. s.next = TakenTo(s) + 1
      BY <1>17, <2>1 DEF Flow
    <3> QED BY <3>1, <3>2, <3>3
  <2>3. <<>> \in Seq(Item) /\ (item = BufferedTo(s) + Len(<<>>) + 1 \/ item = DataLoss)
    BY <1>8, <2>2
  <2>4. FillsAfter(<<item>>, BufferedTo(s)) /\ (SaysLost(<<item>>) <=> item = DataLoss)
    BY <1>8, <1>14, <2>2, <2>3, NoItems, ItemAdded
  <2>5. ReadTo(t) = ReadTo(s) /\ WiredTo(t) = WiredTo(s) /\ BufferedTo(t) = BufferedTo(s)
    BY <1>13 DEF ReadTo, WiredTo, BufferedTo
  <2>6. TakenTo(t) = BufferedTo(s) + 1 /\ (Lost(t) <=> item = DataLoss)
    BY <1>13, <1>14, <2>1, <2>4, <2>5 DEF TakenTo, Lost
  <2>7. Lost(t) => sent - (TakenTo(t) - 1) > FillBuffer
    BY <1>6, <1>7, <1>8, <2>2, <2>6
  <2>8. ~Lost(t) => t.next = TakenTo(t) + 1
    BY <1>8, <1>9, <1>13, <2>2, <2>6
  <2> QED BY <1>13, <1>17, <2>1, <2>4, <2>5, <2>7, <2>8 DEF Flow
<1> QED BY <1>13, <1>16, <1>17 DEF StreamOK

\* The engine has stopped and all fills are taken.
LEMMA ForwarderEndsOK ==
  ASSUME NEW s, NEW n \in Nat, StreamOK(s, n, TRUE), s.forwarder = "receiving", s.next > n,
         NEW t, t = [s EXCEPT !.forwarder = "gone"]
  PROVE  StreamOK(t, n, TRUE)
<1>1. StreamTypes(s, n)
  BY DEF StreamOK
<1>2. /\ t.open = s.open /\ t.forwarder = "gone" /\ t.since = s.since /\ t.next = s.next
      /\ t.holding = s.holding /\ t.buffer = s.buffer /\ t.wire = s.wire /\ t.got = s.got
      /\ t.end = s.end
  BY <1>1 DEF StreamTypes, StreamRecord
<1>3. t \in StreamRecord
  BY <1>1 DEF StreamTypes, StreamRecord
<1>4. StreamTypes(t, n)
  BY <1>1, <1>2, <1>3 DEF StreamTypes
<1>5. /\ ReadTo(t) = ReadTo(s) /\ WiredTo(t) = WiredTo(s) /\ BufferedTo(t) = BufferedTo(s)
      /\ TakenTo(t) = TakenTo(s) /\ (Lost(t) <=> Lost(s))
  BY <1>2 DEF ReadTo, WiredTo, BufferedTo, TakenTo, Lost
<1>6. Flow(s, n, TRUE) => Flow(t, n, TRUE)
  BY <1>2, <1>5 DEF Flow
<1> QED BY <1>2, <1>4, <1>6 DEF StreamOK

\* The forwarder's item goes into the stream's channel.
LEMMA DepositOK ==
  ASSUME NEW s, NEW n \in Nat, NEW stopped \in BOOLEAN, StreamOK(s, n, stopped),
         s.forwarder = "sending", s.open, Len(s.buffer) < StreamBuffer,
         NEW t, t = [s EXCEPT !.buffer = @ \o s.holding, !.holding = <<>>,
                              !.forwarder = IF s.holding = <<DataLoss>> THEN "gone"
                                            ELSE "receiving"]
  PROVE  StreamOK(t, n, stopped)
<1>1. StreamTypes(s, n) /\ s.end = "none" /\ s.forwarder # "gone" /\ Flow(s, n, stopped)
  BY FieldTypes DEF StreamOK
<1>2. /\ s.holding \in Seq(Item) /\ Len(s.holding) = 1 /\ s.buffer \in Seq(Item)
      /\ Len(s.buffer) \in Nat /\ StreamBuffer \in Nat
  BY <1>1, FieldTypes, Constants DEF StreamTypes
<1>3. PICK item \in Item : s.holding = <<item>>
  <2>1. s.holding[1] \in Item /\ s.holding = <<s.holding[1]>>
    BY <1>2
  <2> QED BY <2>1
<1>4. PICK more : more = Append(s.buffer, item)
  OBVIOUS
<1>5. PICK forwarder : forwarder = IF item = DataLoss THEN "gone" ELSE "receiving"
  OBVIOUS
<1>6. s.buffer \o s.holding = more
  BY <1>2, <1>3, <1>4
<1>7. s.holding = <<DataLoss>> <=> item = DataLoss
  BY <1>3
<1>8. t = [s EXCEPT !.buffer = more, !.holding = <<>>, !.forwarder = forwarder]
  BY <1>1, <1>5, <1>6, <1>7 DEF StreamTypes, StreamRecord
<1>9. /\ t.open = s.open /\ t.forwarder = forwarder /\ t.since = s.since /\ t.next = s.next
      /\ t.holding = <<>> /\ t.buffer = more /\ t.wire = s.wire /\ t.got = s.got
      /\ t.end = s.end
  BY <1>1, <1>8 DEF StreamTypes, StreamRecord
<1>10. ~SaysLost(s.wire) /\ ~SaysLost(s.buffer)
  BY <1>1 DEF Flow
<1>11. BufferedTo(s) \in Nat /\ WiredTo(s) \in Nat /\ BufferedTo(s) = WiredTo(s) + Len(s.buffer)
  BY <1>1, CountTypes DEF BufferedTo
<1>12. /\ item = BufferedTo(s) + 1 \/ item = DataLoss
       /\ SaysLost(s.holding) <=> item = DataLoss
  BY <1>1, <1>3 DEF Flow, FillsAfter, SaysLost
<1>13. /\ more \in Seq(Item) /\ Len(more) = Len(s.buffer) + 1
       /\ FillsAfter(more, WiredTo(s)) /\ (SaysLost(more) <=> item = DataLoss)
  <2>1. FillsAfter(s.buffer, WiredTo(s))
    BY <1>1 DEF Flow
  <2>2. item = WiredTo(s) + Len(s.buffer) + 1 \/ item = DataLoss
    BY <1>11, <1>12
  <2>3. ~SaysLost(s.buffer) /\ WiredTo(s) \in Nat /\ s.buffer \in Seq(Item)
    BY <1>2, <1>10, <1>11
  <2> QED BY ONLY <1>3, <1>4, <2>1, <2>2, <2>3, ItemAdded
<1>14. <<>> \in Seq(Item) /\ Len(<<>>) = 0 /\ forwarder \in {"gone", "receiving"}
  BY <1>5
<1>15. t \in StreamRecord
  BY <1>1, <1>8, <1>13, <1>14 DEF StreamTypes, StreamRecord
<1>16. StreamTypes(t, n)
  <2>1. Len(t.buffer) <= StreamBuffer
    <3>1. PICK k : k = Len(s.buffer)
      OBVIOUS
    <3>2. k \in Nat /\ k < StreamBuffer /\ Len(more) = k + 1
      BY <1>2, <1>13, <3>1
    <3>3. StreamBuffer \in Nat
      BY <1>2
    <3>4. t.buffer = more
      BY <1>9
    <3> QED BY ONLY <3>2, <3>3, <3>4
  <2>2. Len(t.holding) = 0 /\ t.forwarder # "sending"
    BY <1>9, <1>14
  <2>3. /\ t.since <= n /\ t.next >= 1 /\ t.next <= n + 1 /\ Len(t.wire) <= Window
    BY <1>1, <1>9 DEF StreamTypes
  <2> QED BY ONLY <1>15, <2>1, <2>2, <2>3 DEF StreamTypes
<1>17. ReadTo(t) = ReadTo(s) /\ WiredTo(t) = WiredTo(s) /\ (Lost(t) <=> Lost(s))
  BY <1>9, <1>10, <1>12, <1>13, NoItems DEF ReadTo, WiredTo, Lost
<1>18. TakenTo(t) = TakenTo(s)
  <2>1. TakenTo(s) = BufferedTo(s) + 1
    BY <1>2 DEF TakenTo
  <2>2. BufferedTo(t) = BufferedTo(s) + 1
    <3>1. BufferedTo(t) = WiredTo(s) + Len(more)
      BY <1>9, <1>17 DEF BufferedTo
    <3> QED BY <1>2, <1>11, <1>13, <3>1
  <2> QED BY <1>9, <1>11, <1>14, <2>1, <2>2 DEF TakenTo
<1>19. Lost(s) <=> item = DataLoss
  BY <1>10, <1>12 DEF Lost
<1>20. Flow(t, n, stopped)
  BY <1>1, <1>5, <1>9, <1>10, <1>13, <1>17, <1>18, <1>19, NoItems DEF Flow
<1> QED BY <1>1, <1>9, <1>16, <1>20 DEF StreamOK

\* The transport takes an item.
LEMMA TransmitOK ==
  ASSUME NEW s, NEW n \in Nat, NEW stopped \in BOOLEAN, StreamOK(s, n, stopped),
         s.open, s.buffer # <<>>, Len(s.wire) < Window,
         NEW t, t = [s EXCEPT !.wire = Append(@, Head(s.buffer)), !.buffer = Tail(@)]
  PROVE  StreamOK(t, n, stopped)
<1>1. StreamTypes(s, n) /\ s.end = "none" /\ Flow(s, n, stopped)
  BY FieldTypes DEF StreamOK
<1>2. /\ s.buffer \in Seq(Item) /\ s.wire \in Seq(Item)
      /\ Len(s.buffer) \in Nat /\ Len(s.wire) \in Nat /\ Window \in Nat
      /\ StreamBuffer \in Nat /\ Len(s.buffer) <= StreamBuffer
  BY <1>1, FieldTypes, Constants DEF StreamTypes
<1>3. PICK item, rest, more :
        item = Head(s.buffer) /\ rest = Tail(s.buffer) /\ more = Append(s.wire, item)
  OBVIOUS
<1>4. /\ ReadTo(s) \in Nat /\ WiredTo(s) \in Nat /\ BufferedTo(s) \in Nat
      /\ WiredTo(s) = ReadTo(s) + Len(s.wire)
  BY <1>1, CountTypes DEF WiredTo
<1>5. ~SaysLost(s.wire)
  BY <1>1 DEF Flow
<1>6. /\ rest \in Seq(Item) /\ Len(rest) = Len(s.buffer) - 1
      /\ item \in Item /\ FillsAfter(rest, WiredTo(s) + 1)
      /\ item = WiredTo(s) + 1 \/ (item = DataLoss /\ Len(s.buffer) = 1)
      /\ SaysLost(s.buffer) <=> (SaysLost(rest) \/ item = DataLoss)
  <2>1. FillsAfter(s.buffer, WiredTo(s))
    BY <1>1 DEF Flow
  <2> QED BY <1>2, <1>3, <1>4, <2>1, ItemTaken
<1>7. /\ more \in Seq(Item) /\ Len(more) = Len(s.wire) + 1
      /\ FillsAfter(more, ReadTo(s)) /\ (SaysLost(more) <=> item = DataLoss)
  <2>1. FillsAfter(s.wire, ReadTo(s))
    BY <1>1 DEF Flow
  <2>2. item = ReadTo(s) + Len(s.wire) + 1 \/ item = DataLoss
    BY <1>4, <1>6
  <2> QED BY <1>2, <1>3, <1>4, <1>5, <1>6, <2>1, <2>2, ItemAdded
<1>8. t = [s EXCEPT !.wire = more, !.buffer = rest]
  BY <1>1, <1>3 DEF StreamTypes, StreamRecord
<1>9. /\ t.open = s.open /\ t.forwarder = s.forwarder /\ t.since = s.since /\ t.next = s.next
      /\ t.holding = s.holding /\ t.buffer = rest /\ t.wire = more /\ t.got = s.got
      /\ t.end = s.end
  BY <1>1, <1>8 DEF StreamTypes, StreamRecord
<1>10. t \in StreamRecord
  BY <1>1, <1>6, <1>7, <1>8 DEF StreamTypes, StreamRecord
<1>11. StreamTypes(t, n)
  BY <1>1, <1>2, <1>6, <1>7, <1>9, <1>10 DEF StreamTypes
<1>12. /\ ReadTo(t) = ReadTo(s) /\ WiredTo(t) = WiredTo(s) + 1
       /\ BufferedTo(t) = BufferedTo(s) /\ TakenTo(t) = TakenTo(s)
  <2>1. ReadTo(t) = ReadTo(s)
    BY <1>9 DEF ReadTo
  <2>2. WiredTo(t) = WiredTo(s) + 1
    <3>1. WiredTo(t) = ReadTo(s) + Len(more)
      BY <1>9, <2>1 DEF WiredTo
    <3> QED BY <1>2, <1>4, <1>7, <3>1
  <2>3. BufferedTo(t) = BufferedTo(s)
    <3>1. BufferedTo(t) = WiredTo(t) + Len(rest) /\ BufferedTo(s) = WiredTo(s) + Len(s.buffer)
      BY <1>9 DEF BufferedTo
    <3> QED BY <1>2, <1>4, <1>6, <2>2, <3>1
  <2> QED BY <1>9, <2>1, <2>2, <2>3 DEF TakenTo
<1>13. /\ SaysLost(more) \/ SaysLost(rest) <=> SaysLost(s.buffer)
       /\ SaysLost(more) => rest = <<>>
       /\ Lost(t) <=> Lost(s)
  <2>1. item = DataLoss => rest = <<>>
    <3>1. WiredTo(s) + 1 # DataLoss
      BY <1>4 DEF DataLoss
    <3>2. item = DataLoss => Len(s.buffer) = 1
      BY <1>6, <3>1
    <3>3. Len(s.buffer) = 1 => Len(rest) = 0
      BY <1>6
    <3>4. rest \in Seq(Item)
      BY <1>6
    <3> QED BY ONLY <3>2, <3>3, <3>4
  <2> QED BY <1>5, <1>6, <1>7, <1>9, <2>1 DEF Lost
<1>14. Flow(t, n, stopped)
  BY <1>1, <1>6, <1>7, <1>9, <1>12, <1>13 DEF Flow
<1> QED BY <1>1, <1>9, <1>11, <1>14 DEF StreamOK

\* The client reads a fill.
LEMMA ReadFillOK ==
  ASSUME NEW s, NEW n \in Nat, NEW stopped \in BOOLEAN, StreamOK(s, n, stopped),
         s.open, s.wire # <<>>, s.wire[1] # DataLoss,
         NEW t, t = [s EXCEPT !.got = Append(@, s.wire[1]), !.wire = Tail(@)]
  PROVE  /\ StreamOK(t, n, stopped)
         /\ s.end = "none" /\ s.wire[1] = s.since + Len(s.got) + 1
         /\ n - s.since - Len(s.got) > 0
<1>1. StreamTypes(s, n) /\ s.end = "none" /\ Flow(s, n, stopped)
  BY FieldTypes DEF StreamOK
<1>2. /\ s.got \in Seq(Item) /\ s.wire \in Seq(Item)
      /\ Len(s.got) \in Nat /\ Len(s.wire) \in Nat /\ Window \in Nat
      /\ Len(s.wire) <= Window /\ s.since \in Nat
  BY <1>1, FieldTypes, Constants DEF StreamTypes
<1>3. PICK item, rest, more :
        item = s.wire[1] /\ rest = Tail(s.wire) /\ more = Append(s.got, item)
  OBVIOUS
<1>4. /\ ReadTo(s) \in Nat /\ WiredTo(s) \in Nat /\ BufferedTo(s) \in Nat /\ TakenTo(s) \in Nat
      /\ ReadTo(s) = s.since + Len(s.got)
  BY <1>1, CountTypes DEF ReadTo
<1>5. ~SaysLost(s.got) /\ FillsAfter(s.got, s.since) /\ FillsAfter(s.wire, ReadTo(s))
  BY <1>1 DEF Flow
<1>6. /\ rest \in Seq(Item) /\ Len(rest) = Len(s.wire) - 1 /\ Len(s.wire) >= 1
      /\ item \in Item /\ FillsAfter(rest, ReadTo(s) + 1)
      /\ item = ReadTo(s) + 1
      /\ SaysLost(s.wire) <=> SaysLost(rest)
  BY <1>2, <1>3, <1>4, <1>5, ItemTaken
<1>7. /\ more \in Seq(Item) /\ Len(more) = Len(s.got) + 1
      /\ FillsAfter(more, s.since) /\ ~SaysLost(more)
  <2>1. item = s.since + Len(s.got) + 1
    BY <1>4, <1>6
  <2> QED BY <1>2, <1>3, <1>5, <1>6, <2>1, ItemAdded
<1>8. t = [s EXCEPT !.got = more, !.wire = rest]
  BY <1>1, <1>3 DEF StreamTypes, StreamRecord
<1>9. /\ t.open = s.open /\ t.forwarder = s.forwarder /\ t.since = s.since /\ t.next = s.next
      /\ t.holding = s.holding /\ t.buffer = s.buffer /\ t.wire = rest /\ t.got = more
      /\ t.end = s.end
  BY <1>1, <1>8 DEF StreamTypes, StreamRecord
<1>10. t \in StreamRecord
  BY <1>1, <1>6, <1>7, <1>8 DEF StreamTypes, StreamRecord
<1>11. StreamTypes(t, n)
  BY <1>1, <1>2, <1>6, <1>9, <1>10 DEF StreamTypes
<1>12. /\ ReadTo(t) = ReadTo(s) + 1 /\ WiredTo(t) = WiredTo(s)
       /\ BufferedTo(t) = BufferedTo(s) /\ TakenTo(t) = TakenTo(s)
  <2>1. ReadTo(t) = ReadTo(s) + 1
    <3>1. ReadTo(t) = s.since + Len(more)
      BY <1>9 DEF ReadTo
    <3> QED BY <1>2, <1>4, <1>7, <3>1
  <2>2. WiredTo(t) = WiredTo(s)
    <3>1. WiredTo(t) = ReadTo(t) + Len(rest) /\ WiredTo(s) = ReadTo(s) + Len(s.wire)
      BY <1>9 DEF WiredTo
    <3> QED BY <1>2, <1>4, <1>6, <2>1, <3>1
  <2> QED BY <1>9, <2>1, <2>2 DEF BufferedTo, TakenTo
<1>13. Lost(t) <=> Lost(s)
  BY <1>6, <1>9 DEF Lost
<1>14. Flow(t, n, stopped)
  BY <1>1, <1>6, <1>7, <1>9, <1>12, <1>13 DEF Flow
<1>15. n - ReadTo(s) > 0
  <2>1. /\ Len(s.buffer) \in Nat /\ Len(s.holding) \in Nat /\ s.next \in Nat /\ s.next <= n + 1
    BY <1>1, FieldTypes
  <2>2. WiredTo(s) >= ReadTo(s) + 1
    BY <1>2, <1>4, <1>6 DEF WiredTo
  <2>3. BufferedTo(s) >= WiredTo(s)
    BY <1>4, <2>1 DEF BufferedTo
  <2>4. TakenTo(s) >= BufferedTo(s)
    BY <1>4, <2>1 DEF TakenTo
  <2>5. CASE Lost(s)
    BY <1>1, <1>4, <2>2, <2>3, <2>4, <2>5, Constants DEF Flow
  <2>6. CASE ~Lost(s)
    <3>1. s.next = TakenTo(s) + 1
      BY <1>1, <2>6 DEF Flow
    <3> QED BY <1>4, <2>1, <2>2, <2>3, <2>4, <3>1
  <2> QED BY <2>5, <2>6
<1>16. n - s.since - Len(s.got) = n - ReadTo(s) /\ s.since + Len(s.got) + 1 = ReadTo(s) + 1
  BY ONLY <1>2, <1>4, n \in Nat
<1>17. StreamOK(t, n, stopped)
  BY <1>1, <1>9, <1>11, <1>14 DEF StreamOK
<1> QED BY <1>1, <1>3, <1>6, <1>15, <1>16, <1>17

\* The client reads the end of its stream, or that fills were skipped.
LEMMA ReadEndOK ==
  ASSUME NEW s, NEW n \in Nat, NEW stopped \in BOOLEAN, StreamOK(s, n, stopped),
         s.open, s.end = "none", StreamDone(s), s.wire \in {<<>>, <<DataLoss>>},
         NEW t, t = [s EXCEPT !.wire = <<>>,
                              !.end = IF s.wire = <<>> THEN "ok" ELSE "data_loss"]
  PROVE  /\ StreamOK(t, n, stopped)
         /\ s.wire = <<>> => stopped /\ n - s.since - Len(s.got) = 0
         /\ s.wire # <<>> => n - s.since - Len(s.got) > FillBuffer
<1>1. StreamTypes(s, n) /\ Flow(s, n, stopped) /\ s.forwarder = "gone" /\ s.buffer = <<>>
  BY DEF StreamOK, StreamDone
<1>2. PICK end \in {"ok", "data_loss"} : end = IF s.wire = <<>> THEN "ok" ELSE "data_loss"
  OBVIOUS
<1>3. t = [s EXCEPT !.wire = <<>>, !.end = end]
  BY <1>2
<1>4. /\ t.open = s.open /\ t.forwarder = s.forwarder /\ t.since = s.since /\ t.next = s.next
      /\ t.holding = s.holding /\ t.buffer = s.buffer /\ t.wire = <<>> /\ t.got = s.got
      /\ t.end = end
  BY <1>1, <1>3 DEF StreamTypes, StreamRecord
<1>5. <<>> \in Seq(Item) /\ Len(<<>>) = 0
  OBVIOUS
<1>6. t \in StreamRecord
  BY <1>1, <1>3, <1>5 DEF StreamTypes, StreamRecord
<1>7. StreamTypes(t, n)
  BY <1>1, <1>4, <1>5, <1>6, Constants DEF StreamTypes
<1>8. StreamOK(t, n, stopped)
  BY <1>1, <1>2, <1>4, <1>7 DEF StreamOK
<1>9. /\ ReadTo(s) \in Nat /\ s.since \in Nat /\ Len(s.got) \in Nat /\ s.next \in Nat
      /\ s.next <= n + 1 /\ ReadTo(s) = s.since + Len(s.got)
      /\ s.holding = <<>>
  BY <1>1, CountTypes, FieldTypes DEF StreamTypes, ReadTo
<1>10. BufferedTo(s) = WiredTo(s) /\ TakenTo(s) = WiredTo(s) /\ WiredTo(s) \in Nat
  <2>1. WiredTo(s) \in Nat
    BY <1>1, CountTypes
  <2>2. BufferedTo(s) = WiredTo(s)
    BY <1>1, <1>5, <2>1 DEF BufferedTo
  <2> QED BY <1>5, <1>9, <2>1, <2>2 DEF TakenTo
<1>11. WiredTo(s) = ReadTo(s) + Len(s.wire)
  BY DEF WiredTo
<1>12. n - s.since - Len(s.got) = n - ReadTo(s)
  BY ONLY <1>9, n \in Nat
<1>13. CASE s.wire = <<>>
  <2>1. ~Lost(s) /\ WiredTo(s) = ReadTo(s)
    BY <1>1, <1>5, <1>9, <1>11, <1>13, NoItems DEF Lost
  <2>2. s.next = TakenTo(s) + 1 /\ stopped /\ s.next > n
    BY <1>1, <2>1 DEF Flow
  <2>3. n - ReadTo(s) = 0
    BY <1>9, <1>10, <2>1, <2>2
  <2> QED BY <1>8, <1>12, <1>13, <2>2, <2>3
<1>14. CASE s.wire = <<DataLoss>>
  <2>1. Lost(s) /\ s.wire # <<>> /\ Len(s.wire) = 1
    BY <1>14 DEF Lost, SaysLost
  <2>2. WiredTo(s) = ReadTo(s) + 1
    BY <1>9, <1>11, <2>1
  <2>3. n - (TakenTo(s) - 1) > FillBuffer
    BY <1>1, <2>1 DEF Flow
  <2>4. n - ReadTo(s) > FillBuffer
    BY <1>9, <1>10, <2>2, <2>3
  <2> QED BY <1>8, <1>12, <2>1, <2>4
<1> QED BY <1>13, <1>14

-----------------------------------------------------------------------------
(* All streams *)

LEMMA InitInv == Init => IInv
<1> SUFFICES ASSUME Init PROVE IInv
  OBVIOUS
<1>1. TaskTypes
  BY Constants DEF Init, TaskTypes
<1>2. stream = [c \in Clients |-> NoStream] /\ sent = 0
  BY DEF Init
<1>3. StreamsInv
  <2>1. \A stopped \in BOOLEAN : StreamOK(NoStream, 0, stopped)
    BY NoStreamOK
  <2>2. (engine = "stopped") \in BOOLEAN
    OBVIOUS
  <2> QED BY <1>2, <2>1, <2>2 DEF StreamsInv
<1> QED BY <1>1, <1>3, InitCalls DEF IInv

\* A step of one stream leaves the others alone.
LEMMA OneStream ==
  ASSUME TaskTypes, StreamsInv, UNCHANGED <<engine, sent>>, NEW c \in Clients,
         NEW t, stream' = [stream EXCEPT ![c] = t], StreamOK(t, sent, engine = "stopped")
  PROVE  StreamsInv'
<1>1. PICK n, stopped : n = sent /\ stopped = (engine = "stopped")
  OBVIOUS
<1>2. \A d \in Clients : StreamOK(stream'[d], n, stopped)
  BY <1>1 DEF StreamsInv
<1>3. stream' = [d \in Clients |-> stream'[d]]
  BY DEF StreamsInv
<1>4. sent' = n /\ (engine' = "stopped") = stopped
  BY <1>1
<1> QED BY <1>2, <1>3, <1>4 DEF StreamsInv

LEMMA NoStreamStep ==
  ASSUME StreamsInv, UNCHANGED <<engine, sent, stream>>
  PROVE  StreamsInv'
BY DEF StreamsInv

LEMMA HandleKeepsStreams ==
  ASSUME TaskTypes, CallsInv, StreamsInv, Handle
  PROVE  StreamsInv'
<1> DEFINE c == Head(commands).from
<1>1. sent \in Nat /\ (engine = "stopped") \in BOOLEAN
  BY DEF TaskTypes
<1>2. CASE UNCHANGED stream
  BY <1>2, NoStreamStep DEF Handle
<1>3. CASE c # Nobody /\ stream' = [stream EXCEPT ![c] = Subscribed(sent)]
  <2>1. c \in Clients
    <3>1. commands # <<>> /\ commands \in Seq(Command)
      BY DEF Handle, CallsInv
    <3>2. 1 \in 1 .. Len(commands) /\ Head(commands) = commands[1]
      BY <3>1
    <3> QED BY <1>3, <3>1, <3>2, CommandFacts
  <2>2. StreamOK(Subscribed(sent), sent, engine = "stopped")
    BY <1>1, SubscribedOK
  <2> QED BY <1>3, <2>1, <2>2, OneStream DEF Handle
<1> QED BY <1>2, <1>3 DEF Handle, Subscribed

LEMMA LeaveKeepsStreams ==
  ASSUME TaskTypes, StreamsInv, NEW c \in Clients, Leave(c)
  PROVE  StreamsInv'
<1>1. sent \in Nat /\ (engine = "stopped") \in BOOLEAN
  BY DEF TaskTypes
<1>2. StreamOK(stream[c], sent, engine = "stopped")
  BY DEF StreamsInv
<1>3. PICK t : t = IF stream[c].forwarder = "gone" THEN NoStream ELSE Left(stream[c])
  OBVIOUS
<1>4. StreamOK(t, sent, engine = "stopped")
  BY <1>1, <1>2, <1>3, NoStreamOK, LeftOK
<1>5. stream' = [stream EXCEPT ![c] = t] /\ UNCHANGED <<engine, sent>>
  BY <1>3 DEF Leave, Left
<1> QED BY <1>4, <1>5, OneStream

LEMMA ForwarderKeepsStreams ==
  ASSUME TaskTypes, StreamsInv, NEW c \in Clients,
         \/ Forward(c) \/ ForwarderEnds(c) \/ Deposit(c) \/ ForwarderQuits(c)
         \/ Transmit(c) \/ ReadFill(c) \/ ReadEnd(c)
  PROVE  StreamsInv'
<1>1. /\ sent \in Nat /\ sent <= MaxFills /\ (engine = "stopped") \in BOOLEAN
  BY Constants DEF TaskTypes
<1>2. PICK s : s = stream[c]
  OBVIOUS
<1>3. StreamOK(s, sent, engine = "stopped")
  BY <1>2 DEF StreamsInv
<1>4. CASE Forward(c)
  <2>1. PICK t : t = [s EXCEPT !.forwarder = "sending", !.holding = Received(s),
                               !.next = IF Received(s) = <<DataLoss>> THEN Oldest
                                        ELSE Received(s)[1] + 1]
    OBVIOUS
  <2>2. s.forwarder = "receiving" /\ Received(s) # <<>> /\ UNCHANGED <<engine, sent>>
    BY <1>2, <1>4 DEF Forward
  <2>3. stream' = [stream EXCEPT ![c] = t]
    BY <1>2, <1>4, <2>1 DEF Forward
  <2>4. StreamOK(t, sent, engine = "stopped")
    BY <1>1, <1>3, <2>1, <2>2, ForwardOK
  <2> QED BY <2>2, <2>3, <2>4, OneStream
<1>5. CASE ForwarderEnds(c)
  <2>1. PICK t : t = [s EXCEPT !.forwarder = "gone"]
    OBVIOUS
  <2>2. s.forwarder = "receiving" /\ s.next > sent /\ engine = "stopped" /\ UNCHANGED <<engine, sent>>
    BY <1>2, <1>5 DEF ForwarderEnds, NothingLeft
  <2>3. stream' = [stream EXCEPT ![c] = t]
    BY <1>2, <1>5, <2>1 DEF ForwarderEnds
  <2>4. (engine = "stopped") = TRUE
    BY <2>2
  <2>5. StreamOK(t, sent, engine = "stopped")
    BY <1>1, <1>3, <2>1, <2>2, <2>4, ForwarderEndsOK
  <2> QED BY <2>2, <2>3, <2>5, OneStream
<1>6. CASE Deposit(c)
  <2>1. PICK t : t = [s EXCEPT !.buffer = @ \o s.holding, !.holding = <<>>,
                               !.forwarder = IF s.holding = <<DataLoss>> THEN "gone"
                                             ELSE "receiving"]
    OBVIOUS
  <2>2. /\ s.forwarder = "sending" /\ s.open /\ Len(s.buffer) < StreamBuffer
        /\ UNCHANGED <<engine, sent>>
    BY <1>2, <1>6 DEF Deposit
  <2>3. stream' = [stream EXCEPT ![c] = t]
    BY <1>2, <1>6, <2>1 DEF Deposit
  <2>4. StreamOK(t, sent, engine = "stopped")
    BY <1>1, <1>3, <2>1, <2>2, DepositOK
  <2> QED BY <2>2, <2>3, <2>4, OneStream
<1>7. CASE ForwarderQuits(c)
  <2>1. stream' = [stream EXCEPT ![c] = NoStream] /\ UNCHANGED <<engine, sent>>
    BY <1>7 DEF ForwarderQuits
  <2>2. StreamOK(NoStream, sent, engine = "stopped")
    BY <1>1, NoStreamOK
  <2> QED BY <2>1, <2>2, OneStream
<1>8. CASE Transmit(c)
  <2>1. PICK t : t = [s EXCEPT !.wire = Append(@, Head(s.buffer)), !.buffer = Tail(@)]
    OBVIOUS
  <2>2. /\ s.open /\ s.buffer # <<>> /\ Len(s.wire) < Window
        /\ UNCHANGED <<engine, sent>>
    BY <1>2, <1>8 DEF Transmit
  <2>3. stream' = [stream EXCEPT ![c] = t]
    BY <1>2, <1>8, <2>1 DEF Transmit
  <2>4. StreamOK(t, sent, engine = "stopped")
    BY <1>1, <1>3, <2>1, <2>2, TransmitOK
  <2> QED BY <2>2, <2>3, <2>4, OneStream
<1>9. CASE ReadFill(c)
  <2>1. PICK t : t = [s EXCEPT !.got = Append(@, s.wire[1]), !.wire = Tail(@)]
    OBVIOUS
  <2>2. /\ s.open /\ s.wire # <<>> /\ s.wire[1] # DataLoss
        /\ UNCHANGED <<engine, sent>>
    BY <1>2, <1>9 DEF ReadFill
  <2>3. stream' = [stream EXCEPT ![c] = t]
    BY <1>2, <1>9, <2>1 DEF ReadFill
  <2>4. StreamOK(t, sent, engine = "stopped")
    BY <1>1, <1>3, <2>1, <2>2, ReadFillOK
  <2> QED BY <2>2, <2>3, <2>4, OneStream
<1>10. CASE ReadEnd(c)
  <2>1. PICK t : t = [s EXCEPT !.wire = <<>>,
                               !.end = IF s.wire = <<>> THEN "ok" ELSE "data_loss"]
    OBVIOUS
  <2>2. /\ s.open /\ s.end = "none" /\ StreamDone(s) /\ s.wire \in {<<>>, <<DataLoss>>}
        /\ UNCHANGED <<engine, sent>>
    BY <1>2, <1>10 DEF ReadEnd
  <2>3. stream' = [stream EXCEPT ![c] = t]
    BY <1>2, <1>10, <2>1 DEF ReadEnd
  <2>4. StreamOK(t, sent, engine = "stopped")
    BY <1>1, <1>3, <2>1, <2>2, ReadEndOK
  <2> QED BY <2>2, <2>3, <2>4, OneStream
<1> QED BY <1>4, <1>5, <1>6, <1>7, <1>8, <1>9, <1>10

LEMMA BroadcastKeepsStreams ==
  ASSUME TaskTypes, StreamsInv, Broadcast
  PROVE  StreamsInv'
<1>1. PICK n : n = sent
  OBVIOUS
<1>2. n \in Nat /\ sent' = n + 1 /\ engine' # "stopped" /\ engine # "stopped" /\ stream' = stream
  BY <1>1 DEF Broadcast, TaskTypes
<1>3. (engine = "stopped") = FALSE /\ (engine' = "stopped") = FALSE
  BY <1>2
<1>4. \A c \in Clients : StreamOK(stream[c], n, FALSE)
  BY <1>1, <1>3 DEF StreamsInv
<1>5. \A c \in Clients : StreamOK(stream[c], n + 1, FALSE)
  BY <1>2, <1>4, FillMade
<1> QED BY <1>2, <1>3, <1>5 DEF StreamsInv

LEMMA StopKeepsStreams ==
  ASSUME TaskTypes, StreamsInv, StopEngine
  PROVE  StreamsInv'
<1>1. PICK n : n = sent
  OBVIOUS
<1>2. n \in Nat /\ sent' = n /\ engine' = "stopped" /\ engine # "stopped" /\ stream' = stream
  BY <1>1 DEF StopEngine, TaskTypes
<1>3. (engine = "stopped") = FALSE /\ (engine' = "stopped") = TRUE
  BY <1>2
<1>4. \A c \in Clients : StreamOK(stream[c], n, FALSE)
  BY <1>1, <1>3 DEF StreamsInv
<1>5. \A c \in Clients : StreamOK(stream[c], n, TRUE)
  BY <1>2, <1>4, EngineGone
<1> QED BY <1>2, <1>3, <1>5 DEF StreamsInv

LEMMA NextTypes == TaskTypes /\ [Next]_vars => TaskTypes'
<1> SUFFICES ASSUME TaskTypes, [Next]_vars PROVE TaskTypes'
  OBVIOUS
<1>1. ASSUME NEW c \in Clients,
             \/ \E kind \in {"Order", "Subscribe"} : Call(c, kind)
             \/ Ask(c) \/ Unavailable(c) \/ Leave(c)
             \/ Forward(c) \/ ForwarderEnds(c) \/ Deposit(c) \/ ForwarderQuits(c)
             \/ Transmit(c) \/ ReadFill(c) \/ ReadEnd(c)
      PROVE  TaskTypes'
  BY <1>1 DEF Call, Ask, Unavailable, Leave, Forward, ForwarderEnds, Deposit, ForwarderQuits,
              Transmit, ReadFill, ReadEnd, TaskTypes
<1>2. ASSUME Handle \/ TickBegin \/ TickEnd \/ StopEngine
      PROVE  TaskTypes'
  BY <1>2 DEF Handle, TickBegin, TickEnd, StopEngine, TaskTypes
<1>3. ASSUME Broadcast
      PROVE  TaskTypes'
  BY <1>3, Constants DEF Broadcast, TaskTypes
<1>4. ASSUME CtrlC \/ SignalShutdown \/ ServerReturns \/ ServerFails \/ StopAgain \/ Join
      PROVE  TaskTypes'
  BY <1>4 DEF CtrlC, SignalShutdown, ServerReturns, ServerFails, StopAgain, Join, TaskTypes
<1>5. CASE UNCHANGED vars
  BY <1>5 DEF vars, TaskTypes
<1> QED BY <1>1, <1>2, <1>3, <1>4, <1>5 DEF Next

LEMMA NextStreams == TaskTypes /\ CallsInv /\ StreamsInv /\ [Next]_vars => StreamsInv'
<1> SUFFICES ASSUME TaskTypes, CallsInv, StreamsInv, [Next]_vars PROVE StreamsInv'
  OBVIOUS
<1>1. ASSUME NEW c \in Clients,
             \/ \E kind \in {"Order", "Subscribe"} : Call(c, kind)
             \/ Ask(c) \/ Unavailable(c)
      PROVE  StreamsInv'
  BY <1>1, NoStreamStep DEF Call, Ask, Unavailable
<1>2. ASSUME TickBegin \/ TickEnd
      PROVE  StreamsInv'
  <2>1. sent' = sent /\ stream' = stream /\ (engine' = "stopped") = (engine = "stopped")
    BY <1>2 DEF TickBegin, TickEnd
  <2> QED BY <2>1 DEF StreamsInv
<1>3. ASSUME CtrlC \/ SignalShutdown \/ ServerReturns \/ ServerFails \/ StopAgain \/ Join
      PROVE  StreamsInv'
  BY <1>3, NoStreamStep DEF CtrlC, SignalShutdown, ServerReturns, ServerFails, StopAgain, Join
<1>4. CASE UNCHANGED vars
  BY <1>4, NoStreamStep DEF vars
<1> QED BY <1>1, <1>2, <1>3, <1>4, LeaveKeepsStreams, ForwarderKeepsStreams, HandleKeepsStreams,
           BroadcastKeepsStreams, StopKeepsStreams DEF Next

LEMMA NextInv == IInv /\ [Next]_vars => IInv'
BY NextTypes, NextCalls, NextStreams DEF IInv

\* event_loop.rs, server.rs, service.rs: the inductive invariant holds through every order
\* of calls, ticks, departures, stream steps and shutdown.
THEOREM ServiceInvariant == Spec => []IInv
BY InitInv, NextInv, PTL DEF Spec

\* server.rs:30-43: a call that fails as UNAVAILABLE had no effect and never will have, and
\* no channel or stream exceeds its capacity, through shutdown and whatever clients do.
THEOREM EveryCallIsSound == Spec => []CallsSound
<1>1. IInv => CallsSound
  <2> SUFFICES ASSUME IInv PROVE CallsSound
    OBVIOUS
  <2>1. /\ Command = [from : Clients \cup {Nobody}, kind : {"Order", "Subscribe", "Shutdown"}]
        /\ CallRecord = [phase : {"idle", "sending", "asked", "answered", "unavailable"},
                         kind : {"None", "Order", "Subscribe"}, handled : BOOLEAN]
    BY DEF Command, CallRecord
  <2>2. ASSUME NEW c \in Clients
        PROVE  /\ stream[c].open \in BOOLEAN
               /\ stream[c].forwarder \in {"receiving", "sending", "gone"}
               /\ stream[c].since \in 0 .. sent /\ stream[c].next \in 1 .. sent + 1
               /\ \A part \in {"holding", "buffer", "wire", "got"} : stream[c][part] \in Seq(Item)
               /\ Len(stream[c].buffer) <= StreamBuffer /\ Len(stream[c].wire) <= Window
               /\ Len(stream[c].holding) = IF stream[c].forwarder = "sending" THEN 1 ELSE 0
               /\ stream[c].end \in {"none", "ok", "data_loss"}
    <3>1. StreamTypes(stream[c], sent) /\ sent \in Nat
      BY DEF IInv, StreamsInv, StreamOK, TaskTypes
    <3>2. PICK s : s = stream[c]
      OBVIOUS
    <3>3. \A part \in {"holding", "buffer", "wire", "got"} : s[part] \in Seq(Item)
      BY <3>1, <3>2, FieldTypes
    <3>4. /\ s.since \in 0 .. sent /\ s.next \in 1 .. sent + 1
      BY <3>1, <3>2, FieldTypes
    <3> QED BY <3>1, <3>2, <3>3, <3>4, FieldTypes DEF StreamTypes
  <2>3. TypeOK
    BY <2>1, <2>2 DEF IInv, TaskTypes, CallsInv, TypeOK
  <2>4. UnavailableHadNoEffect
    BY Constants DEF IInv, CallsInv, UnavailableHadNoEffect
  <2> QED BY <2>3, <2>4 DEF CallsSound
<1> QED BY <1>1, ServiceInvariant, PTL

-----------------------------------------------------------------------------
(* The feed *)

Feeds == [c \in Clients |-> Seen(stream[c])]

LEMMA FeedIsMapped ==
  \A c \in Clients : /\ Feeds[c] = Seen(stream[c])
                     /\ Feed!Behind(c) = sent - stream[c].since - Len(stream[c].got)
BY DEF Feeds, Feed!Behind, Seen

LEMMA InitFeed == Init => Feed!Init
<1> SUFFICES ASSUME Init PROVE Feed!Init
  OBVIOUS
<1>1. sent = 0 /\ (engine = "stopped") = FALSE
  BY DEF Init
<1>2. [c \in Clients |-> Seen(stream[c])] = [c \in Clients |-> Feed!NoFeed]
  BY DEF Init, Seen, NoStream, Feed!NoFeed
<1> QED BY <1>1, <1>2 DEF Feed!Init

LEMMA FeedUnchanged ==
  ASSUME StreamsInv, sent' = sent, engine' = "stopped" <=> engine = "stopped",
         \A c \in Clients : Seen(stream'[c]) = Seen(stream[c])
  PROVE  UNCHANGED Feed!vars
<1>1. Feeds' = Feeds /\ (engine = "stopped")' = (engine = "stopped")
  BY DEF Feeds, Seen
<1> QED BY <1>1 DEF Feed!vars, Feeds

\* What one stream's step does to the feeds.
LEMMA FeedOfOne ==
  ASSUME StreamsInv, UNCHANGED <<engine, sent>>, NEW c \in Clients, NEW t,
         stream' = [stream EXCEPT ![c] = t]
  PROVE  /\ Feeds' = [Feeds EXCEPT ![c] = Seen(t)]
         /\ UNCHANGED <<sent, engine = "stopped">>
<1>1. stream'[c] = t /\ \A d \in Clients : d # c => stream'[d] = stream[d]
  BY DEF StreamsInv
<1>2. Feeds' = [d \in Clients |-> Seen(stream'[d])]
  BY DEF Feeds, Seen
<1>3. \A d \in Clients : Seen(stream'[d]) = IF d = c THEN Seen(t) ELSE Seen(stream[d])
  BY <1>1
<1>4. [Feeds EXCEPT ![c] = Seen(t)]
        = [d \in Clients |-> IF d = c THEN Seen(t) ELSE Seen(stream[d])]
  BY DEF Feeds
<1>5. Feeds' = [Feeds EXCEPT ![c] = Seen(t)]
  BY <1>2, <1>3, <1>4
<1> QED BY <1>5

\* The steps of a stream that its client does not see.
LEMMA HiddenSteps ==
  ASSUME IInv, NEW c \in Clients,
         \/ Forward(c) \/ ForwarderEnds(c) \/ Deposit(c) \/ ForwarderQuits(c) \/ Transmit(c)
  PROVE  UNCHANGED Feed!vars
<1>1. UNCHANGED <<engine, sent>>
  BY DEF Forward, ForwarderEnds, Deposit, ForwarderQuits, Transmit
<1>2. PICK s : s = stream[c]
  OBVIOUS
<1>3. s \in StreamRecord /\ StreamOK(s, sent, engine = "stopped")
  BY <1>2 DEF IInv, StreamsInv, StreamOK, StreamTypes
<1>4. ASSUME NEW t, stream' = [stream EXCEPT ![c] = t], Seen(t) = Seen(s)
      PROVE  UNCHANGED Feed!vars
  <2>1. stream'[c] = t /\ \A d \in Clients : d # c => stream'[d] = stream[d]
    BY <1>4 DEF IInv, StreamsInv
  <2>2. \A d \in Clients : Seen(stream'[d]) = Seen(stream[d])
    BY <1>2, <1>4, <2>1
  <2> QED BY <1>1, <2>2, FeedUnchanged DEF IInv
<1>5. CASE ForwarderQuits(c)
  <2>1. stream' = [stream EXCEPT ![c] = NoStream] /\ ~s.open
    BY <1>2, <1>5 DEF ForwarderQuits, Notices
  <2>2. Seen(NoStream) = Seen(s)
    BY <1>3, <2>1 DEF StreamOK, Seen, NoStream
  <2> QED BY <1>4, <2>1, <2>2
<1>6. CASE Forward(c)
  <2>1. PICK t : t = [s EXCEPT !.forwarder = "sending", !.holding = Received(s),
                               !.next = IF Received(s) = <<DataLoss>> THEN Oldest
                                        ELSE Received(s)[1] + 1]
    OBVIOUS
  <2>2. stream' = [stream EXCEPT ![c] = t]
    BY <1>2, <1>6, <2>1 DEF Forward
  <2>3. Seen(t) = Seen(s)
    BY <1>3, <2>1 DEF Seen, StreamRecord
  <2> QED BY <1>4, <2>2, <2>3
<1>7. CASE ForwarderEnds(c)
  <2>1. PICK t : t = [s EXCEPT !.forwarder = "gone"]
    OBVIOUS
  <2>2. stream' = [stream EXCEPT ![c] = t]
    BY <1>2, <1>7, <2>1 DEF ForwarderEnds
  <2>3. Seen(t) = Seen(s)
    BY <1>3, <2>1 DEF Seen, StreamRecord
  <2> QED BY <1>4, <2>2, <2>3
<1>8. CASE Deposit(c)
  <2>1. PICK t : t = [s EXCEPT !.buffer = @ \o s.holding, !.holding = <<>>,
                               !.forwarder = IF s.holding = <<DataLoss>> THEN "gone"
                                             ELSE "receiving"]
    OBVIOUS
  <2>2. stream' = [stream EXCEPT ![c] = t]
    BY <1>2, <1>8, <2>1 DEF Deposit
  <2>3. Seen(t) = Seen(s)
    BY <1>3, <2>1 DEF Seen, StreamRecord
  <2> QED BY <1>4, <2>2, <2>3
<1>9. CASE Transmit(c)
  <2>1. PICK t : t = [s EXCEPT !.wire = Append(@, Head(s.buffer)), !.buffer = Tail(@)]
    OBVIOUS
  <2>2. stream' = [stream EXCEPT ![c] = t]
    BY <1>2, <1>9, <2>1 DEF Transmit
  <2>3. Seen(t) = Seen(s)
    BY <1>3, <2>1 DEF Seen, StreamRecord
  <2> QED BY <1>4, <2>2, <2>3
<1> QED BY <1>5, <1>6, <1>7, <1>8, <1>9

LEMMA FeedMeets ==
  ASSUME NEW c \in Clients, NEW f, Feeds' = [Feeds EXCEPT ![c] = f],
         UNCHANGED <<sent, engine = "stopped">>
  PROVE  /\ f = [Feeds[c] EXCEPT !.got = Append(@, Feeds[c].since + Len(@) + 1)]
              /\ Feeds[c].state = "open" /\ Feed!Behind(c) > 0 => Feed!Deliver(c)
         /\ f = [Feeds[c] EXCEPT !.state = "data_loss"]
              /\ Feeds[c].state = "open" /\ Feed!Behind(c) > FillBuffer => Feed!LoseData(c)
         /\ f = [Feeds[c] EXCEPT !.state = "ended"] /\ engine = "stopped"
              /\ Feeds[c].state = "open" /\ Feed!Behind(c) = 0 => Feed!End(c)
         /\ f = Feed!NoFeed => Feed!Leave(c)
         /\ f = [state |-> "open", since |-> sent, got |-> <<>>] => Feed!Subscribe(c)
<1> DEFINE g == [d \in Clients |-> Seen(stream[d])]
<1>1. Feeds = g /\ Feeds' = g'
  BY DEF Feeds
<1>2. g' = [g EXCEPT ![c] = f]
  BY <1>1
<1> QED BY <1>1, <1>2 DEF Feed!Deliver, Feed!LoseData, Feed!End, Feed!Leave, Feed!Subscribe

\* The client reads a fill: it is the next one.
LEMMA ReadDelivers ==
  ASSUME IInv, NEW c \in Clients, ReadFill(c)
  PROVE  Feed!Deliver(c)
<1>1. PICK s : s = stream[c]
  OBVIOUS
<1>2. /\ s \in StreamRecord /\ StreamOK(s, sent, engine = "stopped")
      /\ sent \in Nat /\ (engine = "stopped") \in BOOLEAN
  BY <1>1 DEF IInv, StreamsInv, StreamOK, StreamTypes, TaskTypes
<1>3. PICK t : t = [s EXCEPT !.got = Append(@, s.wire[1]), !.wire = Tail(@)]
  OBVIOUS
<1>4. /\ s.open /\ s.wire # <<>> /\ s.wire[1] # DataLoss /\ UNCHANGED <<engine, sent>>
      /\ stream' = [stream EXCEPT ![c] = t]
  BY <1>1, <1>3 DEF ReadFill
<1>5. /\ s.end = "none" /\ s.wire[1] = s.since + Len(s.got) + 1
      /\ sent - s.since - Len(s.got) > 0
  BY <1>2, <1>3, <1>4, ReadFillOK
<1>6. Seen(s) = [state |-> "open", since |-> s.since, got |-> s.got]
  BY <1>4, <1>5 DEF Seen
<1>7. Seen(t) = [state |-> "open", since |-> s.since, got |-> Append(s.got, s.wire[1])]
  BY <1>2, <1>3, <1>4, <1>5 DEF Seen, StreamRecord
<1>8. Seen(t) = [Seen(s) EXCEPT !.got = Append(@, Seen(s).since + Len(@) + 1)]
  BY <1>5, <1>6, <1>7
<1>9. Feeds' = [Feeds EXCEPT ![c] = Seen(t)] /\ UNCHANGED <<sent, engine = "stopped">>
  BY <1>4, FeedOfOne DEF IInv
<1>10. Feeds[c] = Seen(s) /\ Feed!Behind(c) = sent - s.since - Len(s.got)
  BY <1>1, FeedIsMapped
<1>11. Feeds[c].state = "open" /\ Feed!Behind(c) > 0
  BY <1>5, <1>6, <1>10
<1> QED BY <1>8, <1>9, <1>10, <1>11, FeedMeets

\* The client reads the end: nothing is missing, or it had fallen behind.
LEMMA ReadEnds ==
  ASSUME IInv, NEW c \in Clients, ReadEnd(c)
  PROVE  Feed!End(c) \/ Feed!LoseData(c)
<1>1. PICK s : s = stream[c]
  OBVIOUS
<1>2. /\ s \in StreamRecord /\ StreamOK(s, sent, engine = "stopped")
      /\ sent \in Nat /\ (engine = "stopped") \in BOOLEAN
  BY <1>1 DEF IInv, StreamsInv, StreamOK, StreamTypes, TaskTypes
<1>3. PICK t : t = [s EXCEPT !.wire = <<>>,
                             !.end = IF s.wire = <<>> THEN "ok" ELSE "data_loss"]
  OBVIOUS
<1>4. /\ s.open /\ s.end = "none" /\ StreamDone(s) /\ s.wire \in {<<>>, <<DataLoss>>}
      /\ UNCHANGED <<engine, sent>> /\ stream' = [stream EXCEPT ![c] = t]
  BY <1>1, <1>3 DEF ReadEnd
<1>5. /\ s.wire = <<>> => engine = "stopped" /\ sent - s.since - Len(s.got) = 0
      /\ s.wire # <<>> => sent - s.since - Len(s.got) > FillBuffer
  BY <1>2, <1>3, <1>4, ReadEndOK
<1>6. Seen(s) = [state |-> "open", since |-> s.since, got |-> s.got]
  BY <1>4 DEF Seen
<1>7. Seen(t) = [Seen(s) EXCEPT !.state = IF s.wire = <<>> THEN "ended" ELSE "data_loss"]
  <2>1. /\ t.open /\ t.since = s.since /\ t.got = s.got
        /\ t.end = IF s.wire = <<>> THEN "ok" ELSE "data_loss"
    BY <1>2, <1>3, <1>4 DEF StreamRecord
  <2>2. Seen(t) = [state |-> IF s.wire = <<>> THEN "ended" ELSE "data_loss",
                   since |-> s.since, got |-> s.got]
    BY <2>1 DEF Seen
  <2> QED BY <1>6, <2>2
<1>8. Feeds' = [Feeds EXCEPT ![c] = Seen(t)] /\ UNCHANGED <<sent, engine = "stopped">>
  BY <1>4, FeedOfOne DEF IInv
<1>9. Feeds[c] = Seen(s) /\ Feed!Behind(c) = sent - s.since - Len(s.got)
  BY <1>1, FeedIsMapped
<1>10. Feeds[c].state = "open"
  BY <1>6, <1>9
<1>11. CASE s.wire = <<>>
  BY <1>5, <1>7, <1>8, <1>9, <1>10, <1>11, FeedMeets
<1>12. CASE s.wire # <<>>
  BY <1>5, <1>7, <1>8, <1>9, <1>10, <1>12, FeedMeets
<1> QED BY <1>11, <1>12

\* The engine takes a subscription, or a command that touches no stream.
LEMMA HandleSubscribes ==
  ASSUME IInv, Handle
  PROVE  UNCHANGED Feed!vars \/ \E c \in Clients : Feed!Subscribe(c)
<1> DEFINE c == Head(commands).from
<1>1. UNCHANGED <<engine, sent>>
  BY DEF Handle
<1>2. CASE UNCHANGED stream
  BY <1>1, <1>2, FeedUnchanged DEF IInv
<1>3. CASE c # Nobody /\ stream' = [stream EXCEPT ![c] = Subscribed(sent)]
  <2>1. c \in Clients
    <3>1. commands # <<>> /\ commands \in Seq(Command)
      BY DEF Handle, IInv, CallsInv
    <3>2. 1 \in 1 .. Len(commands) /\ Head(commands) = commands[1]
      BY <3>1
    <3> QED BY <1>3, <3>1, <3>2, CommandFacts
  <2>2. Seen(Subscribed(sent)) = [state |-> "open", since |-> sent, got |-> <<>>]
    BY DEF Seen, Subscribed, NoStream
  <2>3. Feeds' = [Feeds EXCEPT ![c] = Seen(Subscribed(sent))] /\ UNCHANGED <<sent, engine = "stopped">>
    <3>1. PICK t : t = Subscribed(sent)
      OBVIOUS
    <3> QED BY <1>1, <1>3, <2>1, <3>1, FeedOfOne DEF IInv
  <2> QED BY <2>1, <2>2, <2>3, FeedMeets
<1> QED BY <1>2, <1>3 DEF Handle, Subscribed

LEMMA LeaveLeaves ==
  ASSUME IInv, NEW c \in Clients, Leave(c)
  PROVE  Feed!Leave(c)
<1>1. PICK t : t = IF stream[c].forwarder = "gone" THEN NoStream ELSE Left(stream[c])
  OBVIOUS
<1>2. stream' = [stream EXCEPT ![c] = t] /\ UNCHANGED <<engine, sent>>
  BY <1>1 DEF Leave, Left
<1>3. Seen(t) = Feed!NoFeed
  BY <1>1 DEF Seen, NoStream, Left, Feed!NoFeed
<1>4. Feeds' = [Feeds EXCEPT ![c] = Seen(t)] /\ UNCHANGED <<sent, engine = "stopped">>
  BY <1>2, FeedOfOne DEF IInv
<1> QED BY <1>3, <1>4, FeedMeets

LEMMA StepIsFeedStep == IInv /\ [Next]_vars => [Feed!Next]_(Feed!vars)
<1> SUFFICES ASSUME IInv, [Next]_vars PROVE Feed!Next \/ UNCHANGED Feed!vars
  OBVIOUS
<1>1. ASSUME NEW c \in Clients,
             \/ \E kind \in {"Order", "Subscribe"} : Call(c, kind)
             \/ Ask(c) \/ Unavailable(c)
      PROVE  UNCHANGED Feed!vars
  BY <1>1, FeedUnchanged DEF Call, Ask, Unavailable, IInv
<1>2. ASSUME NEW c \in Clients, Leave(c) \/ ReadFill(c) \/ ReadEnd(c)
      PROVE  Feed!Next
  BY <1>2, LeaveLeaves, ReadDelivers, ReadEnds DEF Feed!Next
<1>3. ASSUME TickBegin \/ TickEnd
      PROVE  UNCHANGED Feed!vars
  BY <1>3, FeedUnchanged DEF TickBegin, TickEnd, IInv
<1>4. ASSUME CtrlC \/ SignalShutdown \/ ServerReturns \/ ServerFails \/ StopAgain \/ Join
      PROVE  UNCHANGED Feed!vars
  BY <1>4, FeedUnchanged
     DEF CtrlC, SignalShutdown, ServerReturns, ServerFails, StopAgain, Join, IInv
<1>5. ASSUME Broadcast
      PROVE  Feed!Next
  <2>1. /\ sent' = sent + 1 /\ (engine = "stopped") = FALSE
        /\ (engine = "stopped")' = (engine = "stopped") /\ stream' = stream
    BY <1>5 DEF Broadcast
  <2>2. Feeds' = Feeds
    BY <2>1 DEF Feeds, Seen
  <2> QED BY <2>1, <2>2 DEF Feeds, Feed!Make, Feed!Next
<1>6. ASSUME StopEngine
      PROVE  Feed!Next
  <2>1. /\ sent' = sent /\ (engine = "stopped") = FALSE
        /\ (engine = "stopped")' = TRUE /\ stream' = stream
    BY <1>6 DEF StopEngine
  <2>2. Feeds' = Feeds
    BY <2>1 DEF Feeds, Seen
  <2> QED BY <2>1, <2>2 DEF Feeds, Feed!Stop, Feed!Next
<1>7. ASSUME Handle
      PROVE  Feed!Next \/ UNCHANGED Feed!vars
  BY <1>7, HandleSubscribes DEF Feed!Next
<1>8. CASE UNCHANGED vars
  BY <1>8, FeedUnchanged DEF vars, IInv
<1> QED BY <1>1, <1>2, <1>3, <1>4, <1>5, <1>6, <1>7, <1>8, HiddenSteps DEF Next

\* execution.proto:34-37: every fill stream is the feed the API promises, for any number of
\* clients and fills and any size of the ring, the stream's buffer and the transport's.
THEOREM StreamsAreFeeds == Spec => ImplementsFillFeed
<1>1. Init => Feed!Init
  BY InitFeed
<1>2. IInv /\ [Next]_vars => [Feed!Next]_(Feed!vars)
  BY StepIsFeedStep
<1> QED BY <1>1, <1>2, ServiceInvariant, PTL DEF Spec, ImplementsFillFeed, Feed!Spec
=============================================================================
