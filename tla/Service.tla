------------------------------- MODULE Service -------------------------------
(***************************************************************************)
(* The service around the engine: the engine task of event_loop.rs, the    *)
(* gRPC handlers and fill-stream forwarders of crates/api/src/server.rs,   *)
(* and the start and shutdown order of service.rs and main.rs.             *)
(*                                                                         *)
(* Everything here is a task or a channel between tasks.  What a command   *)
(* does to the engine is EngineCore's matter: here it is handled or not.   *)
(* Fills are numbered in the order the engine broadcasts them.             *)
(*                                                                         *)
(* Channels, gRPC server and transport are libraries, modelled from their  *)
(* use: a bounded queue between handlers and engine, a broadcast ring that *)
(* overwrites its oldest fills, and per stream a bounded buffer from the   *)
(* forwarder to the server followed by what the transport takes while the  *)
(* client does not read.                                                   *)
(***************************************************************************)
EXTENDS Integers, SequencesExt

CONSTANTS
  Clients,
  Subscribers,      \* bound: the clients that open fill streams
  Nobody,           \* the requester of a command that waits for no answer
  CommandBuffer,    \* capacity of the command channel
  FillBuffer,       \* capacity of the broadcast ring, after rounding
  StreamBuffer,     \* capacity of a stream's channel, 256 in the code
  Window,           \* items the transport takes ahead of the client
  MaxFills          \* bound: fills in a run

ASSUME ServiceAssumption ==
  /\ Nobody \notin Clients /\ Subscribers \subseteq Clients
  /\ CommandBuffer \in Nat \ {0} /\ FillBuffer \in Nat \ {0}
  /\ StreamBuffer \in Nat \ {0} /\ Window \in Nat \ {0}
  /\ MaxFills \in Nat

VARIABLES
  engine,      \* the engine task: between events, in a tick, or stopped
  sent,        \* fills broadcast so far
  commands,    \* the command channel
  call,        \* per client: its unary or subscribe call
  stream,      \* per client: its fill stream
  shutdown,    \* the shutdown future: waiting for Ctrl+C, sending, completed
  server       \* serve: the gRPC server and what follows it

vars == <<engine, sent, commands, call, stream, shutdown, server>>
-----------------------------------------------------------------------------
DataLoss == 0     \* the item that says fills were skipped; fills count from 1

CallIdle == [phase |-> "idle", kind |-> "None", handled |-> FALSE]
NoStream ==
  [open |-> FALSE, forwarder |-> "gone", since |-> 0, next |-> 1, holding |-> <<>>,
   buffer |-> <<>>, wire |-> <<>>, got |-> <<>>, end |-> "none"]

Init ==
  /\ engine = "select" /\ sent = 0
  /\ commands = <<>>
  /\ call = [c \in Clients |-> CallIdle]
  /\ stream = [c \in Clients |-> NoStream]
  /\ shutdown = "waiting" /\ server = "serving"
-----------------------------------------------------------------------------
\* A client calls: submit, cancel, status or positions, or a subscription.  A
\* draining server takes no new calls.
Call(c, kind) ==
  /\ server = "serving"
  /\ call[c].phase \in {"idle", "answered", "unavailable"}
  /\ kind = "Subscribe" => /\ c \in Subscribers
                           /\ stream[c].forwarder = "gone"
                           /\ ~stream[c].open \/ stream[c].end # "none"
  /\ call' = [call EXCEPT ![c] = [phase |-> "sending", kind |-> kind, handled |-> FALSE]]
  /\ UNCHANGED <<engine, sent, commands, stream, shutdown, server>>

HasRoom == Len(commands) < CommandBuffer

\* ask sends its command, waiting for room in the channel.
Ask(c) ==
  /\ call[c].phase = "sending"
  /\ engine # "stopped" /\ HasRoom
  /\ commands' = Append(commands, [from |-> c, kind |-> call[c].kind])
  /\ call' = [call EXCEPT ![c].phase = "asked"]
  /\ UNCHANGED <<engine, sent, stream, shutdown, server>>

\* A mutation: the reply channel outlives the engine.
Mutant_ReplyKept == {"sending"}

\* The channel is closed, or the reply channel was dropped with the command.
FailsOnceStopped == {"sending", "asked"}

Unavailable(c) ==
  /\ call[c].phase \in FailsOnceStopped
  /\ engine = "stopped"
  /\ call' = [call EXCEPT ![c].phase = "unavailable"]
  /\ UNCHANGED <<engine, sent, commands, stream, shutdown, server>>

\* The client goes away: its handler and the receiving end of its stream are
\* dropped; its command, if queued, will be answered to nobody.
Leave(c) ==
  /\ call[c].phase # "idle" \/ stream[c].open
  /\ call' = [call EXCEPT ![c] = CallIdle]
  /\ commands' = [i \in DOMAIN commands |->
                    IF commands[i].from = c THEN [commands[i] EXCEPT !.from = Nobody]
                    ELSE commands[i]]
  /\ stream' = [stream EXCEPT ![c] =
                   IF stream[c].forwarder = "gone" THEN NoStream
                   ELSE [NoStream EXCEPT !.forwarder = stream[c].forwarder,
                                         !.next      = stream[c].next,
                                         !.holding   = stream[c].holding]]
  /\ UNCHANGED <<engine, sent, shutdown, server>>
-----------------------------------------------------------------------------
\* The engine's select takes the next command.
Handle ==
  /\ engine = "select" /\ commands # <<>>
  /\ Head(commands).kind # "Shutdown"
  /\ commands' = Tail(commands)
  /\ LET c == Head(commands).from
     IN  IF c = Nobody THEN UNCHANGED <<call, stream>>
         ELSE /\ call' = [call EXCEPT ![c].phase = "answered", ![c].handled = TRUE]
              /\ stream' = IF Head(commands).kind # "Subscribe" THEN stream
                           ELSE [stream EXCEPT ![c] =
                                   [NoStream EXCEPT !.open = TRUE, !.forwarder = "receiving",
                                                    !.since = sent, !.next = sent + 1]]
  /\ UNCHANGED <<engine, sent, shutdown, server>>

\* A tick sends its fills one by one; receivers run at the same time.
TickBegin ==
  /\ engine = "select"
  /\ engine' = "ticking"
  /\ UNCHANGED <<sent, commands, call, stream, shutdown, server>>

Broadcast ==
  /\ engine = "ticking" /\ sent < MaxFills
  /\ sent' = sent + 1
  /\ UNCHANGED <<engine, commands, call, stream, shutdown, server>>

TickEnd ==
  /\ engine = "ticking"
  /\ engine' = "select"
  /\ UNCHANGED <<sent, commands, call, stream, shutdown, server>>

\* A mutation: commands behind the Shutdown are carried out, their replies lost.
Mutant_CarryOutRest(rest) ==
  [c \in Clients |->
     IF \E i \in DOMAIN rest : rest[i].from = c THEN [call[c] EXCEPT !.handled = TRUE]
     ELSE call[c]]
CallsAfterStop(rest) == call

\* Shutdown leaves the loop: the task returns and drops its ends of the
\* channels, with the commands still queued.
StopEngine ==
  /\ engine = "select" /\ commands # <<>>
  /\ Head(commands).kind = "Shutdown"
  /\ engine' = "stopped"
  /\ commands' = <<>>
  /\ call' = CallsAfterStop(Tail(commands))
  /\ UNCHANGED <<sent, stream, shutdown, server>>
-----------------------------------------------------------------------------
\* The broadcast ring holds the last FillBuffer fills.
Oldest == IF sent > FillBuffer THEN sent - FillBuffer + 1 ELSE 1

\* A mutation: a lagged receiver carries on with the oldest fill there is.
Mutant_SkipLost(s) == IF s.next > sent THEN <<>> ELSE <<IF s.next < Oldest THEN Oldest ELSE s.next>>

\* What recv returns: nothing yet, the next fill, or that fills were skipped.
Received(s) ==
  IF s.next > sent THEN <<>>
  ELSE IF s.next < Oldest THEN <<DataLoss>> ELSE <<s.next>>

\* The forwarder's select: a fill or a lag becomes the item to send.
Forward(c) ==
  LET s == stream[c] IN
  /\ s.forwarder = "receiving" /\ Received(s) # <<>>
  /\ stream' = [stream EXCEPT
                  ![c] = [s EXCEPT !.forwarder = "sending", !.holding = Received(s),
                                   !.next = IF Received(s) = <<DataLoss>> THEN Oldest
                                            ELSE Received(s)[1] + 1]]
  /\ UNCHANGED <<engine, sent, commands, call, shutdown, server>>

NothingLeft(s) == s.next > sent

\* The engine has stopped and the ring is empty: recv returns Closed.
ForwarderEnds(c) ==
  /\ stream[c].forwarder = "receiving"
  /\ engine = "stopped" /\ NothingLeft(stream[c])
  /\ stream' = [stream EXCEPT ![c].forwarder = "gone"]
  /\ UNCHANGED <<engine, sent, commands, call, shutdown, server>>

\* sender.send(item): waits for room in the stream's channel, outside the select.
Deposit(c) ==
  LET s == stream[c] IN
  /\ s.forwarder = "sending" /\ s.open
  /\ Len(s.buffer) < StreamBuffer
  /\ stream' = [stream EXCEPT
                  ![c] = [s EXCEPT !.buffer = @ \o s.holding, !.holding = <<>>,
                                   !.forwarder = IF s.holding = <<DataLoss>> THEN "gone"
                                                 ELSE "receiving"]]
  /\ UNCHANGED <<engine, sent, commands, call, shutdown, server>>

\* A mutation: only a failed send tells that the client went away.
Mutant_NoticeOnSend(s) == s.forwarder = "sending" /\ ~s.open

\* The client went away: sender.closed() in the select, or a failed send.
Notices(s) == s.forwarder \in {"receiving", "sending"} /\ ~s.open

ForwarderQuits(c) ==
  /\ Notices(stream[c])
  /\ stream' = [stream EXCEPT ![c] = NoStream]
  /\ UNCHANGED <<engine, sent, commands, call, shutdown, server>>

\* The server writes a buffered item while the transport takes it.
Transmit(c) ==
  LET s == stream[c] IN
  /\ s.open /\ s.buffer # <<>> /\ Len(s.wire) < Window
  /\ stream' = [stream EXCEPT ![c] = [s EXCEPT !.wire = Append(@, Head(s.buffer)),
                                               !.buffer = Tail(@)]]
  /\ UNCHANGED <<engine, sent, commands, call, shutdown, server>>

\* The client reads its stream: a fill, DATA_LOSS, or the end.
ReadFill(c) ==
  LET s == stream[c] IN
  /\ s.open /\ s.wire # <<>> /\ s.wire[1] # DataLoss
  /\ stream' = [stream EXCEPT ![c] = [s EXCEPT !.got = Append(@, s.wire[1]),
                                               !.wire = Tail(@)]]
  /\ UNCHANGED <<engine, sent, commands, call, shutdown, server>>

StreamDone(s) == s.forwarder = "gone" /\ s.buffer = <<>>

ReadEnd(c) ==
  LET s == stream[c] IN
  /\ s.open /\ s.end = "none" /\ StreamDone(s)
  /\ s.wire \in {<<>>, <<DataLoss>>}
  /\ stream' = [stream EXCEPT ![c] = [s EXCEPT !.wire = <<>>,
                                               !.end = IF s.wire = <<>> THEN "ok" ELSE "data_loss"]]
  /\ UNCHANGED <<engine, sent, commands, call, shutdown, server>>

Read(c) == ReadFill(c) \/ ReadEnd(c)
-----------------------------------------------------------------------------
\* Ctrl+C.
CtrlC ==
  /\ shutdown = "waiting" /\ server = "serving"
  /\ shutdown' = "sending"
  /\ UNCHANGED <<engine, sent, commands, call, stream, server>>

\* A mutation: the engine is stopped only after the server has drained.
Mutant_SignalOnly == commands
ShutdownQueued == Append(commands, [from |-> Nobody, kind |-> "Shutdown"])

\* The shutdown future tells the engine to stop, then completes; it is polled by
\* the server, which drains from then on.
SignalShutdown ==
  /\ shutdown = "sending" /\ server = "serving"
  /\ engine # "stopped" /\ HasRoom
  /\ commands' = ShutdownQueued
  /\ shutdown' = "completed" /\ server' = "draining"
  /\ UNCHANGED <<engine, sent, call, stream>>

\* Nothing the server still has to finish.
Drained ==
  \A c \in Clients :
    /\ call[c].phase \notin {"sending", "asked"}
    /\ stream[c].open => StreamDone(stream[c])

ServerReturns ==
  /\ server = "draining" /\ Drained
  /\ server' = "stopping"
  /\ UNCHANGED <<engine, sent, commands, call, stream, shutdown>>

\* The server fails on its own; its connections, tasks of their own, live on.
ServerFails ==
  /\ server \in {"serving", "draining"}
  /\ server' = "stopping"
  /\ UNCHANGED <<engine, sent, commands, call, stream, shutdown>>

\* serve sends Shutdown (again) and waits for the engine task.
StopAgain ==
  /\ server = "stopping"
  /\ IF engine = "stopped" THEN UNCHANGED commands
     ELSE /\ HasRoom
          /\ commands' = Append(commands, [from |-> Nobody, kind |-> "Shutdown"])
  /\ server' = "joining"
  /\ UNCHANGED <<engine, sent, call, stream, shutdown>>

Join ==
  /\ server = "joining" /\ engine = "stopped"
  /\ server' = "returned"
  /\ UNCHANGED <<engine, sent, commands, call, stream, shutdown>>
-----------------------------------------------------------------------------
Next ==
  \/ \E c \in Clients :
       \/ \E kind \in {"Order", "Subscribe"} : Call(c, kind)
       \/ Ask(c) \/ Unavailable(c) \/ Leave(c)
       \/ Forward(c) \/ ForwarderEnds(c) \/ Deposit(c) \/ ForwarderQuits(c)
       \/ Transmit(c) \/ ReadFill(c) \/ ReadEnd(c)
  \/ Handle \/ TickBegin \/ Broadcast \/ TickEnd \/ StopEngine
  \/ CtrlC \/ SignalShutdown \/ ServerReturns \/ ServerFails \/ StopAgain \/ Join

Spec == Init /\ [][Next]_vars

\* The tasks run: a ready step of one is taken in the end.  The engine's select
\* picks among ready branches at random, and senders waiting for room in the
\* command channel are served in turn, so these steps are strongly fair.  No
\* fairness is assumed of clients, of Ctrl+C, or of the engine having fills.
Fairness ==
  /\ WF_vars(TickEnd) /\ SF_vars(Handle) /\ SF_vars(StopEngine)
  /\ SF_vars(SignalShutdown) /\ WF_vars(ServerReturns)
  /\ SF_vars(StopAgain) /\ WF_vars(Join)
  /\ \A c \in Clients :
       /\ SF_vars(Ask(c)) /\ WF_vars(Unavailable(c))
       /\ WF_vars(Forward(c)) /\ WF_vars(ForwarderEnds(c)) /\ WF_vars(Deposit(c))
       /\ WF_vars(ForwarderQuits(c)) /\ WF_vars(Transmit(c))

FairSpec == Spec /\ Fairness
-----------------------------------------------------------------------------
\* Tasks, channels and streams have their types, within their capacities.
Item == DataLoss .. MaxFills

TypeOK ==
  /\ engine \in {"select", "ticking", "stopped"} /\ sent \in 0 .. MaxFills
  /\ commands \in Seq([from : Clients \cup {Nobody}, kind : {"Order", "Subscribe", "Shutdown"}])
  /\ Len(commands) <= CommandBuffer
  /\ call \in [Clients -> [phase : {"idle", "sending", "asked", "answered", "unavailable"},
                           kind : {"None", "Order", "Subscribe"}, handled : BOOLEAN]]
  /\ shutdown \in {"waiting", "sending", "completed"}
  /\ server \in {"serving", "draining", "stopping", "joining", "returned"}
  /\ \A c \in Clients :
       /\ stream[c].open \in BOOLEAN
       /\ stream[c].forwarder \in {"receiving", "sending", "gone"}
       /\ stream[c].since \in 0 .. sent /\ stream[c].next \in 1 .. sent + 1
       /\ \A part \in {"holding", "buffer", "wire", "got"} : stream[c][part] \in Seq(Item)
       /\ Len(stream[c].buffer) <= StreamBuffer /\ Len(stream[c].wire) <= Window
       /\ Len(stream[c].holding) = IF stream[c].forwarder = "sending" THEN 1 ELSE 0
       /\ stream[c].end \in {"none", "ok", "data_loss"}

\* server.rs:30-43: a call that fails as UNAVAILABLE had no effect on the engine, and
\* never will have: it is safe to send it again.
UnavailableHadNoEffect ==
  \A c \in Clients :
    call[c].phase = "unavailable" =>
      /\ ~call[c].handled
      /\ \A i \in DOMAIN commands : commands[i].from # c

\* No channel or stream exceeds its capacity, and a caller told UNAVAILABLE can rely on
\* its command never being carried out.
CallsSound == TypeOK /\ UnavailableHadNoEffect

\* A subscription as its client sees it.
Seen(s) ==
  [state |-> IF ~s.open THEN "none" ELSE IF s.end = "none" THEN "open"
             ELSE IF s.end = "ok" THEN "ended" ELSE "data_loss",
   since |-> s.since, got |-> s.got]

Feed == INSTANCE FillFeed WITH
  Slack   <- FillBuffer,
  made    <- sent,
  stopped <- engine = "stopped",
  feed    <- [c \in Clients |-> Seen(stream[c])]

\* execution.proto:34-37: every fill stream is the feed the API promises: from the
\* moment of subscription, without a gap, DATA_LOSS only for a client that has fallen
\* more than fill_buffer behind, and a clean end only with every fill delivered.
ImplementsFillFeed == Feed!Spec

\* server.rs:37-42: every call is answered or fails, through shutdown and whatever
\* the other clients do.
EveryCallEnds ==
  \A c \in Clients :
    call[c].phase \in {"sending", "asked"} ~> call[c].phase \notin {"sending", "asked"}

\* server.rs:161-162: the forwarder of a client that went away ends, fills or no fills.
ForwarderFollowsClient ==
  \A c \in Clients :
    stream[c].forwarder # "gone" /\ ~stream[c].open ~> stream[c].forwarder = "gone"

\* service.rs:26-30: a signalled shutdown, or a failed server, stops the engine, even
\* if a client holds its stream open and reads nothing.
EngineStops == shutdown = "sending" \/ server = "stopping" ~> engine = "stopped"

\* service.rs:1-2: a shutdown cannot hang.
ServeReturns == shutdown = "sending" ~> server = "returned"

\* README.md:594: it does not while every client keeps reading its stream.
ReadersLetServeReturn == (\A c \in Clients : WF_vars(Read(c))) => ServeReturns
=============================================================================
