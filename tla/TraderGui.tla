------------------------------ MODULE TraderGui ------------------------------
(***************************************************************************)
(* The session protocol of crates/trader-gui/src/main.rs: what its UI      *)
(* thread and its worker threads do to the shared AppState.                *)
(*                                                                         *)
(* Every result is written under the lock of its field, after a check,     *)
(* made with the lock held, that the worker's session is still current.    *)
(* The check and the write are two steps here: held says which worker has  *)
(* passed its check and has still to write.  A new session takes no lock   *)
(* to bump the generation, so it comes between the two as it likes.        *)
(*                                                                         *)
(* The engine is external: it accepts an order under a new id, finishes    *)
(* it, and forgets it (after its retention, or by restarting).  A session  *)
(* is named by its generation, and the ghost owner says in which session   *)
(* an order was submitted.                                                 *)
(***************************************************************************)
EXTENDS Integers, Sequences

CONSTANTS
  Reports,        \* bound: which of positions, fills, halt_reason, stream_status
  Slots,          \* bound: submit workers at a time
  MaxSessions,    \* bound: connects and disconnects
  MaxOrders       \* bound: orders the engine accepts

GuiAssumption ==
  /\ MaxSessions \in Nat /\ MaxOrders \in Nat
  /\ Reports \subseteq {"positions", "fills", "halt_reason", "stream_status"}

ASSUME GuiConstants == GuiAssumption

VARIABLES
  generation,
  connection,     \* the status shown, and the session that set it
  client,         \* the session that stored the client, or 0
  tracked,        \* the ids in tracked_orders
  orders,         \* order id -> the state its row shows
  report,         \* per report, the session whose data it shows, or 0
  held,           \* the writes whose check has passed, at most one per lock
  ui,             \* what begin_session has still to clear, and the status to set then
  attempt,        \* session -> its connect worker
  submit,         \* slot -> a submit worker
  poll,           \* the order poll; its phase is "idle" if orders_poll is not set
  engine,         \* order id -> its state at the engine
  owner           \* ghost

vars == <<generation, connection, client, tracked, orders, report, held, ui,
          attempt, submit, poll, engine, owner>>
-----------------------------------------------------------------------------
Sessions == 1 .. MaxSessions
Ids == 1 .. MaxOrders
Fields == {"connection", "tracked_orders", "orders"} \cup Reports

Clears(r) == IF r \in Reports THEN <<r>> ELSE <<>>

\* begin_session clears in this order.
ClearOrder ==
  <<"client", "tracked_orders", "orders">>
    \o Clears("positions") \o Clears("fills") \o Clears("halt_reason") \o Clears("stream_status")

NoWrite == [by |-> <<"none">>]
Idle == [phase |-> "idle", session |-> 0, id |-> 0, reply |-> "none"]
IdlePoll == [phase |-> "idle", session |-> 0, ids |-> {}, id |-> 0, reply |-> "none"]

UiIdle == ui.clearing = <<>> /\ ui.status = "none"

\* A mutation: workers write whatever session it is.
Mutant_AnySession(session) == TRUE
Current(session) == session = generation

HasClient == connection.status \in {"Connected", "Unreachable"}
CanConnect == connection.status \notin {"Connected", "Connecting"}
Free(field) == held[field] = NoWrite

\* A worker goes on only after the write it holds a lock for.
Ready(worker) == \A field \in Fields : held[field].by # worker

Init ==
  /\ generation = 0
  /\ connection = [status |-> "Disconnected", session |-> 0]
  /\ client = 0 /\ tracked = {}
  /\ orders = [id \in {} |-> "WORKING"]
  /\ report = [r \in Reports |-> 0]
  /\ held = [field \in Fields |-> NoWrite]
  /\ ui = [clearing |-> <<>>, status |-> "none"]
  /\ attempt = [g \in Sessions |-> "none"]
  /\ submit = [s \in Slots |-> Idle]
  /\ poll = IdlePoll
  /\ engine = [id \in Ids |-> "unborn"] /\ owner = [id \in Ids |-> 0]
-----------------------------------------------------------------------------
\* connect and disconnect: begin_session bumps the generation, ...
BeginSession(status) ==
  /\ UiIdle /\ generation < MaxSessions
  /\ IF status = "Connecting" THEN CanConnect ELSE connection.status # "Disconnected"
  /\ generation' = generation + 1
  /\ ui' = [clearing |-> ClearOrder, status |-> status]
  /\ UNCHANGED <<connection, client, tracked, orders, report, held, attempt, submit, poll,
                 engine, owner>>

\* ... clears field by field, waiting for each lock, ...
ClearNext ==
  /\ ui.clearing # <<>>
  /\ LET field == Head(ui.clearing)
     IN  /\ field \in Fields => Free(field)
         /\ client'  = IF field = "client" THEN 0 ELSE client
         /\ tracked' = IF field = "tracked_orders" THEN {} ELSE tracked
         /\ orders'  = IF field = "orders" THEN [id \in {} |-> "WORKING"] ELSE orders
         /\ report'  = [r \in DOMAIN report |-> IF field = r THEN 0 ELSE report[r]]
  /\ ui' = [ui EXCEPT !.clearing = Tail(@)]
  /\ UNCHANGED <<generation, connection, held, attempt, submit, poll, engine, owner>>

\* ... and the status is set; a connect leaves the rest to a worker.
SetStatus ==
  /\ ui.clearing = <<>> /\ ui.status # "none"
  /\ Free("connection")
  /\ connection' = [status |-> ui.status, session |-> generation]
  /\ attempt' = IF ui.status = "Connecting" THEN [attempt EXCEPT ![generation] = "connecting"]
                ELSE attempt
  /\ ui' = [ui EXCEPT !.status = "none"]
  /\ UNCHANGED <<generation, client, tracked, orders, report, held, submit, poll, engine, owner>>
-----------------------------------------------------------------------------
\* A worker of a session takes the lock of a field, checks, and holds the lock
\* with what it is about to write.
Check(worker, session, field, what) ==
  /\ Free(field)
  /\ held' = IF Current(session)
             THEN [held EXCEPT ![field] = [by |-> worker, session |-> session, what |-> what]]
             ELSE held

\* status_after_reply.
StatusAfterReply(failed) ==
  IF ~HasClient THEN connection.status
  ELSE IF failed THEN "Unreachable" ELSE "Connected"

RecordReply(worker, session, failed) ==
  Check(worker, session, "connection", StatusAfterReply(failed))

ClientStored == \A g \in Sessions : attempt[g] # "storing"

\* The writes.
WriteStatus ==
  /\ ~Free("connection") /\ ClientStored
  /\ connection' = [status |-> held["connection"].what, session |-> held["connection"].session]
  /\ held' = [held EXCEPT !["connection"] = NoWrite]
  /\ UNCHANGED <<generation, client, tracked, orders, report, ui, attempt, submit, poll,
                 engine, owner>>

WriteTracked ==
  /\ ~Free("tracked_orders") /\ held["tracked_orders"].what.op = "track"
  /\ tracked' = tracked \cup {held["tracked_orders"].what.id}
  /\ held' = [held EXCEPT !["tracked_orders"] = NoWrite]
  /\ UNCHANGED <<generation, connection, client, orders, report, ui, attempt, submit, poll,
                 engine, owner>>

WriteRow ==
  /\ ~Free("orders") /\ held["orders"].what.op = "update"
  /\ orders' = [id \in DOMAIN orders \cup {held["orders"].what.id} |->
                  IF id = held["orders"].what.id THEN held["orders"].what.state
                  ELSE orders[id]]
  /\ held' = [held EXCEPT !["orders"] = NoWrite]
  /\ UNCHANGED <<generation, connection, client, tracked, report, ui, attempt, submit, poll,
                 engine, owner>>

\* forget_order holds both locks: the order is no longer polled, its row says so.
WriteForgotten ==
  /\ ~Free("orders") /\ held["orders"].what.op = "forget"
  /\ LET gone == held["orders"].what.id
     IN  /\ tracked' = tracked \ {gone}
         /\ orders' = [id \in DOMAIN orders |-> IF id = gone THEN "UNKNOWN" ELSE orders[id]]
  /\ held' = [held EXCEPT !["tracked_orders"] = NoWrite, !["orders"] = NoWrite]
  /\ UNCHANGED <<generation, connection, client, report, ui, attempt, submit, poll, engine, owner>>

WriteReport(r) ==
  /\ ~Free(r)
  /\ report' = [report EXCEPT ![r] = held[r].session]
  /\ held' = [held EXCEPT ![r] = NoWrite]
  /\ UNCHANGED <<generation, connection, client, tracked, orders, ui, attempt, submit, poll,
                 engine, owner>>
-----------------------------------------------------------------------------
\* The connect worker has its channel or its error.  If its session is over it
\* ends, otherwise it keeps the lock of the status while it stores the client.
Connected(g) ==
  /\ attempt[g] = "connecting" /\ Free("connection")
  /\ \E status \in {"Connected", "Error"} :
       /\ Check(<<"connect", g>>, g, "connection", status)
       /\ attempt' = [attempt EXCEPT ![g] = IF Current(g) /\ status = "Connected"
                                            THEN "storing" ELSE "over"]
  /\ UNCHANGED <<generation, connection, client, tracked, orders, report, ui, submit, poll,
                 engine, owner>>

StoreClient(g) ==
  /\ attempt[g] = "storing"
  /\ client' = g
  /\ attempt' = [attempt EXCEPT ![g] = "connected"]
  /\ UNCHANGED <<generation, connection, tracked, orders, report, held, ui, submit, poll,
                 engine, owner>>

\* The fill stream and the position poll of the session report, and replies to
\* them and to cancels move the status.
Report(r) ==
  /\ generation > 0 /\ attempt[generation] = "connected"
  /\ Check(<<"report", r>>, generation, r, "rows")
  /\ UNCHANGED <<generation, connection, client, tracked, orders, report, ui, attempt, submit,
                 poll, engine, owner>>

OtherReply(failed) ==
  /\ generation > 0 /\ attempt[generation] = "connected"
  /\ RecordReply(<<"other">>, generation, failed)
  /\ UNCHANGED <<generation, connection, client, tracked, orders, report, ui, attempt, submit,
                 poll, engine, owner>>
-----------------------------------------------------------------------------
\* submit_order: the UI starts a worker with the client and the session it sees.
StartSubmit(s) ==
  /\ UiIdle /\ client # 0
  /\ submit[s] = Idle /\ Ready(<<"submit", s>>)
  /\ submit' = [submit EXCEPT ![s] = [Idle EXCEPT !.phase = "asking", !.session = generation]]
  /\ UNCHANGED <<generation, connection, client, tracked, orders, report, held, ui, attempt,
                 poll, engine, owner>>

\* The engine accepts the order; its reply is on the way.
Accept(s) ==
  /\ submit[s].phase = "asking"
  /\ \E id \in Ids :
       /\ engine[id] = "unborn" /\ \A other \in Ids : other < id => engine[other] # "unborn"
       /\ engine' = [engine EXCEPT ![id] = "WORKING"]
       /\ owner' = [owner EXCEPT ![id] = submit[s].session]
       /\ submit' = [submit EXCEPT ![s].phase = "accepted", ![s].id = id]
  /\ UNCHANGED <<generation, connection, client, tracked, orders, report, held, ui, attempt, poll>>

\* A rejection, or a failure: the deadline may pass before the reply arrives.
SubmitEnds(s) ==
  /\ \/ submit[s].phase = "asking" /\ RecordReply(<<"submit", s>>, submit[s].session, FALSE)
     \/ /\ submit[s].phase \in {"asking", "accepted"}
        /\ RecordReply(<<"submit", s>>, submit[s].session, TRUE)
  /\ submit' = [submit EXCEPT ![s] = Idle]
  /\ UNCHANGED <<generation, connection, client, tracked, orders, report, ui, attempt, poll,
                 engine, owner>>

Accepted(s) ==
  /\ submit[s].phase = "accepted"
  /\ RecordReply(<<"submit", s>>, submit[s].session, FALSE)
  /\ submit' = [submit EXCEPT ![s].phase = "tracking"]
  /\ UNCHANGED <<generation, connection, client, tracked, orders, report, ui, attempt, poll,
                 engine, owner>>

\* track_order.
Track(s) ==
  /\ submit[s].phase = "tracking" /\ Ready(<<"submit", s>>)
  /\ Check(<<"submit", s>>, submit[s].session, "tracked_orders",
           [op |-> "track", id |-> submit[s].id])
  /\ submit' = [submit EXCEPT ![s].phase = "reading"]
  /\ UNCHANGED <<generation, connection, client, tracked, orders, report, ui, attempt, poll,
                 engine, owner>>

NotFound(reply) == reply = "forgotten"

\* The order is read back: the engine replies, or the call fails.
ReadBack(s) ==
  /\ submit[s].phase = "reading" /\ Ready(<<"submit", s>>)
  /\ submit' = [submit EXCEPT ![s].phase = "read", ![s].reply = engine[submit[s].id]]
  /\ UNCHANGED <<generation, connection, client, tracked, orders, report, held, ui, attempt,
                 poll, engine, owner>>

ReadBackEnds(s) ==
  /\ Ready(<<"submit", s>>)
  /\ \/ /\ submit[s].phase = "reading"
        /\ RecordReply(<<"submit", s>>, submit[s].session, TRUE)
     \/ /\ submit[s].phase = "read" /\ NotFound(submit[s].reply)
        /\ RecordReply(<<"submit", s>>, submit[s].session, FALSE)
     \/ /\ submit[s].phase = "read" /\ ~NotFound(submit[s].reply)
        /\ Check(<<"submit", s>>, submit[s].session, "orders",
                 [op |-> "update", id |-> submit[s].id, state |-> submit[s].reply])
  /\ submit' = [submit EXCEPT ![s] = Idle]
  /\ UNCHANGED <<generation, connection, client, tracked, orders, report, ui, attempt, poll,
                 engine, owner>>
-----------------------------------------------------------------------------
\* A mutation: only the orders the UI has a row for.
Mutant_WithRow(id) == id \in DOMAIN orders /\ orders[id] = "WORKING"

\* ids_to_poll: no row yet, or one that is not terminal.
NeedsPoll(id) == id \in DOMAIN orders => orders[id] = "WORKING"

ToPoll == {id \in tracked : NeedsPoll(id)}

\* refresh_working_orders, twice a second while there is a client and no poll runs.
StartPoll ==
  /\ UiIdle /\ HasClient /\ client # 0
  /\ poll = IdlePoll /\ Ready(<<"poll">>)
  /\ Free("tracked_orders") /\ Free("orders")
  /\ ToPoll # {}
  /\ poll' = [IdlePoll EXCEPT !.phase = "next", !.session = generation, !.ids = ToPoll]
  /\ UNCHANGED <<generation, connection, client, tracked, orders, report, held, ui, attempt,
                 submit, engine, owner>>

\* The next order is asked for, whichever it is.
PollNext ==
  /\ poll.phase = "next" /\ Ready(<<"poll">>)
  /\ \/ /\ Current(poll.session)
        /\ \E id \in poll.ids :
             poll' = [poll EXCEPT !.phase = "asking", !.ids = @ \ {id}, !.id = id]
     \/ poll.ids = {} /\ poll' = IdlePoll
     \/ ~Current(poll.session) /\ poll' = IdlePoll
  /\ UNCHANGED <<generation, connection, client, tracked, orders, report, held, ui, attempt,
                 submit, engine, owner>>

\* The engine replies with the state of the order, ...
PollReply(id) ==
  /\ poll.phase = "asking" /\ id = poll.id
  /\ poll' = [poll EXCEPT !.phase = "answered", !.reply = engine[id]]
  /\ UNCHANGED <<generation, connection, client, tracked, orders, report, held, ui, attempt,
                 submit, engine, owner>>

\* ... or the call fails, and the next order is asked for.
PollFails ==
  /\ poll.phase = "asking"
  /\ RecordReply(<<"poll">>, poll.session, TRUE)
  /\ poll' = [poll EXCEPT !.phase = "next"]
  /\ UNCHANGED <<generation, connection, client, tracked, orders, report, ui, attempt, submit,
                 engine, owner>>

PollNoted ==
  /\ poll.phase = "answered"
  /\ RecordReply(<<"poll">>, poll.session, FALSE)
  /\ poll' = [poll EXCEPT !.phase = "noted"]
  /\ UNCHANGED <<generation, connection, client, tracked, orders, report, ui, attempt, submit,
                 engine, owner>>

\* update_order, or forget_order on NOT_FOUND.
Forget(worker, session, id) ==
  /\ Free("tracked_orders") /\ Free("orders")
  /\ LET w == [by |-> worker, session |-> session, what |-> [op |-> "forget", id |-> id]]
     IN  held' = IF Current(session)
                 THEN [held EXCEPT !["tracked_orders"] = w, !["orders"] = w]
                 ELSE held

PollStores ==
  /\ poll.phase = "noted" /\ Ready(<<"poll">>)
  /\ IF NotFound(poll.reply)
     THEN Forget(<<"poll">>, poll.session, poll.id)
     ELSE Check(<<"poll">>, poll.session, "orders",
                [op |-> "update", id |-> poll.id, state |-> poll.reply])
  /\ poll' = [poll EXCEPT !.phase = "next", !.reply = "none"]
  /\ UNCHANGED <<generation, connection, client, tracked, orders, report, ui, attempt, submit,
                 engine, owner>>
-----------------------------------------------------------------------------
\* External: the engine finishes an order, and forgets one.
EngineFinishes(id) ==
  /\ engine[id] = "WORKING"
  /\ engine' = [engine EXCEPT ![id] = "FINISHED"]
  /\ UNCHANGED <<generation, connection, client, tracked, orders, report, held, ui, attempt,
                 submit, poll, owner>>

EngineForgets(id) ==
  /\ engine[id] \in {"WORKING", "FINISHED"}
  /\ engine' = [engine EXCEPT ![id] = "forgotten"]
  /\ UNCHANGED <<generation, connection, client, tracked, orders, report, held, ui, attempt,
                 submit, poll, owner>>
-----------------------------------------------------------------------------
Next ==
  \/ \E status \in {"Connecting", "Disconnected"} : BeginSession(status)
  \/ ClearNext \/ SetStatus
  \/ WriteStatus \/ WriteTracked \/ WriteRow \/ WriteForgotten
  \/ \E r \in Reports : WriteReport(r) \/ Report(r)
  \/ \E g \in Sessions : Connected(g) \/ StoreClient(g)
  \/ \E failed \in BOOLEAN : OtherReply(failed)
  \/ \E s \in Slots :
       \/ StartSubmit(s) \/ Accept(s) \/ SubmitEnds(s) \/ Accepted(s)
       \/ Track(s) \/ ReadBack(s) \/ ReadBackEnds(s)
  \/ StartPoll \/ PollNext \/ PollFails \/ PollNoted \/ PollStores
  \/ \E id \in Ids : PollReply(id) \/ EngineFinishes(id) \/ EngineForgets(id)

Spec == Init /\ [][Next]_vars

\* Threads run and locks are handed on; the UI keeps polling; each order's poll
\* gets an answer now and then.  Nothing is assumed of the user or of the engine.
Fairness ==
  /\ WF_vars(ClearNext) /\ WF_vars(SetStatus)
  /\ WF_vars(WriteStatus) /\ WF_vars(WriteTracked) /\ WF_vars(WriteRow)
  /\ WF_vars(WriteForgotten) /\ \A g \in Sessions : WF_vars(StoreClient(g))
  /\ SF_vars(StartPoll) /\ WF_vars(PollNext) /\ SF_vars(PollNoted) /\ SF_vars(PollStores)
  /\ \A id \in Ids : SF_vars(PollReply(id))

FairSpec == Spec /\ Fairness
-----------------------------------------------------------------------------
\* The shared fields and the workers have their types.
Statuses == {"Disconnected", "Connecting", "Connected", "Unreachable", "Error"}

TypeOK ==
  /\ generation \in 0 .. MaxSessions /\ client \in 0 .. generation
  /\ connection \in [status : Statuses, session : 0 .. generation]
  /\ tracked \subseteq Ids
  /\ DOMAIN orders \subseteq Ids
  /\ \A id \in DOMAIN orders : orders[id] \in {"WORKING", "FINISHED", "UNKNOWN"}
  /\ report \in [Reports -> 0 .. generation]
  /\ \A field \in Fields : Free(field) \/ held[field].session \in 1 .. generation
  /\ \A s \in Slots : submit[s].session \in 0 .. generation /\ submit[s].id \in 0 .. MaxOrders
  /\ poll.ids \subseteq Ids

\* main.rs:489-493: once a session has begun, nothing an earlier one reported is shown
\* or polled: not by a worker that was about to write, nor by one that is late.
SessionIsolation ==
  UiIdle =>
    /\ connection.session = generation
    /\ \A id \in tracked \cup DOMAIN orders : owner[id] = generation
    /\ \A r \in Reports : report[r] \in {0, generation}

\* main.rs:407-413: a status that promises a client has the client of this session.
StatusHasClient == UiIdle /\ HasClient => client = generation

\* All that the screen shows and the polls ask for, of orders, reports and connection,
\* is of the session that is current.
ScreenOfSession == TypeOK /\ SessionIsolation /\ StatusHasClient

\* main.rs:490-492, 533-536: the client is of this session or there is none.
ClientOfSession == UiIdle => client \in {0, generation}

\* main.rs:485-487: every order the engine accepted in this session and still works is
\* tracked, or a worker is about to track it.
AcceptedAreTracked ==
  \A id \in Ids :
    UiIdle /\ engine[id] = "WORKING" /\ owner[id] = generation =>
      \/ id \in tracked
      \/ \E s \in Slots : submit[s].id = id

\* main.rs:1486: an order that NOT_FOUND took off the list of those polled says so on its
\* row: no row that still says WORKING is left without a poll.
ForgottenSaysSo ==
  \A id \in DOMAIN orders : UiIdle /\ orders[id] = "WORKING" => id \in tracked

\* The read-back of an order is over, its row stored or given up.
ReadBackOver(id) ==
  /\ \A s \in Slots : submit[s].id # id
  /\ \A s \in Slots : held["orders"].by = <<"submit", s>> => held["orders"].what.id # id

TellsEnd(id) == id \in DOMAIN orders /\ orders[id] # "WORKING"

\* main.rs:1374-1376, 1486: the row of an order that the engine has finished or forgotten,
\* and that is still polled once its read-back is over, comes to tell that end for good,
\* whichever replies are still to come: no row says WORKING, and no order stays tracked
\* without a row.  One forgotten before it had a row leaves the list without one.
FinishedOrdersSettle ==
  \A id \in Ids :
    id \in tracked /\ engine[id] # "WORKING" /\ ReadBackOver(id) ~>
      [](HasClient /\ id \in tracked \cup DOMAIN orders => TellsEnd(id))
=============================================================================
