------------------------------ MODULE FillStream ------------------------------
(***************************************************************************)
(* The fill stream worker of the GUI: stream_fills, push_fill and          *)
(* set_stream_status of crates/trader-gui/src/main.rs, one worker per      *)
(* connected session, with the parts of connect and begin_session it       *)
(* races.  TraderGui reduces this worker to what it writes.                *)
(*                                                                         *)
(* A worker subscribes to the generation watch, then loops: it checks that *)
(* its session is current, takes whatever client is stored, subscribes,    *)
(* reads fills, and backs off when the stream ends.  Every wait also ends  *)
(* when the watch holds a generation the worker has not seen.  As in       *)
(* TraderGui a check made under a lock and the write it guards are two     *)
(* steps, and a new session bumps the generation without a lock.           *)
(*                                                                         *)
(* The engine is external: it numbers its fills, and ends or refuses a     *)
(* stream at any time.  The length of the backoff is left out.             *)
(***************************************************************************)
EXTENDS Integers, SequencesExt

CONSTANTS
  MaxSessions,    \* bound: connects and disconnects
  MaxMade,        \* bound: fills the engine makes
  MaxFills        \* MAX_FILLS, the rows kept

StreamAssumption ==
  MaxSessions \in Nat /\ MaxMade \in Nat /\ MaxFills \in Nat \ {0}

VARIABLES
  generation,
  clearing,       \* the fields begin_session has still to clear
  connecting,     \* session -> its connect worker
  client,         \* the session that stored the client, or 0
  worker,         \* session -> its fill stream worker
  fills,          \* the rows shown: fill number, and the session that pushed it
  stream_status,  \* the text shown, and the session that set it
  made            \* external: fills the engine has made

vars == <<generation, clearing, connecting, client, worker, fills, stream_status, made>>
-----------------------------------------------------------------------------
Sessions == 1 .. MaxSessions
Phases == {"none", "starting", "checking", "current", "subscribing", "live", "saying_live",
           "reading", "fill", "pushing", "ended", "over", "saying_over", "waiting", "gone"}

NoWorker == [phase |-> "none", seen |-> 0, next |-> 0]

Current(g) == g = generation

\* The locks: a worker that has passed its check holds the lock until it writes.
FillsFree  == \A g \in Sessions : worker[g].phase # "pushing"
StatusFree == \A g \in Sessions : worker[g].phase \notin {"saying_live", "saying_over"}
ConnectionFree == \A g \in Sessions : connecting[g] # "storing"

Goes(g, phase) == worker' = [worker EXCEPT ![g].phase = phase]

Init ==
  /\ generation = 0 /\ clearing = <<>>
  /\ connecting = [g \in Sessions |-> "none"]
  /\ client = 0
  /\ worker = [g \in Sessions |-> NoWorker]
  /\ fills = <<>> /\ stream_status = [text |-> "not_subscribed", session |-> 0]
  /\ made = 0
-----------------------------------------------------------------------------
\* connect and disconnect: the generation is bumped, then the fields are cleared.
BeginSession(connects) ==
  /\ clearing = <<>> /\ generation < MaxSessions
  /\ \A g \in Sessions : connecting[g] # "asked"
  /\ generation' = generation + 1
  /\ clearing' = <<"client", "fills", "stream_status">>
  /\ connecting' = [connecting EXCEPT ![generation + 1] = IF connects THEN "asked" ELSE "never"]
  /\ UNCHANGED <<client, worker, fills, stream_status, made>>

ClearNext ==
  /\ clearing # <<>>
  /\ LET field == Head(clearing)
     IN  /\ field = "fills" => FillsFree
         /\ field = "stream_status" => StatusFree
         /\ client' = IF field = "client" THEN 0 ELSE client
         /\ fills' = IF field = "fills" THEN <<>> ELSE fills
         /\ stream_status' = IF field = "stream_status"
                             THEN [text |-> "not_subscribed", session |-> generation]
                             ELSE stream_status
  /\ clearing' = Tail(clearing)
  /\ UNCHANGED <<generation, connecting, worker, made>>

\* The session is set up: its connect worker starts.
StartConnect ==
  /\ clearing = <<>> /\ ConnectionFree
  /\ generation > 0 /\ connecting[generation] = "asked"
  /\ connecting' = [connecting EXCEPT ![generation] = "connecting"]
  /\ UNCHANGED <<generation, clearing, client, worker, fills, stream_status, made>>

\* The connect worker has a channel or an error, and checks its session.
Connected(g, ok) ==
  /\ connecting[g] = "connecting" /\ ConnectionFree
  /\ connecting' = [connecting EXCEPT ![g] = IF ok /\ Current(g) THEN "storing" ELSE "over"]
  /\ UNCHANGED <<generation, clearing, client, worker, fills, stream_status, made>>

\* It stores its client and starts the stream worker.
StoreClient(g) ==
  /\ connecting[g] = "storing"
  /\ client' = g
  /\ connecting' = [connecting EXCEPT ![g] = "connected"]
  /\ Goes(g, "starting")
  /\ UNCHANGED <<generation, clearing, fills, stream_status, made>>
-----------------------------------------------------------------------------
\* generation.subscribe(): the value at this moment counts as seen.
SeenAtStart(g) == generation

Start(g) ==
  /\ worker[g].phase = "starting"
  /\ worker' = [worker EXCEPT ![g].phase = "checking", ![g].seen = SeenAtStart(g)]
  /\ UNCHANGED <<generation, clearing, connecting, client, fills, stream_status, made>>

\* session_change.changed() ends every wait of a worker.
Waits == {"subscribing", "reading", "waiting"}

\* A mutation: the wait for the next fill does not watch the session.
Mutant_QuietRead == {"subscribing", "waiting"}
WatchedWaits == Waits

SessionChanged(g) ==
  /\ worker[g].phase \in WatchedWaits
  /\ worker[g].seen # generation
  /\ Goes(g, "gone")
  /\ UNCHANGED <<generation, clearing, connecting, client, fills, stream_status, made>>

\* The head of the loop, ...
CheckCurrent(g) ==
  /\ worker[g].phase = "checking"
  /\ Goes(g, IF Current(g) THEN "current" ELSE "gone")
  /\ UNCHANGED <<generation, clearing, connecting, client, fills, stream_status, made>>

\* ... and connected_client: any session's client, or the worker ends.
TakeClient(g) ==
  /\ worker[g].phase = "current"
  /\ Goes(g, IF client = 0 THEN "gone" ELSE "subscribing")
  /\ UNCHANGED <<generation, clearing, connecting, client, fills, stream_status, made>>

\* The engine takes the subscription, for fills from now on, or refuses it.
Subscribed(g) ==
  /\ worker[g].phase = "subscribing"
  /\ worker' = [worker EXCEPT ![g].phase = "live", ![g].next = made + 1]
  /\ UNCHANGED <<generation, clearing, connecting, client, fills, stream_status, made>>

Refused(g) ==
  /\ worker[g].phase = "subscribing"
  /\ Goes(g, "ended")
  /\ UNCHANGED <<generation, clearing, connecting, client, fills, stream_status, made>>

\* set_stream_status, check and write; what is said is "live" or "resubscribing".
SayLive(g) ==
  /\ worker[g].phase = "live" /\ StatusFree
  /\ Goes(g, IF Current(g) THEN "saying_live" ELSE "reading")
  /\ UNCHANGED <<generation, clearing, connecting, client, fills, stream_status, made>>

SaidLive(g) ==
  /\ worker[g].phase = "saying_live"
  /\ stream_status' = [text |-> "live", session |-> g]
  /\ Goes(g, "reading")
  /\ UNCHANGED <<generation, clearing, connecting, client, fills, made>>

\* stream.message(): the next fill, or the end of the stream, a lag or an error.
Message(g) ==
  /\ worker[g].phase = "reading" /\ worker[g].next <= made
  /\ Goes(g, "fill")
  /\ UNCHANGED <<generation, clearing, connecting, client, fills, stream_status, made>>

StreamEnds(g) ==
  /\ worker[g].phase = "reading"
  /\ Goes(g, "ended")
  /\ UNCHANGED <<generation, clearing, connecting, client, fills, stream_status, made>>

\* A mutation: push_fill without its check.
Mutant_AlwaysPush(g) == TRUE
MayPush(g) == Current(g)

\* push_fill: the check under the lock, ...
PushCheck(g) ==
  /\ worker[g].phase = "fill" /\ FillsFree
  /\ Goes(g, IF MayPush(g) THEN "pushing" ELSE "gone")
  /\ UNCHANGED <<generation, clearing, connecting, client, fills, stream_status, made>>

Kept(rows) ==
  IF Len(rows) <= MaxFills THEN rows
  ELSE SubSeq(rows, Len(rows) - MaxFills + 1, Len(rows))

\* ... the row, and the oldest rows beyond MAX_FILLS go.
Push(g) ==
  /\ worker[g].phase = "pushing"
  /\ fills' = Kept(Append(fills, [fill |-> worker[g].next, session |-> g]))
  /\ worker' = [worker EXCEPT ![g].phase = "reading", ![g].next = @ + 1]
  /\ UNCHANGED <<generation, clearing, connecting, client, stream_status, made>>

\* A mutation: the worker ends with its stream.
Mutant_GiveUp(g) == "gone"

AfterStream(g) == IF Current(g) THEN "over" ELSE "gone"

\* The stream ended: is_current, then set_stream_status and its own check.
StreamOver(g) ==
  /\ worker[g].phase = "ended"
  /\ Goes(g, AfterStream(g))
  /\ UNCHANGED <<generation, clearing, connecting, client, fills, stream_status, made>>

SayOver(g) ==
  /\ worker[g].phase = "over" /\ StatusFree
  /\ Goes(g, IF Current(g) THEN "saying_over" ELSE "waiting")
  /\ UNCHANGED <<generation, clearing, connecting, client, fills, stream_status, made>>

SaidOver(g) ==
  /\ worker[g].phase = "saying_over"
  /\ stream_status' = [text |-> "resubscribing", session |-> g]
  /\ Goes(g, "waiting")
  /\ UNCHANGED <<generation, clearing, connecting, client, fills, made>>

BackoffOver(g) ==
  /\ worker[g].phase = "waiting"
  /\ Goes(g, "checking")
  /\ UNCHANGED <<generation, clearing, connecting, client, fills, stream_status, made>>

\* External: the engine makes a fill.
Make ==
  /\ made < MaxMade
  /\ made' = made + 1
  /\ UNCHANGED <<generation, clearing, connecting, client, worker, fills, stream_status>>
-----------------------------------------------------------------------------
WorkerStep(g) ==
  \/ Start(g) \/ CheckCurrent(g) \/ TakeClient(g) \/ SayLive(g) \/ SaidLive(g)
  \/ PushCheck(g) \/ Push(g) \/ StreamOver(g) \/ SayOver(g) \/ SaidOver(g) \/ BackoffOver(g)

Next ==
  \/ \E connects \in BOOLEAN : BeginSession(connects)
  \/ ClearNext \/ StartConnect \/ Make
  \/ \E g \in Sessions :
       \/ \E ok \in BOOLEAN : Connected(g, ok)
       \/ StoreClient(g)
       \/ WorkerStep(g)
       \/ SessionChanged(g) \/ Subscribed(g) \/ Refused(g) \/ Message(g) \/ StreamEnds(g)

Spec == Init /\ [][Next]_vars

\* Threads run; a wait whose watch has changed wakes up; an engine that is asked
\* again and again takes a subscription in the end.  It need not make fills.
Fairness ==
  /\ WF_vars(ClearNext)
  /\ \A g \in Sessions :
       /\ WF_vars(StoreClient(g)) /\ SF_vars(WorkerStep(g))
       /\ WF_vars(SessionChanged(g)) /\ SF_vars(Subscribed(g))

FairSpec == Spec /\ Fairness
-----------------------------------------------------------------------------
\* Workers, rows and status have their types.
TypeOK ==
  /\ generation \in 0 .. MaxSessions /\ client \in 0 .. generation
  /\ clearing \in Seq({"client", "fills", "stream_status"})
  /\ \A g \in Sessions : worker[g].phase \in Phases /\ worker[g].seen \in 0 .. generation
  /\ fills \in Seq([fill : 1 .. MaxMade, session : Sessions]) /\ Len(fills) <= MaxFills
  /\ stream_status.session \in 0 .. generation

\* main.rs:1535-1537: the stream runs for the life of the session: whatever ends a
\* stream, the worker of a session that is connected and current is not gone.
StreamForLife ==
  clearing = <<>> /\ generation > 0 /\ connecting[generation] = "connected" =>
    worker[generation].phase # "gone"

\* Once a session has begun, only its own worker's rows and status are shown, and
\* the rows are in the order the engine made the fills, none of them twice: not
\* after a resubscription, nor with the worker of an older session still running.
RowsOfSession ==
  clearing = <<>> =>
    /\ \A i \in DOMAIN fills : fills[i].session = generation
    /\ stream_status.session = generation
    /\ \A i, j \in DOMAIN fills : i < j => fills[i].fill < fills[j].fill

\* While the status says live, the session's worker is reading its stream or has
\* just noticed that it ended: the page never says live for a worker that is gone
\* or waits to subscribe again.
LiveIsTrue ==
  clearing = <<>> /\ stream_status.text = "live" =>
    worker[generation].phase \in {"reading", "fill", "pushing", "ended", "over", "saying_over"}

\* All that the fills page shows, at any moment, is of the session that is current.
PageOfSession == TypeOK /\ StreamForLife /\ RowsOfSession /\ LiveIsTrue

\* A session that is over does not keep its stream: "a new session stops it
\* promptly, even while it is waiting for a fill" (main.rs:1536-1537).
OldStreamEnds ==
  \A g \in Sessions :
    generation > g /\ worker[g].phase # "none" ~> worker[g].phase = "gone"

\* A connected session is live again and again, unless a new one begins.
LiveAgain ==
  \A g \in Sessions :
    []<>(connecting[g] = "connected" => ~Current(g) \/ worker[g].phase = "reading")
=============================================================================
