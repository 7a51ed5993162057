------------------------------ MODULE GuiProofs ------------------------------
(***************************************************************************)
(* What holds of the GUI for any number of sessions, orders, workers and   *)
(* fills: what its screen (TraderGui) and its fills page (FillStream) show *)
(* is of the session that is current.                                      *)
(***************************************************************************)
EXTENDS MCGui, SequencesExt, TLAPS

-----------------------------------------------------------------------------
(* The fills page of the GUI *)

ClearStages ==
  {<<"client", "fills", "stream_status">>, <<"fills", "stream_status">>, <<"stream_status">>, <<>>}

\* A worker in these phases has a subscription, and a fill it waits for next.
Streaming == {"live", "saying_live", "reading", "fill", "pushing"}

PageTypes ==
  /\ generation \in 0 .. MaxSessions /\ client \in 0 .. generation
  /\ clearing \in ClearStages
  /\ connecting \in [Page!Sessions ->
       {"none", "never", "asked", "connecting", "storing", "connected", "over"}]
  /\ worker \in [Page!Sessions ->
       [phase : Page!Phases, seen : 0 .. generation, next : Nat]]
  /\ made \in 0 .. MaxMade
  /\ fills \in Seq([fill : 1 .. made, session : Page!Sessions]) /\ Len(fills) <= MaxFills
  /\ stream_status \in [text : {"not_subscribed", "live", "resubscribing"},
                        session : 0 .. generation]

\* A worker starts with its session's client, and has seen its own generation.
WorkersInv ==
  \A g \in Page!Sessions :
    /\ g > generation => connecting[g] = "none"
    /\ connecting[g] # "connected" => worker[g] = Page!NoWorker
    /\ connecting[g] = "connected" => worker[g].phase # "none"
    /\ worker[g].phase \notin {"none", "starting"} => worker[g].seen >= g
    /\ worker[g].phase \in Streaming => worker[g].next \in 1 .. made + 1
    /\ worker[g].phase \in {"fill", "pushing"} => worker[g].next <= made

\* The session that is set up keeps a client, and with it its worker.
CurrentWorker ==
  generation > 0 =>
    /\ connecting[generation] \in {"connecting", "storing", "connected", "over"} =>
         clearing = <<>>
    /\ connecting[generation] = "connected" =>
         client # 0 /\ worker[generation].phase # "gone"

\* Once the rows are cleared, a worker that may still push is the session's, and it
\* pushes a fill behind all rows.
RowsInv ==
  clearing \in {<<"stream_status">>, <<>>} =>
    /\ \A i \in DOMAIN fills : fills[i].session = generation
    /\ \A i, j \in DOMAIN fills : i < j => fills[i].fill < fills[j].fill
    /\ \A g \in Page!Sessions : worker[g].phase = "pushing" => g = generation
    /\ generation > 0 /\ worker[generation].phase \in Streaming =>
         \A i \in DOMAIN fills : fills[i].fill < worker[generation].next

\* Likewise for the status.
StreamStatusInv ==
  clearing = <<>> =>
    /\ stream_status.session = generation
    /\ generation = 0 => stream_status.text = "not_subscribed"
    /\ \A g \in Page!Sessions :
         worker[g].phase \in {"saying_live", "saying_over"} => g = generation
    /\ Page!LiveIsTrue

PageInv == PageTypes /\ WorkersInv /\ CurrentWorker /\ RowsInv /\ StreamStatusInv

\* A sequence is one over every set that holds its elements.
LEMMA SeqMonotone ==
  ASSUME NEW S, NEW T, S \subseteq T, NEW q \in Seq(S)
  PROVE  q \in Seq(T)
OBVIOUS

LEMMA SeqElement ==
  ASSUME NEW S, NEW q \in Seq(S), NEW i \in DOMAIN q
  PROVE  q[i] \in S
OBVIOUS

\* Before the first session nothing is shown.
LEMMA InitPage ==
  ASSUME Page!StreamAssumption
  PROVE  Page!Init => PageInv
<1> SUFFICES ASSUME Page!Init PROVE PageInv
  OBVIOUS
<1> USE DEF Page!StreamAssumption, Page!Init
<1>1. PageTypes
  <2>1. 0 \in 0 .. MaxSessions /\ 0 \in 0 .. 0 /\ 0 \in 0 .. MaxMade
    OBVIOUS
  <2>2. connecting \in [Page!Sessions ->
          {"none", "never", "asked", "connecting", "storing", "connected", "over"}]
    OBVIOUS
  <2>3. Page!NoWorker \in [phase : Page!Phases, seen : 0 .. 0, next : Nat]
    BY DEF Page!NoWorker, Page!Phases
  <2>4. worker \in [Page!Sessions -> [phase : Page!Phases, seen : 0 .. 0, next : Nat]]
    BY <2>3
  <2>5. fills \in Seq([fill : 1 .. made, session : Page!Sessions]) /\ Len(fills) <= MaxFills
    OBVIOUS
  <2> QED BY <2>1, <2>2, <2>4, <2>5 DEF PageTypes, ClearStages
<1>2. WorkersInv /\ CurrentWorker
  BY DEF WorkersInv, CurrentWorker, Streaming, Page!NoWorker, Page!Sessions
<1>3. RowsInv /\ StreamStatusInv
  BY DEF RowsInv, StreamStatusInv, Page!NoWorker, Page!LiveIsTrue
<1> QED BY <1>1, <1>2, <1>3 DEF PageInv

\* What the invariant is for.
LEMMA PageIsSound ==
  ASSUME Page!StreamAssumption
  PROVE  PageInv => Page!PageOfSession
<1> SUFFICES ASSUME PageInv PROVE Page!PageOfSession
  OBVIOUS
<1>1. Page!TypeOK
  <2>1. clearing \in Seq({"client", "fills", "stream_status"})
    <3>1. \A a, b, c \in {"client", "fills", "stream_status"} :
            /\ <<a, b, c>> \in Seq({"client", "fills", "stream_status"})
            /\ <<b, c>> \in Seq({"client", "fills", "stream_status"})
            /\ <<c>> \in Seq({"client", "fills", "stream_status"})
            /\ <<>> \in Seq({"client", "fills", "stream_status"})
      OBVIOUS
    <3> QED BY <3>1 DEF PageInv, PageTypes, ClearStages
  <2>2. fills \in Seq([fill : 1 .. MaxMade, session : Page!Sessions])
    <3>1. made \in 0 .. MaxMade /\ fills \in Seq([fill : 1 .. made, session : Page!Sessions])
      BY DEF PageInv, PageTypes
    <3>2. [fill : 1 .. made, session : Page!Sessions]
            \subseteq [fill : 1 .. MaxMade, session : Page!Sessions]
      BY <3>1 DEF Page!StreamAssumption
    <3> QED BY <3>1, <3>2, SeqMonotone
  <2> QED BY <2>1, <2>2 DEF PageInv, PageTypes, Page!TypeOK
<1>2. Page!StreamForLife
  BY DEF PageInv, CurrentWorker, Page!StreamForLife
<1>3. Page!RowsOfSession
  BY DEF PageInv, RowsInv, StreamStatusInv, Page!RowsOfSession
<1>4. Page!LiveIsTrue
  BY DEF PageInv, StreamStatusInv, Page!LiveIsTrue
<1> QED BY <1>1, <1>2, <1>3, <1>4 DEF Page!PageOfSession

LivePhases == {"reading", "fill", "pushing", "ended", "over", "saying_over"}

\* Each row is a fill of a session.
LEMMA RowTypes ==
  ASSUME PageInv
  PROVE  \A i \in DOMAIN fills : fills[i].fill \in 1 .. made /\ fills[i].session \in Page!Sessions
<1>1. fills \in Seq([fill : 1 .. made, session : Page!Sessions])
  BY DEF PageInv, PageTypes
<1>2. \A i \in DOMAIN fills : fills[i] \in [fill : 1 .. made, session : Page!Sessions]
  BY <1>1, SeqElement
<1> QED BY <1>2

\* What a worker's own step keeps.
LEMMA OneWorkerMoves ==
  ASSUME Page!StreamAssumption, PageInv,
         NEW g \in Page!Sessions,
         NEW w \in [phase : Page!Phases, seen : g .. generation, next : Nat],
         worker' = [worker EXCEPT ![g] = w],
         UNCHANGED <<generation, clearing, connecting, client, fills, stream_status, made>>,
         worker[g].phase # "none", w.phase # "none",
         w.phase \in Streaming =>
           \/ worker[g].phase \in Streaming /\ w.next = worker[g].next
           \/ w.next = made + 1,
         w.phase \in {"fill", "pushing"} => w.next <= made,
         w.phase = "gone" => g # generation,
         w.phase \in {"pushing", "saying_live", "saying_over"} => g = generation,
         worker[g].phase \in LivePhases /\ g = generation => w.phase \in LivePhases
  PROVE  PageInv'
<1>1. generation \in Int /\ made \in Nat /\ g \in Int /\ worker[g] \in
        [phase : Page!Phases, seen : 0 .. generation, next : Nat]
  BY DEF PageInv, PageTypes, Page!StreamAssumption, Page!Sessions
<1>2. PageTypes'
  <2>1. w \in [phase : Page!Phases, seen : 0 .. generation, next : Nat]
    BY <1>1 DEF Page!Sessions
  <2> QED BY <2>1 DEF PageInv, PageTypes
<1>3. /\ worker'[g] = w
      /\ \A h \in Page!Sessions \ {g} : worker'[h] = worker[h]
  BY DEF PageInv, PageTypes
<1>4. connecting[g] = "connected"
  BY DEF PageInv, WorkersInv, Page!NoWorker
<1>5. WorkersInv'
  BY <1>1, <1>3, <1>4 DEF PageInv, WorkersInv
<1>6. CurrentWorker'
  BY <1>3 DEF PageInv, CurrentWorker, PageTypes, Page!Sessions
<1>7. RowsInv'
  <2> SUFFICES ASSUME clearing \in {<<"stream_status">>, <<>>} PROVE RowsInv!2'
    BY DEF RowsInv
  <2>1. RowsInv!2
    BY DEF PageInv, RowsInv
  <2>2. \A i \in DOMAIN fills : fills[i].fill \in 1 .. made
    BY RowTypes
  <2>3. \A h \in Page!Sessions : worker'[h].phase = "pushing" => h = generation
    BY <1>3, <2>1
  <2>4. ASSUME generation > 0, worker'[generation].phase \in Streaming,
               NEW i \in DOMAIN fills
        PROVE  fills[i].fill < worker'[generation].next
    <3>1. generation \in Page!Sessions
      BY <2>4 DEF PageInv, PageTypes, Page!Sessions
    <3>2. CASE g = generation
      BY <1>1, <1>3, <2>1, <2>2, <2>4, <3>2
    <3>3. CASE g # generation
      BY <1>3, <2>1, <2>4, <3>1, <3>3
    <3> QED BY <3>2, <3>3
  <2> QED BY <2>1, <2>3, <2>4
<1>8. StreamStatusInv'
  <2>1. generation > 0 => generation \in Page!Sessions
    BY DEF PageInv, PageTypes, Page!Sessions
  <2> QED BY <1>3, <2>1 DEF PageInv, StreamStatusInv, PageTypes, Page!LiveIsTrue, LivePhases
<1> QED BY <1>2, <1>5, <1>6, <1>7, <1>8 DEF PageInv

\* The steps of a worker that write nothing but its own place in the loop.
LEMMA QuietWorker ==
  ASSUME Page!StreamAssumption, PageInv, NEW g \in Page!Sessions,
         \/ Page!Start(g) \/ Page!SessionChanged(g) \/ Page!CheckCurrent(g)
         \/ Page!TakeClient(g) \/ Page!Subscribed(g) \/ Page!Refused(g) \/ Page!SayLive(g)
         \/ Page!Message(g) \/ Page!StreamEnds(g) \/ Page!PushCheck(g)
         \/ Page!StreamOver(g) \/ Page!SayOver(g) \/ Page!BackoffOver(g)
  PROVE  PageInv'
<1> DEFINE Quiet == UNCHANGED <<generation, clearing, connecting, client, fills, stream_status,
                                made>>
<1> USE DEF Page!Goes, Page!Current
<1>1. /\ generation \in Nat /\ made \in Nat /\ g \in Nat \ {0} /\ client \in Nat
      /\ worker[g] \in [phase : Page!Phases, seen : 0 .. generation, next : Nat]
  BY DEF PageInv, PageTypes, Page!StreamAssumption, Page!Sessions
<1>2. PICK old : old = worker[g]
  OBVIOUS
<1>3. /\ old.phase # "none" => g <= generation
      /\ old.phase \notin {"none", "starting"} => old.seen >= g
      /\ old.phase \in Streaming => old.next \in 1 .. made + 1
      /\ old.phase \in {"fill", "pushing"} => old.next <= made
  BY <1>1, <1>2 DEF PageInv, WorkersInv, Page!NoWorker
<1>4. /\ old.phase # "none" /\ g = generation => client # 0
      /\ old.phase \in {"pushing"} /\ clearing \in {<<"stream_status">>, <<>>} => g = generation
  BY <1>1, <1>2 DEF PageInv, WorkersInv, CurrentWorker, RowsInv, Page!NoWorker
<1> DEFINE Moves(w) ==
      /\ w \in [phase : Page!Phases, seen : g .. generation, next : Nat]
      /\ worker' = [worker EXCEPT ![g] = w] /\ Quiet
      /\ old.phase # "none" /\ w.phase # "none"
      /\ w.phase \in Streaming =>
           \/ old.phase \in Streaming /\ w.next = old.next
           \/ w.next = made + 1
      /\ w.phase \in {"fill", "pushing"} => w.next <= made
      /\ w.phase = "gone" => g # generation
      /\ w.phase \in {"pushing", "saying_live", "saying_over"} => g = generation
      /\ old.phase \in LivePhases /\ g = generation => w.phase \in LivePhases
<1>5. ASSUME NEW w, Moves(w) PROVE PageInv'
  BY <1>2, <1>5, OneWorkerMoves
<1> USE DEF Page!Phases, Streaming, LivePhases
<1>10. CASE Page!Start(g)
  <2>1. PICK w : w = [old EXCEPT !.phase = "checking", !.seen = generation]
    OBVIOUS
  <2>2. worker' = [worker EXCEPT ![g] = w]
    <3>1. worker \in [Page!Sessions -> [phase : Page!Phases, seen : 0 .. generation, next : Nat]]
      BY DEF PageInv, PageTypes
    <3> QED BY <1>2, <1>10, <2>1, <3>1 DEF Page!Start, Page!SeenAtStart
  <2>3. old.phase = "starting" /\ Quiet
    BY <1>2, <1>10 DEF Page!Start
  <2>4. generation \in g .. generation
    BY <1>1, <1>3, <2>3
  <2>5. /\ w \in [phase : Page!Phases, seen : g .. generation, next : Nat]
        /\ w.phase = "checking"
    BY <1>1, <1>2, <2>1, <2>4
  <2>6. Moves(w)
    BY <2>2, <2>3, <2>5
  <2> QED BY <1>5, <2>6
<1> DEFINE To(w, phase) == w = [old EXCEPT !.phase = phase]
<1>11. CASE Page!SessionChanged(g)
  <2>1. PICK w : To(w, "gone")
    OBVIOUS
  <2>2. Moves(w)
    BY <1>1, <1>2, <1>3, <1>11, <2>1
       DEF Page!SessionChanged, Page!WatchedWaits, Page!Waits
  <2> QED BY <1>5, <2>2
<1>12. CASE Page!CheckCurrent(g)
  <2>1. PICK w : To(w, IF g = generation THEN "current" ELSE "gone")
    OBVIOUS
  <2>2. Moves(w)
    BY <1>1, <1>2, <1>3, <1>12, <2>1 DEF Page!CheckCurrent
  <2> QED BY <1>5, <2>2
<1>13. CASE Page!TakeClient(g)
  <2>1. PICK w : To(w, IF client = 0 THEN "gone" ELSE "subscribing")
    OBVIOUS
  <2>2. Moves(w)
    BY <1>1, <1>2, <1>3, <1>4, <1>13, <2>1 DEF Page!TakeClient
  <2> QED BY <1>5, <2>2
<1>14. CASE Page!Subscribed(g)
  <2>1. PICK w : w = [old EXCEPT !.phase = "live", !.next = made + 1]
    OBVIOUS
  <2>2. worker' = [worker EXCEPT ![g] = w]
    <3>1. worker \in [Page!Sessions -> [phase : Page!Phases, seen : 0 .. generation, next : Nat]]
      BY DEF PageInv, PageTypes
    <3> QED BY <1>2, <1>14, <2>1, <3>1 DEF Page!Subscribed
  <2>3. old.phase = "subscribing" /\ Quiet
    BY <1>2, <1>14 DEF Page!Subscribed
  <2>4. old.seen \in g .. generation /\ made + 1 \in Nat
    BY <1>1, <1>2, <1>3, <2>3
  <2>5. w = [phase |-> "live", seen |-> old.seen, next |-> made + 1]
    BY <1>1, <1>2, <2>1
  <2>6. /\ w \in [phase : Page!Phases, seen : g .. generation, next : Nat]
        /\ w.phase = "live" /\ w.next = made + 1
    BY <2>4, <2>5
  <2>7. Moves(w)
    BY <2>2, <2>3, <2>6
  <2> QED BY <1>5, <2>7
<1>15. CASE Page!Refused(g) \/ Page!StreamEnds(g)
  <2>1. PICK w : To(w, "ended")
    OBVIOUS
  <2>2. Moves(w)
    BY <1>1, <1>2, <1>3, <1>15, <2>1 DEF Page!Refused, Page!StreamEnds
  <2> QED BY <1>5, <2>2
<1>16. CASE Page!SayLive(g)
  <2>1. PICK w : To(w, IF g = generation THEN "saying_live" ELSE "reading")
    OBVIOUS
  <2>2. /\ old.phase = "live" /\ worker' = [worker EXCEPT ![g] = w] /\ Quiet
        /\ w.phase = IF g = generation THEN "saying_live" ELSE "reading"
        /\ w.next = old.next /\ w.seen = old.seen /\ w.seen \in g .. generation
        /\ w \in [phase : Page!Phases, seen : g .. generation, next : Nat]
    BY <1>1, <1>2, <1>3, <1>16, <2>1 DEF Page!SayLive
  <2>3. Moves(w)
    BY <2>2
  <2> QED BY <1>5, <2>3
<1>17. CASE Page!Message(g)
  <2>1. PICK w : To(w, "fill")
    OBVIOUS
  <2>2. Moves(w)
    BY <1>1, <1>2, <1>3, <1>17, <2>1 DEF Page!Message
  <2> QED BY <1>5, <2>2
<1>18. CASE Page!PushCheck(g)
  <2>1. PICK w : To(w, IF g = generation THEN "pushing" ELSE "gone")
    OBVIOUS
  <2>2. Moves(w)
    BY <1>1, <1>2, <1>3, <1>18, <2>1 DEF Page!PushCheck, Page!MayPush
  <2> QED BY <1>5, <2>2
<1>19. CASE Page!StreamOver(g)
  <2>1. PICK w : To(w, IF g = generation THEN "over" ELSE "gone")
    OBVIOUS
  <2>2. Moves(w)
    BY <1>1, <1>2, <1>3, <1>19, <2>1 DEF Page!StreamOver, Page!AfterStream
  <2> QED BY <1>5, <2>2
<1>20. CASE Page!SayOver(g)
  <2>1. PICK w : To(w, IF g = generation THEN "saying_over" ELSE "waiting")
    OBVIOUS
  <2>2. /\ old.phase = "over" /\ worker' = [worker EXCEPT ![g] = w] /\ Quiet
        /\ w.phase = IF g = generation THEN "saying_over" ELSE "waiting"
        /\ w.next = old.next /\ w.seen = old.seen /\ w.seen \in g .. generation
        /\ w \in [phase : Page!Phases, seen : g .. generation, next : Nat]
    BY <1>1, <1>2, <1>3, <1>20, <2>1 DEF Page!SayOver
  <2>3. Moves(w)
    BY <2>2
  <2> QED BY <1>5, <2>3
<1>21. CASE Page!BackoffOver(g)
  <2>1. PICK w : To(w, "checking")
    OBVIOUS
  <2>2. Moves(w)
    BY <1>1, <1>2, <1>3, <1>21, <2>1 DEF Page!BackoffOver
  <2> QED BY <1>5, <2>2
<1> QED BY <1>10, <1>11, <1>12, <1>13, <1>14, <1>15, <1>16, <1>17, <1>18, <1>19, <1>20, <1>21

\* push_fill's row goes behind all others, and the oldest beyond the limit go.
LEMMA KeptRows ==
  ASSUME Page!StreamAssumption, NEW S, NEW rows \in Seq(S),
         NEW kept, kept = Page!Kept(rows)
  PROVE  /\ kept \in Seq(S) /\ Len(kept) <= MaxFills
         /\ \E d \in Nat : \A i \in DOMAIN kept :
              i \in Nat /\ i + d \in DOMAIN rows /\ kept[i] = rows[i + d]
<1>1. Len(rows) \in Nat /\ MaxFills \in Nat \ {0}
  BY DEF Page!StreamAssumption
<1>2. CASE Len(rows) <= MaxFills
  <2>1. kept = rows
    BY <1>2 DEF Page!Kept
  <2>2. \A i \in DOMAIN rows : i \in Nat /\ i + 0 \in DOMAIN rows /\ rows[i] = rows[i + 0]
    OBVIOUS
  <2> QED BY <1>2, <2>1, <2>2
<1>3. CASE Len(rows) > MaxFills
  <2>1. PICK d \in Nat : d = Len(rows) - MaxFills /\ d + MaxFills = Len(rows)
    BY <1>1, <1>3
  <2>2. kept = SubSeq(rows, d + 1, Len(rows))
    BY <1>1, <1>3, <2>1 DEF Page!Kept
  <2>3. Len(kept) = MaxFills /\ DOMAIN kept = 1 .. MaxFills /\ kept \in Seq(S)
    BY <1>1, <2>1, <2>2
  <2>4. ASSUME NEW i \in DOMAIN kept
        PROVE  i \in Nat /\ i + d \in DOMAIN rows /\ kept[i] = rows[i + d]
    <3>1. i \in 1 .. MaxFills /\ d + 1 + i - 1 = i + d /\ i <= Len(rows) - (d + 1) + 1
      BY <1>1, <2>1, <2>3, <2>4
    <3>2. kept[i] = rows[d + 1 + i - 1]
      BY <1>1, <2>1, <2>2, <3>1
    <3>3. i + d \in 1 .. Len(rows)
      BY <1>1, <2>1, <3>1
    <3>4. DOMAIN rows = 1 .. Len(rows) /\ i \in Nat
      BY <3>1
    <3> QED BY ONLY <3>1, <3>2, <3>3, <3>4
  <2>5. Len(kept) <= MaxFills
    BY <1>1, <2>3
  <2> QED BY <2>3, <2>4, <2>5
<1> QED BY <1>1, <1>2, <1>3

\* The worker writes its row and gives up the lock.
LEMMA PushKeeps ==
  ASSUME Page!StreamAssumption, PageInv, NEW g \in Page!Sessions, Page!Push(g)
  PROVE  PageInv'
<1> DEFINE Row == [fill : 1 .. made, session : Page!Sessions]
<1>1. /\ generation \in Nat /\ made \in Nat /\ g \in Nat \ {0}
      /\ worker \in [Page!Sessions -> [phase : Page!Phases, seen : 0 .. generation, next : Nat]]
      /\ fills \in Seq(Row)
  BY DEF PageInv, PageTypes, Page!StreamAssumption, Page!Sessions
<1>2. PICK old : /\ old = worker[g]
                 /\ old \in [phase : Page!Phases, seen : 0 .. generation, next : Nat]
  BY <1>1
<1>3. /\ old.phase = "pushing" /\ g <= generation /\ old.seen >= g
      /\ old.next \in 1 .. made
      /\ connecting[g] = "connected"
  BY <1>1, <1>2 DEF PageInv, WorkersInv, Page!NoWorker, Page!Push, Streaming
<1>4. PICK row \in Row : row = [fill |-> old.next, session |-> g]
  <2>1. [fill |-> old.next, session |-> g] \in Row
    BY <1>3
  <2> QED BY <2>1
<1>5. PICK rows \in Seq(Row) : rows = Append(fills, row)
  <2>1. \A S, q, e : q \in Seq(S) /\ e \in S => Append(q, e) \in Seq(S)
    OBVIOUS
  <2>2. Append(fills, row) \in Seq(Row)
    BY <1>1, <2>1
  <2> QED BY <2>2
<1>6. PICK w : w = [old EXCEPT !.phase = "reading", !.next = old.next + 1]
  OBVIOUS
<1>7. /\ fills' = Page!Kept(rows) /\ worker' = [worker EXCEPT ![g] = w]
      /\ UNCHANGED <<generation, clearing, connecting, client, stream_status, made>>
  <2>2. worker' = [worker EXCEPT ![g] = w]
    BY <1>1, <1>2, <1>6 DEF Page!Push
  <2>3. fills' = Page!Kept(rows)
    BY <1>2, <1>4, <1>5 DEF Page!Push
  <2> QED BY <2>2, <2>3 DEF Page!Push
<1>8. /\ w \in [phase : Page!Phases, seen : 0 .. generation, next : Nat]
      /\ w.phase = "reading" /\ w.seen >= g /\ w.next = old.next + 1
  <2>1. "reading" \in Page!Phases /\ old.next + 1 \in Nat
    BY <1>3 DEF Page!Phases
  <2> QED BY <1>2, <1>3, <1>6, <2>1
<1>9. /\ worker'[g] = w
      /\ \A h \in Page!Sessions \ {g} : worker'[h] = worker[h]
  BY <1>1, <1>7
<1>10. PICK kept : kept = fills'
  OBVIOUS
<1>11. PICK d \in Nat :
         /\ kept \in Seq(Row) /\ Len(kept) <= MaxFills
         /\ \A i \in DOMAIN kept : i \in Nat /\ i + d \in DOMAIN rows /\ kept[i] = rows[i + d]
  <2>1. kept = Page!Kept(rows)
    BY <1>7, <1>10
  <2> QED BY <2>1, KeptRows
<1>12. PageTypes'
  BY <1>7, <1>8, <1>10, <1>11 DEF PageInv, PageTypes
<1>13. WorkersInv'
  <2> SUFFICES ASSUME NEW h \in Page!Sessions
               PROVE  /\ h > generation => connecting[h] = "none"
                      /\ connecting[h] # "connected" => worker'[h] = Page!NoWorker
                      /\ connecting[h] = "connected" => worker'[h].phase # "none"
                      /\ worker'[h].phase \notin {"none", "starting"} => worker'[h].seen >= h
                      /\ worker'[h].phase \in Streaming => worker'[h].next \in 1 .. made + 1
                      /\ worker'[h].phase \in {"fill", "pushing"} => worker'[h].next <= made
    BY <1>7 DEF WorkersInv
  <2>1. CASE h = g
    <3>1. old.next + 1 \in 1 .. made + 1 /\ ~(g > generation)
      BY <1>1, <1>3
    <3> QED BY <1>3, <1>8, <1>9, <2>1, <3>1
  <2>2. CASE h # g
    BY <1>9, <2>2 DEF PageInv, WorkersInv
  <2> QED BY <2>1, <2>2
<1>14. CurrentWorker'
  BY <1>1, <1>7, <1>8, <1>9 DEF PageInv, CurrentWorker, PageTypes, Page!Sessions
<1>15. StreamStatusInv'
  <2>1. generation > 0 => generation \in Page!Sessions
    BY DEF PageInv, PageTypes, Page!Sessions
  <2> QED BY <1>7, <1>8, <1>9, <2>1 DEF PageInv, StreamStatusInv, Page!LiveIsTrue
<1>16. RowsInv'
  <2> SUFFICES ASSUME clearing \in {<<"stream_status">>, <<>>} PROVE RowsInv!2'
    BY <1>7 DEF RowsInv
  <2>1. /\ \A i \in DOMAIN fills : fills[i].session = generation
        /\ \A i, j \in DOMAIN fills : i < j => fills[i].fill < fills[j].fill
        /\ \A h \in Page!Sessions : worker[h].phase = "pushing" => h = generation
    BY DEF PageInv, RowsInv
  <2>2. g = generation
    BY <1>2, <1>3, <2>1
  <2>3. \A i \in DOMAIN fills : fills[i].fill < old.next
    BY <1>1, <1>2, <1>3, <2>2 DEF PageInv, RowsInv, Streaming
  <2>4. /\ DOMAIN rows = 1 .. Len(fills) + 1 /\ DOMAIN fills = 1 .. Len(fills)
        /\ \A i \in DOMAIN fills : rows[i] = fills[i]
        /\ rows[Len(fills) + 1] = row /\ Len(fills) \in Nat
    BY <1>1, <1>4, <1>5
  <2>5. /\ \A i \in DOMAIN rows : rows[i].session = generation /\ rows[i].fill <= old.next
        /\ \A i, j \in DOMAIN rows : i < j => rows[i].fill < rows[j].fill
    <3>1. row.session = generation /\ row.fill = old.next
      BY <1>4, <2>2
    <3>2. \A i \in DOMAIN fills : fills[i].fill \in Nat
      BY RowTypes
    <3>3. \A i \in DOMAIN rows : i \in DOMAIN fills \/ i = Len(fills) + 1
      BY <2>4
    <3>4. \A i \in DOMAIN rows : rows[i].session = generation /\ rows[i].fill <= old.next
      BY <1>3, <2>1, <2>3, <2>4, <3>1, <3>2, <3>3
    <3>5. ASSUME NEW i \in DOMAIN rows, NEW j \in DOMAIN rows, i < j
          PROVE  rows[i].fill < rows[j].fill
      <4>1. i \in DOMAIN fills
        BY <2>4, <3>5
      <4>2. CASE j \in DOMAIN fills
        BY <2>1, <2>4, <3>5, <4>1, <4>2
      <4>3. CASE j = Len(fills) + 1
        BY <2>3, <2>4, <3>1, <4>1, <4>3
      <4> QED BY <3>3, <4>2, <4>3
    <3> QED BY <3>4, <3>5
  <2>6. \A i \in DOMAIN kept : kept[i].session = generation /\ kept[i].fill <= old.next
    BY <1>11, <2>5
  <2>7. \A i, j \in DOMAIN kept : i < j => kept[i].fill < kept[j].fill
    <3> SUFFICES ASSUME NEW i \in DOMAIN kept, NEW j \in DOMAIN kept, i < j
                 PROVE  kept[i].fill < kept[j].fill
      OBVIOUS
    <3>1. i + d < j + d
      BY <1>11
    <3> QED BY <1>11, <2>5, <3>1
  <2>8. \A i \in DOMAIN kept : kept[i].fill < old.next + 1
    <3>1. \A i \in DOMAIN kept : kept[i] \in Row
      BY <1>11, SeqElement
    <3> QED BY <1>2, <2>6, <3>1
  <2>9. \A h \in Page!Sessions : worker'[h].phase = "pushing" => h = generation
    BY <1>8, <1>9, <2>1
  <2> QED BY <1>7, <1>8, <1>9, <1>10, <2>2, <2>6, <2>7, <2>8, <2>9
<1> QED BY <1>12, <1>13, <1>14, <1>15, <1>16 DEF PageInv

\* The worker writes the status.
LEMMA SaidKeeps ==
  ASSUME Page!StreamAssumption, PageInv, NEW g \in Page!Sessions,
         Page!SaidLive(g) \/ Page!SaidOver(g)
  PROVE  PageInv'
<1>1. /\ generation \in Nat /\ made \in Nat /\ g \in Nat \ {0}
      /\ worker \in [Page!Sessions -> [phase : Page!Phases, seen : 0 .. generation, next : Nat]]
  BY DEF PageInv, PageTypes, Page!StreamAssumption, Page!Sessions
<1>2. PICK old : /\ old = worker[g]
                 /\ old \in [phase : Page!Phases, seen : 0 .. generation, next : Nat]
  BY <1>1
<1>3. PICK phase \in {"reading", "waiting"} :
        /\ phase = IF Page!SaidLive(g) THEN "reading" ELSE "waiting"
  OBVIOUS
<1>4. PICK w : w = [old EXCEPT !.phase = phase]
  OBVIOUS
<1>5. /\ old.phase = IF phase = "reading" THEN "saying_live" ELSE "saying_over"
      /\ worker' = [worker EXCEPT ![g] = w]
      /\ stream_status' =
           [text |-> IF phase = "reading" THEN "live" ELSE "resubscribing", session |-> g]
      /\ UNCHANGED <<generation, clearing, connecting, client, fills, made>>
  <2>1. CASE Page!SaidLive(g)
    BY <1>2, <1>3, <1>4, <2>1 DEF Page!SaidLive, Page!Goes
  <2>2. CASE ~Page!SaidLive(g)
    BY <1>2, <1>3, <1>4, <2>2 DEF Page!SaidOver, Page!Goes
  <2> QED BY <2>1, <2>2
<1>6. /\ g <= generation /\ old.seen >= g /\ connecting[g] = "connected"
      /\ phase = "reading" => old.next \in 1 .. made + 1
  BY <1>1, <1>2, <1>5 DEF PageInv, WorkersInv, Page!NoWorker, Streaming
<1>7. /\ w \in [phase : Page!Phases, seen : 0 .. generation, next : Nat]
      /\ w.phase = phase /\ w.seen >= g /\ w.next = old.next
  <2>1. phase \in Page!Phases
    BY DEF Page!Phases
  <2> QED BY <1>2, <1>4, <1>6, <2>1
<1>8. /\ worker'[g] = w
      /\ \A h \in Page!Sessions \ {g} : worker'[h] = worker[h]
  BY <1>1, <1>5
<1>9. PageTypes'
  BY <1>1, <1>5, <1>6, <1>7 DEF PageInv, PageTypes
<1>10. WorkersInv'
  BY <1>1, <1>5, <1>6, <1>7, <1>8 DEF PageInv, WorkersInv, Streaming
<1>11. CurrentWorker'
  BY <1>1, <1>5, <1>7, <1>8 DEF PageInv, CurrentWorker, PageTypes, Page!Sessions
<1>12. RowsInv'
  <2>1. generation > 0 => generation \in Page!Sessions
    BY DEF PageInv, PageTypes, Page!Sessions
  <2> QED BY <1>1, <1>2, <1>5, <1>7, <1>8, <2>1 DEF PageInv, RowsInv, Streaming
<1>13. StreamStatusInv'
  <2> SUFFICES ASSUME clearing = <<>> PROVE StreamStatusInv!2'
    BY <1>5 DEF StreamStatusInv
  <2>1. g = generation /\ \A h \in Page!Sessions :
          worker[h].phase \in {"saying_live", "saying_over"} => h = generation
    BY <1>2, <1>5 DEF PageInv, StreamStatusInv
  <2>2. \A h \in Page!Sessions :
          worker'[h].phase \in {"saying_live", "saying_over"} => h = generation
    BY <1>7, <1>8, <2>1
  <2>3. Page!LiveIsTrue'
    BY <1>5, <1>7, <1>8, <2>1 DEF Page!LiveIsTrue
  <2> QED BY <1>1, <1>5, <2>1, <2>2, <2>3
<1> QED BY <1>9, <1>10, <1>11, <1>12, <1>13 DEF PageInv

\* A new session begins, and clears what the last one left.
LEMMA SessionsKeep ==
  ASSUME Page!StreamAssumption, PageInv,
         (\E connects \in BOOLEAN : Page!BeginSession(connects)) \/ Page!ClearNext
  PROVE  PageInv'
<1>1. /\ generation \in Nat /\ made \in Nat /\ MaxSessions \in Nat /\ client \in 0 .. generation
      /\ worker \in [Page!Sessions -> [phase : Page!Phases, seen : 0 .. generation, next : Nat]]
  BY DEF PageInv, PageTypes, Page!StreamAssumption
<1>2. CASE \E connects \in BOOLEAN : Page!BeginSession(connects)
  <2>1. PICK next \in {"asked", "never"} :
          /\ connecting' = [connecting EXCEPT ![generation + 1] = next]
          /\ clearing' = <<"client", "fills", "stream_status">>
          /\ generation' = generation + 1 /\ generation < MaxSessions
          /\ UNCHANGED <<client, worker, fills, stream_status, made>>
    BY <1>2 DEF Page!BeginSession
  <2>2. generation + 1 \in Page!Sessions
    BY <1>1, <2>1 DEF Page!Sessions
  <2>3. PageTypes'
    <3>1. 0 .. generation \subseteq 0 .. generation + 1
      BY <1>1
    <3>2. worker' \in [Page!Sessions -> [phase : Page!Phases, seen : 0 .. generation', next : Nat]]
      BY <1>1, <2>1, <3>1
    <3>3. client' \in 0 .. generation'
      BY <1>1, <2>1
    <3> QED BY <1>1, <2>1, <2>2, <3>1, <3>2, <3>3 DEF PageInv, PageTypes, ClearStages
  <2>4. WorkersInv' /\ CurrentWorker'
    BY <1>1, <2>1, <2>2 DEF PageInv, PageTypes, WorkersInv, CurrentWorker, Page!Sessions
  <2>5. RowsInv' /\ StreamStatusInv'
    BY <2>1 DEF RowsInv, StreamStatusInv
  <2> QED BY <2>3, <2>4, <2>5 DEF PageInv
<1>3. CASE Page!ClearNext
  <2> USE <1>3 DEF Page!ClearNext
  <2>1. CASE clearing = <<"client", "fills", "stream_status">>
    <3>1. clearing' = <<"fills", "stream_status">> /\ client' = 0
          /\ UNCHANGED <<generation, connecting, worker, fills, stream_status, made>>
      BY <2>1
    <3> QED BY <1>1, <2>1, <3>1
            DEF PageInv, PageTypes, ClearStages, WorkersInv, CurrentWorker, RowsInv, StreamStatusInv
  <2>2. CASE clearing = <<"fills", "stream_status">>
    <3>1. clearing' = <<"stream_status">> /\ fills' = <<>>
          /\ UNCHANGED <<generation, connecting, worker, client, stream_status, made>>
          /\ Page!FillsFree
      BY <2>2
    <3> QED BY <1>1, <2>2, <3>1
            DEF PageInv, PageTypes, ClearStages, WorkersInv, CurrentWorker, RowsInv,
                StreamStatusInv, Page!FillsFree, Page!StreamAssumption
  <2>3. CASE clearing = <<"stream_status">>
    <3>1. clearing' = <<>> /\ stream_status' = [text |-> "not_subscribed", session |-> generation]
          /\ UNCHANGED <<generation, connecting, worker, client, fills, made>>
          /\ Page!StatusFree
      BY <2>3
    <3> QED BY <1>1, <2>3, <3>1
            DEF PageInv, PageTypes, ClearStages, WorkersInv, CurrentWorker, RowsInv,
                StreamStatusInv, Page!StatusFree, Page!LiveIsTrue
  <2> QED BY <2>1, <2>2, <2>3 DEF PageInv, PageTypes, ClearStages
<1> QED BY <1>2, <1>3

\* The connect worker of a session, and the engine's next fill.
LEMMA ConnectsKeep ==
  ASSUME Page!StreamAssumption, PageInv,
         \/ Page!StartConnect \/ Page!Make
         \/ \E g \in Page!Sessions :
              (\E ok \in BOOLEAN : Page!Connected(g, ok)) \/ Page!StoreClient(g)
  PROVE  PageInv'
<1>1. /\ generation \in Nat /\ made \in 0 .. MaxMade /\ MaxMade \in Nat
      /\ worker \in [Page!Sessions -> [phase : Page!Phases, seen : 0 .. generation, next : Nat]]
      /\ generation > 0 => generation \in Page!Sessions
  BY DEF PageInv, PageTypes, Page!StreamAssumption, Page!Sessions
<1>2. CASE Page!StartConnect
  BY <1>1, <1>2 DEF Page!StartConnect, PageInv, PageTypes, WorkersInv, CurrentWorker, RowsInv,
                    StreamStatusInv, Page!LiveIsTrue
<1>3. ASSUME NEW g \in Page!Sessions, NEW ok \in BOOLEAN, Page!Connected(g, ok) PROVE PageInv'
  <2>1. PICK next \in {"storing", "over"} :
          /\ connecting[g] = "connecting" /\ connecting' = [connecting EXCEPT ![g] = next]
          /\ UNCHANGED <<generation, clearing, client, worker, fills, stream_status, made>>
    BY <1>3 DEF Page!Connected
  <2>2. /\ connecting'[g] = next
        /\ \A h \in Page!Sessions \ {g} : connecting'[h] = connecting[h]
    BY <2>1 DEF PageInv, PageTypes
  <2>3. PageTypes'
    BY <2>1 DEF PageInv, PageTypes
  <2>4. WorkersInv' /\ CurrentWorker'
    BY <1>1, <2>1, <2>2 DEF PageInv, WorkersInv, CurrentWorker
  <2>5. RowsInv' /\ StreamStatusInv'
    BY <2>1 DEF PageInv, RowsInv, StreamStatusInv, Page!LiveIsTrue
  <2> QED BY <2>3, <2>4, <2>5 DEF PageInv
<1>4. ASSUME NEW g \in Page!Sessions, Page!StoreClient(g) PROVE PageInv'
  <2>1. /\ connecting[g] = "storing" /\ client' = g
        /\ connecting' = [connecting EXCEPT ![g] = "connected"]
        /\ UNCHANGED <<generation, clearing, fills, stream_status, made>>
    BY <1>4 DEF Page!StoreClient
  <2>2. worker[g] = Page!NoWorker /\ g <= generation /\ g \in Nat \ {0}
    BY <1>1, <2>1 DEF PageInv, PageTypes, WorkersInv, Page!Sessions
  <2>3. PICK w : w = [worker[g] EXCEPT !.phase = "starting"]
    OBVIOUS
  <2>4. worker' = [worker EXCEPT ![g] = w]
    BY <1>4, <2>3 DEF Page!StoreClient, Page!Goes
  <2>5. w = [phase |-> "starting", seen |-> 0, next |-> 0]
    BY <2>2, <2>3 DEF Page!NoWorker
  <2>6. /\ worker'[g] = w /\ connecting'[g] = "connected"
        /\ \A h \in Page!Sessions \ {g} :
             worker'[h] = worker[h] /\ connecting'[h] = connecting[h]
    BY <1>1, <2>1, <2>4 DEF PageInv, PageTypes
  <2>7. PageTypes'
    <3>1. w \in [phase : Page!Phases, seen : 0 .. generation, next : Nat]
      BY <1>1, <2>5 DEF Page!Phases
    <3> QED BY <1>1, <2>1, <2>2, <2>4, <3>1 DEF PageInv, PageTypes
  <2>8. WorkersInv'
    BY <1>1, <2>1, <2>2, <2>5, <2>6 DEF PageInv, WorkersInv, Streaming
  <2>9. CurrentWorker'
    BY <1>1, <2>1, <2>2, <2>5, <2>6 DEF PageInv, CurrentWorker
  <2>10. RowsInv'
    <3> SUFFICES ASSUME clearing \in {<<"stream_status">>, <<>>} PROVE RowsInv!2'
      BY <2>1 DEF RowsInv
    <3>1. RowsInv!2
      BY DEF PageInv, RowsInv
    <3>2. worker'[g].phase \notin Streaming /\ worker'[g].phase # "pushing"
      BY <2>5, <2>6 DEF Streaming
    <3>3. \A h \in Page!Sessions : worker'[h].phase = "pushing" => h = generation
      BY <2>6, <3>1, <3>2
    <3>4. generation > 0 /\ worker'[generation].phase \in Streaming =>
            \A i \in DOMAIN fills : fills[i].fill < worker'[generation].next
      BY <1>1, <2>6, <3>1, <3>2
    <3> QED BY <2>1, <3>1, <3>3, <3>4
  <2>11. StreamStatusInv'
    <3>1. \A h \in Page!Sessions : worker'[h].phase \in {"saying_live", "saying_over"} => h # g
      BY <2>5, <2>6
    <3>2. clearing = <<>> => Page!LiveIsTrue'
      BY <1>1, <2>1, <2>2, <2>5, <2>6
         DEF PageInv, StreamStatusInv, PageTypes, Page!LiveIsTrue, Page!NoWorker
    <3> QED BY <2>1, <2>6, <3>1, <3>2 DEF PageInv, StreamStatusInv
  <2> QED BY <2>7, <2>8, <2>9, <2>10, <2>11 DEF PageInv
<1>5. CASE Page!Make
  <2>1. /\ made < MaxMade /\ made' = made + 1
        /\ UNCHANGED <<generation, clearing, connecting, client, worker, fills, stream_status>>
    BY <1>5 DEF Page!Make
  <2>2. PageTypes'
    <3>1. PICK S : S = [fill : 1 .. made, session : Page!Sessions] /\ fills \in Seq(S)
      BY DEF PageInv, PageTypes
    <3>2. PICK n : n = made'
      OBVIOUS
    <3>3. PICK T : T = [fill : 1 .. n, session : Page!Sessions]
      OBVIOUS
    <3>4. S \subseteq T
      BY <1>1, <2>1, <3>1, <3>2, <3>3
    <3>5. fills \in Seq(T)
      BY <3>1, <3>4, SeqMonotone
    <3>6. fills' \in Seq([fill : 1 .. made', session : Page!Sessions])
      BY <2>1, <3>2, <3>3, <3>5
    <3> QED BY <1>1, <2>1, <3>6 DEF PageInv, PageTypes
  <2>3. WorkersInv'
    <3>1. \A g \in Page!Sessions : worker[g].next \in Nat
      BY <1>1
    <3> QED BY <1>1, <2>1, <3>1 DEF PageInv, WorkersInv
  <2>4. CurrentWorker' /\ RowsInv' /\ StreamStatusInv'
    BY <2>1 DEF PageInv, CurrentWorker, RowsInv, StreamStatusInv, Page!LiveIsTrue
  <2> QED BY <2>2, <2>3, <2>4 DEF PageInv
<1> QED BY <1>2, <1>3, <1>4, <1>5

\* Every step keeps the invariant.
LEMMA NextPage ==
  ASSUME Page!StreamAssumption
  PROVE  PageInv /\ [Page!Next]_(Page!vars) => PageInv'
<1> SUFFICES ASSUME PageInv, [Page!Next]_(Page!vars) PROVE PageInv'
  OBVIOUS
<1>1. CASE UNCHANGED Page!vars
  BY <1>1 DEF Page!vars, PageInv, PageTypes, WorkersInv, CurrentWorker, RowsInv, StreamStatusInv,
              Page!LiveIsTrue
<1>2. CASE Page!Next
  BY <1>2, QuietWorker, PushKeeps, SaidKeeps, SessionsKeep, ConnectsKeep
     DEF Page!Next, Page!WorkerStep
<1> QED BY <1>1, <1>2

\* main.rs:1535-1537, 1593-1601: for any number of sessions, fills and rows kept, the fills
\* page shows the rows and the status of the current session only, each fill once and in
\* order, says live only while its worker reads, and a connected session has its worker.
THEOREM PageIsOfSession == Page!Spec => []PageOfSession
<1>1. Page!Init => PageInv
  BY PageConstants, InitPage
<1>2. PageInv /\ [Page!Next]_(Page!vars) => PageInv'
  BY PageConstants, NextPage
<1>3. PageInv => PageOfSession
  BY PageConstants, PageIsSound DEF PageOfSession
<1> QED BY <1>1, <1>2, <1>3, PTL DEF Page!Spec
-----------------------------------------------------------------------------
(* The session protocol of the GUI *)

Cleared == {"client", "tracked_orders", "orders"} \cup Reports
Pending == ToSet(ui.clearing)

Said == {"WORKING", "FINISHED", "forgotten"}
Waiting(s) == submit[s].phase \in {"accepted", "tracking", "reading", "read"}

SubmitRecord ==
  [phase : {"idle", "asking", "accepted", "tracking", "reading", "read"},
   session : 0 .. generation, id : 0 .. MaxOrders, reply : {"none"} \cup Said]

PollRecord ==
  [phase : {"idle", "next", "asking", "answered", "noted"}, session : 0 .. generation,
   ids : SUBSET Ids, id : 0 .. MaxOrders, reply : {"none"} \cup Said]

GuiTypes ==
  /\ generation \in 0 .. MaxSessions /\ client \in 0 .. generation
  /\ connection \in [status : Statuses, session : 0 .. generation]
  /\ tracked \subseteq Ids
  /\ DOMAIN orders \subseteq Ids
  /\ \A id \in DOMAIN orders : orders[id] \in {"WORKING", "FINISHED", "UNKNOWN"}
  /\ report \in [Reports -> 0 .. generation]
  /\ DOMAIN held = Fields
  /\ attempt \in [Sessions -> {"none", "connecting", "storing", "connected", "over"}]
  /\ submit \in [Slots -> SubmitRecord]
  /\ poll \in PollRecord
  /\ engine \in [Ids -> {"unborn", "WORKING", "FINISHED", "forgotten"}]
  /\ owner \in [Ids -> 0 .. generation]

\* begin_session clears each field once, and sets the status when it is done.
UiInv ==
  /\ ui \in [clearing : Seq(Cleared), status : {"none", "Connecting", "Disconnected"}]
  /\ IsInjective(ui.clearing)
  /\ ui.status = "none" => ui.clearing = <<>>

\* An order belongs to the session that submitted it, and so do the workers and the
\* writes that name it.
OwnersInv ==
  /\ \A id \in Ids : owner[id] = 0 <=> engine[id] = "unborn"
  /\ \A s \in Slots :
       /\ submit[s].phase # "idle" => submit[s].session > 0
       /\ Waiting(s) => submit[s].id > 0 /\ owner[submit[s].id] = submit[s].session
       /\ submit[s].phase = "read" => submit[s].reply \in Said
  /\ poll.phase # "idle" =>
       poll.session > 0 /\ \A id \in poll.ids : owner[id] = poll.session
  /\ poll.phase \in {"asking", "answered", "noted"} =>
       poll.id > 0 /\ owner[poll.id] = poll.session
  /\ poll.phase \in {"answered", "noted"} => poll.reply \in Said

\* What each lock's holder is about to write.
HeldInv ==
  /\ \A field \in Fields : ~Free(field) => held[field].session \in 1 .. generation
  /\ ~Free("connection") => held["connection"].what \in Statuses
  /\ ~Free("tracked_orders") =>
       LET w == held["tracked_orders"]
       IN  /\ w.what.id \in Ids
           /\ w.what.op = "track" => owner[w.what.id] = w.session
  /\ ~Free("orders") =>
       LET w == held["orders"]
       IN  w.what.op = "update" =>
             /\ w.what.id \in Ids /\ owner[w.what.id] = w.session
             /\ w.what.state \in {"WORKING", "FINISHED"}
  /\ \A g \in Sessions : attempt[g] = "storing" =>
       held["connection"] = [by |-> <<"connect", g>>, session |-> g, what |-> "Connected"]

\* Once a field is cleared it is the session's, and so is the write its lock is held for.
OfSession(field) == Free(field) \/ held[field].session = generation

FieldsInv ==
  /\ "tracked_orders" \notin Pending =>
       OfSession("tracked_orders") /\ \A id \in tracked : owner[id] = generation
  /\ "orders" \notin Pending =>
       OfSession("orders") /\ \A id \in DOMAIN orders : owner[id] = generation
  /\ \A r \in Reports \ Pending : OfSession(r) /\ report[r] \in {0, generation}

\* The status is the session's, and where it promises a client, or is about to, there is
\* the session's client, or its connect worker is about to store it.
ConnectionInv ==
  ui.status = "none" =>
    /\ OfSession("connection") /\ connection.session = generation
    /\ HasClient => client = generation
    /\ ~Free("connection") /\ held["connection"].what \in {"Connected", "Unreachable"} =>
         client = generation \/ attempt[generation] = "storing"

GuiInv == GuiTypes /\ UiInv /\ OwnersInv /\ HeldInv /\ FieldsInv /\ ConnectionInv

USE GuiConstants DEF GuiAssumption

\* A lock that is held is not free.
LEMMA WriteIsNotNone ==
  \A by, session, what : [by |-> by, session |-> session, what |-> what] # NoWrite
BY DEF NoWrite

\* What becomes of the elements of sequences when these are joined or lose their head.
LEMMA Joined ==
  ASSUME NEW S, NEW a \in Seq(S), NEW b \in Seq(S), IsInjective(a), IsInjective(b),
         ToSet(a) \cap ToSet(b) = {}
  PROVE  /\ a \o b \in Seq(S) /\ IsInjective(a \o b)
         /\ ToSet(a \o b) = ToSet(a) \cup ToSet(b)
<1>1. PICK c : c = a \o b
  OBVIOUS
<1>2. c \in Seq(S) /\ Len(c) = Len(a) + Len(b) /\ DOMAIN c = 1 .. Len(c)
  BY <1>1
<1>3. Len(a) \in Nat /\ Len(b) \in Nat /\ DOMAIN a = 1 .. Len(a) /\ DOMAIN b = 1 .. Len(b)
  OBVIOUS
<1>4. \A i \in DOMAIN a : i \in DOMAIN c /\ c[i] = a[i]
  BY <1>1, <1>2, <1>3
<1>5. \A i \in DOMAIN b : i + Len(a) \in DOMAIN c /\ c[i + Len(a)] = b[i]
  BY <1>1, <1>2, <1>3
<1>6. \A i \in DOMAIN c :
        i \in DOMAIN a \/ (i \notin DOMAIN a /\ i - Len(a) \in DOMAIN b /\ c[i] = b[i - Len(a)])
  BY <1>1, <1>2, <1>3
<1>7. \A i \in DOMAIN a, j \in DOMAIN b : a[i] # b[j]
  BY DEF ToSet
<1>8. IsInjective(c)
  <2> SUFFICES ASSUME NEW i \in DOMAIN c, NEW j \in DOMAIN c, c[i] = c[j] PROVE i = j
    BY DEF IsInjective
  <2>1. i \in Int /\ j \in Int
    BY <1>2
  <2>2. CASE i \in DOMAIN a
    BY <1>4, <1>6, <1>7, <2>2 DEF IsInjective
  <2>3. CASE i \notin DOMAIN a
    <3>1. j \notin DOMAIN a
      BY <1>4, <1>6, <1>7, <2>3
    <3>2. i - Len(a) = j - Len(a)
      BY <1>6, <2>3, <3>1 DEF IsInjective
    <3> QED BY <1>3, <2>1, <3>2
  <2> QED BY <2>2, <2>3
<1>9. ToSet(c) = ToSet(a) \cup ToSet(b)
  <2>1. \A i \in DOMAIN c : c[i] \in ToSet(a) \cup ToSet(b)
    BY <1>4, <1>6 DEF ToSet
  <2>2. \A i \in DOMAIN a : a[i] \in ToSet(c)
    BY <1>4 DEF ToSet
  <2>3. \A i \in DOMAIN b : b[i] \in ToSet(c)
    BY <1>5 DEF ToSet
  <2> QED BY <2>1, <2>2, <2>3 DEF ToSet
<1> QED BY <1>1, <1>2, <1>8, <1>9

LEMMA Behead ==
  ASSUME NEW S, NEW q \in Seq(S), q # <<>>, IsInjective(q)
  PROVE  /\ Tail(q) \in Seq(S) /\ Head(q) \in S /\ IsInjective(Tail(q))
         /\ ToSet(Tail(q)) = ToSet(q) \ {Head(q)}
<1>1. PICK t : t = Tail(q)
  OBVIOUS
<1>2. /\ t \in Seq(S) /\ Len(q) \in Nat \ {0} /\ Len(t) = Len(q) - 1
      /\ DOMAIN q = 1 .. Len(q) /\ DOMAIN t = 1 .. Len(q) - 1
      /\ Head(q) = q[1] /\ \A i \in DOMAIN t : t[i] = q[i + 1]
  BY <1>1
<1>3. \A i \in DOMAIN q : i # 1 => i - 1 \in DOMAIN t /\ t[i - 1] = q[i]
  BY <1>2
<1>4. \A i \in DOMAIN t : i \in Nat /\ i + 1 \in DOMAIN q /\ i + 1 # 1 /\ 1 \in DOMAIN q
  BY <1>2
<1>5. IsInjective(t)
  <2> SUFFICES ASSUME NEW i \in DOMAIN t, NEW j \in DOMAIN t, t[i] = t[j] PROVE i = j
    BY DEF IsInjective
  <2>1. i + 1 = j + 1
    BY <1>2, <1>4 DEF IsInjective
  <2> QED BY <1>4, <2>1
<1>6. ToSet(t) = ToSet(q) \ {Head(q)}
  <2>1. \A i \in DOMAIN t : t[i] \in ToSet(q) /\ t[i] # Head(q)
    BY <1>2, <1>4 DEF ToSet, IsInjective
  <2>2. \A i \in DOMAIN q : q[i] # Head(q) => q[i] \in ToSet(t)
    BY <1>2, <1>3 DEF ToSet
  <2> QED BY <2>1, <2>2 DEF ToSet
<1> QED BY <1>1, <1>2, <1>5, <1>6

\* begin_session clears every field, each once.
LEMMA OrderOfClears ==
  /\ ClearOrder \in Seq(Cleared) /\ IsInjective(ClearOrder)
  /\ ToSet(ClearOrder) = Cleared
<1> DEFINE first == <<"client", "tracked_orders", "orders">>
<1>1. ASSUME NEW r \in {"positions", "fills", "halt_reason", "stream_status"}
      PROVE  /\ Clears(r) \in Seq(Cleared) /\ IsInjective(Clears(r))
             /\ ToSet(Clears(r)) = {r} \cap Reports
  <2>1. CASE r \in Reports
    <3>1. Clears(r) = <<r>> /\ DOMAIN <<r>> = {1} /\ <<r>>[1] = r
      BY <2>1 DEF Clears
    <3> QED BY <2>1, <3>1 DEF Cleared, IsInjective, ToSet
  <2>2. CASE r \notin Reports
    <3>1. Clears(r) = <<>> /\ \A i \in DOMAIN <<>> : FALSE
      BY <2>2 DEF Clears
    <3> QED BY <2>2, <3>1 DEF Cleared, IsInjective, ToSet
  <2> QED BY <2>1, <2>2
<1>2. /\ first \in Seq(Cleared) /\ IsInjective(first)
      /\ ToSet(first) = {"client", "tracked_orders", "orders"}
  <2>1. DOMAIN first = {1, 2, 3} /\ first[1] = "client" /\ first[2] = "tracked_orders"
        /\ first[3] = "orders"
    OBVIOUS
  <2>2. first \in Seq(Cleared)
    BY DEF Cleared
  <2> HIDE DEF first
  <2> QED BY <2>1, <2>2 DEF IsInjective, ToSet
<1> HIDE DEF first
<1>3. ASSUME NEW a \in Seq(Cleared), IsInjective(a),
             NEW r \in {"positions", "fills", "halt_reason", "stream_status"}, r \notin ToSet(a)
      PROVE  /\ a \o Clears(r) \in Seq(Cleared) /\ IsInjective(a \o Clears(r))
             /\ ToSet(a \o Clears(r)) = ToSet(a) \cup ({r} \cap Reports)
  <2>1. ToSet(a) \cap ToSet(Clears(r)) = {}
    BY <1>1, <1>3
  <2>2. /\ a \o Clears(r) \in Seq(Cleared) /\ IsInjective(a \o Clears(r))
        /\ ToSet(a \o Clears(r)) = ToSet(a) \cup ToSet(Clears(r))
    BY <1>1, <1>3, <2>1, Joined
  <2> QED BY <1>1, <2>2
<1>4. PICK one, two, three, four :
        /\ one = first \o Clears("positions") /\ two = one \o Clears("fills")
        /\ three = two \o Clears("halt_reason") /\ four = three \o Clears("stream_status")
  OBVIOUS
<1>5. /\ one \in Seq(Cleared) /\ IsInjective(one)
      /\ ToSet(one) = ToSet(first) \cup ({"positions"} \cap Reports)
  BY <1>2, <1>3, <1>4
<1>6. /\ two \in Seq(Cleared) /\ IsInjective(two)
      /\ ToSet(two) = ToSet(one) \cup ({"fills"} \cap Reports)
  BY <1>2, <1>3, <1>4, <1>5
<1>7. /\ three \in Seq(Cleared) /\ IsInjective(three)
      /\ ToSet(three) = ToSet(two) \cup ({"halt_reason"} \cap Reports)
  BY <1>2, <1>3, <1>4, <1>5, <1>6
<1>8. /\ four \in Seq(Cleared) /\ IsInjective(four)
      /\ ToSet(four) = ToSet(three) \cup ({"stream_status"} \cap Reports)
  BY <1>2, <1>3, <1>4, <1>5, <1>6, <1>7
<1>9. ToSet(four) = Cleared
  <2>1. Reports \subseteq {"positions", "fills", "halt_reason", "stream_status"}
    OBVIOUS
  <2> QED BY <1>2, <1>5, <1>6, <1>7, <1>8, <2>1 DEF Cleared
<1>10. ClearOrder = four
  BY <1>4 DEF ClearOrder, first
<1> QED BY <1>8, <1>9, <1>10

\* The first state, and what the invariant is for.
LEMMA InitGui ==
  ASSUME Init
  PROVE  GuiInv
<1> USE DEF Init
<1>1. GuiTypes
  <2>1. /\ Idle \in [phase : {"idle", "asking", "accepted", "tracking", "reading", "read"},
                     session : 0 .. 0, id : 0 .. MaxOrders, reply : {"none"} \cup Said]
        /\ IdlePoll \in [phase : {"idle", "next", "asking", "answered", "noted"},
                             session : 0 .. 0, ids : SUBSET Ids, id : 0 .. MaxOrders,
                             reply : {"none"} \cup Said]
    BY DEF Idle, IdlePoll
  <2> QED BY <2>1 DEF GuiTypes, SubmitRecord, PollRecord, Statuses
<1>2. UiInv /\ OwnersInv
  <2>1. ui = [clearing |-> <<>>, status |-> "none"] /\ <<>> \in Seq(Cleared) /\ IsInjective(<<>>)
    BY DEF IsInjective
  <2> QED BY <2>1 DEF UiInv, OwnersInv, Waiting, Idle, IdlePoll
<1>3. \A field \in Fields : Free(field)
  BY DEF Free
<1>4. HeldInv /\ FieldsInv /\ ConnectionInv
  BY <1>3 DEF HeldInv, FieldsInv, ConnectionInv, OfSession, Fields, HasClient
<1> QED BY <1>1, <1>2, <1>4 DEF GuiInv

LEMMA GuiIsSound == GuiInv => ScreenOfSession
<1> SUFFICES ASSUME GuiInv PROVE ScreenOfSession
  OBVIOUS
<1>1. TypeOK
  BY DEF GuiInv, GuiTypes, HeldInv, TypeOK, SubmitRecord, PollRecord
<1>2. SessionIsolation
  <2>1. UiIdle => Pending = {}
    BY DEF UiIdle, Pending, ToSet
  <2> QED BY <2>1 DEF GuiInv, FieldsInv, ConnectionInv, SessionIsolation, UiIdle
<1>3. StatusHasClient
  BY DEF GuiInv, ConnectionInv, StatusHasClient, UiIdle
<1> QED BY <1>1, <1>2, <1>3 DEF ScreenOfSession

\* A worker takes the lock of a field, with something of its session to write.
LEMMA CheckKeeps ==
  ASSUME GuiInv, NEW who, NEW session \in 1 .. generation, NEW field \in Fields, NEW what,
         Check(who, session, field, what),
         field = "connection" =>
           /\ what \in Statuses
           /\ what \in {"Connected", "Unreachable"} =>
                (ui.status = "none" /\ session = generation => client = generation),
         field = "tracked_orders" =>
           what.id \in Ids /\ (what.op = "track" => owner[what.id] = session),
         field = "orders" =>
           (what.op = "update" => /\ what.id \in Ids /\ owner[what.id] = session
                                  /\ what.state \in {"WORKING", "FINISHED"}),
         UNCHANGED <<generation, connection, client, tracked, orders, report, ui, attempt, owner>>
  PROVE  DOMAIN held' = Fields /\ HeldInv' /\ FieldsInv' /\ ConnectionInv'
<1>1. CASE ~Current(session)
  BY <1>1 DEF Check, GuiInv, GuiTypes, HeldInv, FieldsInv, ConnectionInv,
              Free, OfSession, Pending, HasClient
<1>2. CASE Current(session)
  <2>1. PICK w : w = [by |-> who, session |-> session, what |-> what]
    OBVIOUS
  <2>2. /\ session = generation /\ held' = [held EXCEPT ![field] = w] /\ Free(field)
        /\ w.session = session /\ w.what = what
    BY <1>2, <2>1 DEF Check, Current
  <2>3. /\ DOMAIN held' = Fields /\ held'[field] = w
        /\ \A other \in Fields \ {field} : held'[other] = held[other]
    BY <2>2 DEF GuiInv, GuiTypes
  <2>4. {"connection", "tracked_orders", "orders"} \cup Reports \subseteq Fields
    BY DEF Fields
  <2>5. HeldInv'
    <3>1. \A other \in Fields : ~Free(other)' => held'[other].session \in 1 .. generation
      BY <2>2, <2>3 DEF GuiInv, HeldInv, Free
    <3>2. ~Free("connection")' => held'["connection"].what \in Statuses
      BY <2>2, <2>3, <2>4 DEF GuiInv, HeldInv, Free
    <3>3. \A g \in Sessions : attempt[g] = "storing" =>
            field # "connection"
            /\ held'["connection"] =
                 [by |-> <<"connect", g>>, session |-> g, what |-> "Connected"]
      BY <2>2, <2>3, <2>4, WriteIsNotNone DEF GuiInv, HeldInv, Free
    <3>4. ~Free("tracked_orders")' =>
            /\ held'["tracked_orders"].what.id \in Ids
            /\ held'["tracked_orders"].what.op = "track" =>
                 owner[held'["tracked_orders"].what.id] = held'["tracked_orders"].session
      BY <2>2, <2>3, <2>4 DEF GuiInv, HeldInv, Free
    <3>5. ~Free("orders")' /\ held'["orders"].what.op = "update" =>
            /\ held'["orders"].what.id \in Ids
            /\ owner[held'["orders"].what.id] = held'["orders"].session
            /\ held'["orders"].what.state \in {"WORKING", "FINISHED"}
      BY <2>2, <2>3, <2>4 DEF GuiInv, HeldInv, Free
    <3> QED BY <3>1, <3>2, <3>3, <3>4, <3>5 DEF HeldInv
  <2>6. FieldsInv'
    <3>1. \A other \in Fields : OfSession(other) => OfSession(other)'
      BY <2>2, <2>3 DEF OfSession, Free
    <3>2. Pending' = Pending
      BY DEF Pending
    <3> QED BY <2>4, <3>1, <3>2 DEF GuiInv, FieldsInv
  <2>7. ConnectionInv'
    <3>1. \A other \in Fields : OfSession(other) => OfSession(other)'
      BY <2>2, <2>3 DEF OfSession, Free
    <3>2. ASSUME ui.status = "none", ~Free("connection")',
                 held'["connection"].what \in {"Connected", "Unreachable"}
          PROVE  client = generation \/ attempt[generation] = "storing"
      BY <2>2, <2>3, <2>4, <3>2 DEF GuiInv, ConnectionInv, Free
    <3> QED BY <2>4, <3>1, <3>2 DEF GuiInv, ConnectionInv, HasClient
  <2> QED BY <2>3, <2>5, <2>6, <2>7
<1> QED BY <1>1, <1>2

\* A reply moves the status, and promises a client only if the status did.
LEMMA ReplyKeeps ==
  ASSUME GuiInv, NEW who, NEW session \in 1 .. generation, NEW failed,
         RecordReply(who, session, failed),
         UNCHANGED <<generation, connection, client, tracked, orders, report, ui, attempt, owner>>
  PROVE  DOMAIN held' = Fields /\ HeldInv' /\ FieldsInv' /\ ConnectionInv'
<1>1. PICK what : what = StatusAfterReply(failed)
  OBVIOUS
<1>2. /\ what \in Statuses
      /\ what \in {"Connected", "Unreachable"} => (ui.status = "none" => client = generation)
  BY <1>1 DEF StatusAfterReply, HasClient, GuiInv, GuiTypes, Statuses, ConnectionInv
<1>3. Check(who, session, "connection", what) /\ "connection" \in Fields
  BY <1>1 DEF RecordReply, Fields
<1> QED BY <1>2, <1>3, CheckKeeps

\* The steps of a submit worker that keep what it names of its session.
LEMMA SubmitMoves ==
  ASSUME GuiInv, NEW s \in Slots, NEW w \in SubmitRecord,
         submit' = [submit EXCEPT ![s] = w], DOMAIN held' = Fields,
         w.phase # "idle" => w.session > 0,
         w.phase \in {"accepted", "tracking", "reading", "read"} =>
           w.id > 0 /\ owner[w.id] = w.session,
         w.phase = "read" => w.reply \in Said,
         UNCHANGED <<generation, connection, client, tracked, orders, report, ui, attempt, poll,
                     engine, owner>>
  PROVE  GuiTypes' /\ UiInv' /\ OwnersInv'
<1>1. /\ submit'[s] = w /\ submit' \in [Slots -> SubmitRecord]
      /\ \A other \in Slots \ {s} : submit'[other] = submit[other]
  BY DEF GuiInv, GuiTypes
<1>2. SubmitRecord' = SubmitRecord /\ PollRecord' = PollRecord
  BY DEF SubmitRecord, PollRecord
<1>3. GuiTypes'
  BY <1>1, <1>2 DEF GuiInv, GuiTypes
<1>4. UiInv'
  BY DEF GuiInv, UiInv
<1>5. OwnersInv'
  BY <1>1 DEF GuiInv, OwnersInv, Waiting
<1> QED BY <1>3, <1>4, <1>5

\* The steps of the poll that keep what it names of its session.
LEMMA PollMoves ==
  ASSUME GuiInv, poll' \in PollRecord, DOMAIN held' = Fields,
         poll'.phase # "idle" =>
           poll'.session > 0 /\ \A id \in poll'.ids : owner[id] = poll'.session,
         poll'.phase \in {"asking", "answered", "noted"} =>
           poll'.id > 0 /\ owner[poll'.id] = poll'.session,
         poll'.phase \in {"answered", "noted"} => poll'.reply \in Said,
         UNCHANGED <<generation, connection, client, tracked, orders, report, ui, attempt, submit,
                     engine, owner>>
  PROVE  GuiTypes' /\ UiInv' /\ OwnersInv'
<1>1. SubmitRecord' = SubmitRecord /\ PollRecord' = PollRecord
  BY DEF SubmitRecord, PollRecord
<1>2. GuiTypes'
  BY <1>1 DEF GuiInv, GuiTypes
<1>3. UiInv'
  BY DEF GuiInv, UiInv
<1>4. OwnersInv'
  BY DEF GuiInv, OwnersInv, Waiting
<1> QED BY <1>2, <1>3, <1>4

\* A step that leaves every lock as it is, and what the fields show.
LEMMA LocksUnchanged ==
  ASSUME GuiInv, UNCHANGED <<generation, connection, client, tracked, orders, report, held, ui,
                             attempt, owner>>
  PROVE  DOMAIN held' = Fields /\ HeldInv' /\ FieldsInv' /\ ConnectionInv'
BY DEF GuiInv, GuiTypes, HeldInv, FieldsInv, ConnectionInv, Free, OfSession, Pending,
       HasClient

\* begin_session: whatever is shown belongs to the session before, and is to be cleared.
LEMMA BeginKeeps ==
  ASSUME GuiInv, NEW status \in {"Connecting", "Disconnected"}, BeginSession(status)
  PROVE  GuiInv'
<1> USE DEF BeginSession
<1>1. /\ generation \in Nat /\ generation' = generation + 1 /\ generation' \in 0 .. MaxSessions
      /\ 0 .. generation \subseteq 0 .. generation' /\ 1 .. generation \subseteq 1 .. generation'
  BY DEF GuiInv, GuiTypes
<1>2. ui' = [clearing |-> ClearOrder, status |-> status]
  OBVIOUS
<1>3. GuiTypes'
  <2>1. SubmitRecord \subseteq SubmitRecord' /\ PollRecord \subseteq PollRecord'
    BY <1>1 DEF SubmitRecord, PollRecord
  <2>2. submit' \in [Slots -> SubmitRecord'] /\ poll' \in PollRecord'
    BY <2>1 DEF GuiInv, GuiTypes
  <2>3. /\ client' \in 0 .. generation'
        /\ connection' \in [status : Statuses, session : 0 .. generation']
        /\ report' \in [Reports -> 0 .. generation'] /\ owner' \in [Ids -> 0 .. generation']
    BY <1>1 DEF GuiInv, GuiTypes
  <2> QED BY <1>1, <2>2, <2>3 DEF GuiInv, GuiTypes
<1>4. UiInv'
  BY <1>2, OrderOfClears DEF GuiInv, UiInv
<1>5. OwnersInv'
  BY DEF GuiInv, OwnersInv, Waiting
<1>6. HeldInv'
  BY <1>1 DEF GuiInv, HeldInv, Free
<1>7. FieldsInv'
  <2>1. Pending' = Cleared
    BY <1>2, OrderOfClears DEF GuiInv, Pending
  <2> QED BY <2>1 DEF FieldsInv, Cleared
<1>8. ConnectionInv'
  BY <1>2 DEF ConnectionInv
<1> QED BY <1>3, <1>4, <1>5, <1>6, <1>7, <1>8 DEF GuiInv

\* A field that is cleared shows nothing, and no lock on it is held.
LEMMA ClearKeeps == GuiInv /\ ClearNext => GuiInv'
<1> SUFFICES ASSUME GuiInv, ClearNext PROVE GuiInv'
  OBVIOUS
<1>1. PICK field, rest : field = Head(ui.clearing) /\ rest = Tail(ui.clearing)
  OBVIOUS
<1>2. /\ ui.clearing # <<>>
      /\ field \in Fields => Free(field)
      /\ client'  = IF field = "client" THEN 0 ELSE client
      /\ tracked' = IF field = "tracked_orders" THEN {} ELSE tracked
      /\ orders'  = IF field = "orders" THEN [id \in {} |-> "WORKING"] ELSE orders
      /\ report'  = [r \in DOMAIN report |-> IF field = r THEN 0 ELSE report[r]]
      /\ ui' = [ui EXCEPT !.clearing = rest]
      /\ UNCHANGED <<generation, connection, held, attempt, submit, poll, engine, owner>>
  BY <1>1 DEF ClearNext
<1>3. /\ rest \in Seq(Cleared) /\ IsInjective(rest) /\ field \in Cleared
      /\ Pending' = Pending \ {field} /\ ui'.clearing = rest /\ ui'.status = ui.status
      /\ ui' \in [clearing : Seq(Cleared), status : {"none", "Connecting", "Disconnected"}]
  <2>1. ui.clearing \in Seq(Cleared) /\ IsInjective(ui.clearing)
        /\ ui \in [clearing : Seq(Cleared), status : {"none", "Connecting", "Disconnected"}]
    BY DEF GuiInv, UiInv
  <2>2. rest \in Seq(Cleared) /\ IsInjective(rest) /\ field \in Cleared
        /\ ToSet(rest) = ToSet(ui.clearing) \ {field}
    BY <1>1, <1>2, <2>1, Behead
  <2>3. ui'.clearing = rest /\ ui'.status = ui.status
    BY <1>2, <2>1
  <2> QED BY <1>2, <2>1, <2>2, <2>3 DEF Pending
<1>4. ui.status # "none"
  BY <1>2 DEF GuiInv, UiInv
<1>5. GuiTypes'
  <2>1. SubmitRecord' = SubmitRecord /\ PollRecord' = PollRecord
    BY <1>2 DEF SubmitRecord, PollRecord
  <2> QED BY <1>2, <2>1 DEF GuiInv, GuiTypes
<1>6. UiInv'
  BY <1>3, <1>4 DEF UiInv
<1>7. OwnersInv' /\ HeldInv'
  BY <1>2 DEF GuiInv, OwnersInv, HeldInv, Waiting, Free
<1>8. FieldsInv'
  <2>1. \A other \in Fields : OfSession(other) \/ Free(other) => OfSession(other)'
    BY <1>2 DEF OfSession, Free
  <2>2. \A r \in Reports : report'[r] = IF field = r THEN 0 ELSE report[r]
    BY <1>2 DEF GuiInv, GuiTypes
  <2>3. {"tracked_orders", "orders"} \subseteq Fields /\ Reports \subseteq Fields
    BY DEF Fields
  <2> QED BY <1>2, <1>3, <2>1, <2>2, <2>3 DEF GuiInv, FieldsInv
<1>9. ConnectionInv'
  BY <1>3, <1>4 DEF ConnectionInv
<1> QED BY <1>5, <1>6, <1>7, <1>8, <1>9 DEF GuiInv

\* The status is set under its lock, so no connect worker is storing its client.
LEMMA SetKeeps == GuiInv /\ SetStatus => GuiInv'
<1> SUFFICES ASSUME GuiInv, SetStatus PROVE GuiInv'
  OBVIOUS
<1> USE DEF SetStatus
<1>1. ui \in [clearing : Seq(Cleared), status : {"none", "Connecting", "Disconnected"}]
  BY DEF GuiInv, UiInv
<1>2. ui'.clearing = ui.clearing /\ ui'.status = "none" /\ Pending' = Pending
      /\ ui' \in [clearing : Seq(Cleared), status : {"none", "Connecting", "Disconnected"}]
  BY <1>1 DEF Pending
<1>3. \A g \in Sessions : attempt[g] # "storing" /\ attempt'[g] # "storing"
  <2>1. \A g \in Sessions : attempt[g] # "storing"
    BY WriteIsNotNone DEF GuiInv, HeldInv, Free
  <2> QED BY <2>1 DEF GuiInv, GuiTypes
<1>4. GuiTypes'
  <2>1. SubmitRecord' = SubmitRecord /\ PollRecord' = PollRecord
    BY DEF SubmitRecord, PollRecord
  <2>2. connection' \in [status : Statuses, session : 0 .. generation']
    BY <1>1 DEF GuiInv, GuiTypes, Statuses
  <2>3. attempt' \in [Sessions -> {"none", "connecting", "storing", "connected", "over"}]
    BY DEF GuiInv, GuiTypes
  <2> QED BY <2>1, <2>2, <2>3 DEF GuiInv, GuiTypes
<1>5. UiInv'
  BY <1>2 DEF GuiInv, UiInv
<1>6. OwnersInv'
  BY DEF GuiInv, OwnersInv, Waiting
<1>7. HeldInv' /\ FieldsInv'
  BY <1>2, <1>3 DEF GuiInv, HeldInv, FieldsInv, Free, OfSession
<1>8. ConnectionInv'
  BY <1>1 DEF ConnectionInv, OfSession, HasClient, Free
<1> QED BY <1>4, <1>5, <1>6, <1>7, <1>8 DEF GuiInv

\* The write a lock is held for is of a session that has begun, and it is what HeldInv says.
LEMMA WritesKeep ==
  ASSUME GuiInv, WriteStatus \/ WriteTracked \/ WriteRow \/ WriteForgotten
                   \/ \E r \in Reports : WriteReport(r)
  PROVE  GuiInv'
<1>1. {"connection", "tracked_orders", "orders"} \cup Reports \subseteq Fields
  BY DEF Fields
<1>2. UNCHANGED <<generation, client, ui, attempt, submit, poll, engine, owner>>
  BY DEF WriteStatus, WriteTracked, WriteRow, WriteForgotten, WriteReport
<1>3. /\ SubmitRecord' = SubmitRecord /\ PollRecord' = PollRecord
      /\ Pending' = Pending /\ UiInv' /\ OwnersInv'
  BY <1>2 DEF SubmitRecord, PollRecord, Pending, GuiInv, UiInv, OwnersInv, Waiting
<1>4. ASSUME NEW F \in SUBSET Fields,
             held' = [field \in Fields |-> IF field \in F THEN NoWrite ELSE held[field]]
      PROVE  /\ DOMAIN held' = Fields
             /\ \A field \in Fields :
                  Free(field)' \/ (field \notin F /\ held'[field] = held[field])
             /\ \A field \in Fields : OfSession(field) => OfSession(field)'
             /\ (ClientStored \/ "connection" \notin F) => HeldInv'
  <2>1. DOMAIN held' = Fields
        /\ \A field \in Fields :
             Free(field)' \/ (field \notin F /\ held'[field] = held[field])
    BY <1>4 DEF Free
  <2>2. \A field \in Fields : OfSession(field) => OfSession(field)'
    BY <1>2, <2>1 DEF OfSession, Free
  <2>3. ASSUME ClientStored \/ "connection" \notin F PROVE HeldInv'
    BY <1>1, <1>2, <1>4, <2>1, <2>3 DEF GuiInv, HeldInv, Free, ClientStored
  <2> QED BY <2>1, <2>2, <2>3
<1>5. DOMAIN held = Fields
  BY DEF GuiInv, GuiTypes
<1>10. CASE WriteStatus
  <2> USE <1>10 DEF WriteStatus
  <2>1. PICK w : w = held["connection"]
    OBVIOUS
  <2>2. connection' = [status |-> w.what, session |-> w.session] /\ w.what \in Statuses
        /\ w.session \in 1 .. generation
    BY <1>1, <2>1 DEF GuiInv, HeldInv
  <2>3. PICK F : F = {"connection"}
    OBVIOUS
  <2>10. /\ F \in SUBSET Fields
         /\ held' = [field \in Fields |-> IF field \in F THEN NoWrite ELSE held[field]]
    BY <1>1, <1>5, <2>3
  <2>4. /\ DOMAIN held' = Fields /\ HeldInv'
        /\ \A field \in Fields : OfSession(field) => OfSession(field)'
    BY <1>1, <1>4, <2>3, <2>10
  <2>5. GuiTypes'
    BY <1>2, <1>3, <2>2, <2>4 DEF GuiInv, GuiTypes
  <2>6. FieldsInv'
    BY <1>1, <1>2, <1>3, <2>4 DEF GuiInv, FieldsInv
  <2>7. ConnectionInv'
    <3>1. Free("connection")'
      BY <1>1, <2>3, <2>10 DEF Free
    <3>2. ASSUME ui.status = "none"
          PROVE  /\ w.session = generation
                 /\ w.what \in {"Connected", "Unreachable"} => client = generation
      <4>1. w.session = generation
        BY <2>1, <3>2 DEF GuiInv, ConnectionInv, OfSession
      <4>2. generation \in Sessions
        BY <2>2, <4>1 DEF GuiInv, GuiTypes, Sessions
      <4> QED BY <2>1, <3>2, <4>1, <4>2 DEF GuiInv, ConnectionInv, ClientStored
    <3> QED BY <1>2, <2>2, <3>1, <3>2 DEF ConnectionInv, OfSession, HasClient
  <2> QED BY <1>3, <2>4, <2>5, <2>6, <2>7 DEF GuiInv
<1>11. CASE WriteTracked
  <2> USE <1>11 DEF WriteTracked
  <2>1. PICK w : w = held["tracked_orders"]
    OBVIOUS
  <2>2. tracked' = tracked \cup {w.what.id} /\ w.what.id \in Ids /\ owner[w.what.id] = w.session
    BY <2>1 DEF GuiInv, HeldInv
  <2>3. PICK F : F = {"tracked_orders"}
    OBVIOUS
  <2>10. /\ F \in SUBSET Fields
         /\ held' = [field \in Fields |-> IF field \in F THEN NoWrite ELSE held[field]]
    BY <1>1, <1>5, <2>3
  <2>4. /\ DOMAIN held' = Fields /\ HeldInv' /\ held'["connection"] = held["connection"]
        /\ \A field \in Fields : OfSession(field) => OfSession(field)'
    BY <1>1, <1>4, <2>3, <2>10
  <2>5. GuiTypes'
    BY <1>2, <1>3, <2>2, <2>4 DEF GuiInv, GuiTypes
  <2>6. "tracked_orders" \notin Pending => w.session = generation
    BY <2>1 DEF GuiInv, FieldsInv, OfSession
  <2>7. FieldsInv'
    BY <1>1, <1>2, <1>3, <2>2, <2>4, <2>6 DEF GuiInv, FieldsInv
  <2>8. ConnectionInv'
    BY <1>1, <1>2, <2>4 DEF GuiInv, ConnectionInv, HasClient, Free
  <2> QED BY <1>3, <2>4, <2>5, <2>7, <2>8 DEF GuiInv
<1>12. CASE WriteRow
  <2>1. PICK w : w = held["orders"]
    OBVIOUS
  <2>2. /\ orders' = [id \in DOMAIN orders \cup {w.what.id} |->
                        IF id = w.what.id THEN w.what.state ELSE orders[id]]
        /\ w.what.id \in Ids /\ owner[w.what.id] = w.session
        /\ w.what.state \in {"WORKING", "FINISHED"}
        /\ UNCHANGED <<connection, tracked, report>>
    BY <1>12, <2>1 DEF WriteRow, GuiInv, HeldInv
  <2>3. PICK F : F = {"orders"}
    OBVIOUS
  <2>10. /\ F \in SUBSET Fields
         /\ held' = [field \in Fields |-> IF field \in F THEN NoWrite ELSE held[field]]
    BY <1>1, <1>5, <1>12, <2>3 DEF WriteRow
  <2>4. /\ DOMAIN held' = Fields /\ HeldInv' /\ held'["connection"] = held["connection"]
        /\ \A field \in Fields : OfSession(field) => OfSession(field)'
    BY <1>1, <1>4, <2>3, <2>10
  <2>5. DOMAIN orders' = DOMAIN orders \cup {w.what.id}
    BY <2>2
  <2>6. GuiTypes'
    <3>1. DOMAIN orders' \subseteq Ids
      BY <2>2, <2>5 DEF GuiInv, GuiTypes
    <3>2. \A id \in DOMAIN orders' : orders'[id] \in {"WORKING", "FINISHED", "UNKNOWN"}
      BY <2>2, <2>5 DEF GuiInv, GuiTypes
    <3> QED BY <1>2, <1>3, <2>2, <2>4, <3>1, <3>2 DEF GuiInv, GuiTypes
  <2>7. "orders" \notin Pending => w.session = generation
    BY <1>12, <2>1 DEF WriteRow, GuiInv, FieldsInv, OfSession
  <2>8. FieldsInv'
    BY <1>1, <1>2, <1>3, <2>2, <2>4, <2>5, <2>7 DEF GuiInv, FieldsInv
  <2>9. ConnectionInv'
    BY <1>1, <1>2, <2>2, <2>4 DEF GuiInv, ConnectionInv, HasClient, Free
  <2> QED BY <1>3, <2>4, <2>6, <2>8, <2>9 DEF GuiInv
<1>13. CASE WriteForgotten
  <2> USE <1>13 DEF WriteForgotten
  <2>1. PICK gone : gone = held["orders"].what.id
    OBVIOUS
  <2>2. /\ tracked' = tracked \ {gone}
        /\ orders' = [id \in DOMAIN orders |-> IF id = gone THEN "UNKNOWN" ELSE orders[id]]
    BY <2>1
  <2>3. PICK F : F = {"tracked_orders", "orders"}
    OBVIOUS
  <2>10. /\ F \in SUBSET Fields
         /\ held' = [field \in Fields |-> IF field \in F THEN NoWrite ELSE held[field]]
    BY <1>1, <1>5, <2>3
  <2>4. /\ DOMAIN held' = Fields /\ HeldInv' /\ held'["connection"] = held["connection"]
        /\ \A field \in Fields : OfSession(field) => OfSession(field)'
    BY <1>1, <1>4, <2>3, <2>10
  <2>5. DOMAIN orders' = DOMAIN orders
    BY <2>2
  <2>6. GuiTypes'
    BY <1>2, <1>3, <2>2, <2>4, <2>5 DEF GuiInv, GuiTypes
  <2>7. FieldsInv'
    BY <1>1, <1>2, <1>3, <2>2, <2>4, <2>5 DEF GuiInv, FieldsInv
  <2>8. ConnectionInv'
    BY <1>1, <1>2, <2>4 DEF GuiInv, ConnectionInv, HasClient, Free
  <2> QED BY <1>3, <2>4, <2>6, <2>7, <2>8 DEF GuiInv
<1>14. ASSUME NEW r \in Reports, WriteReport(r) PROVE GuiInv'
  <2> USE <1>14 DEF WriteReport
  <2>1. PICK w : w = held[r]
    OBVIOUS
  <2>2. /\ report' = [report EXCEPT ![r] = w.session] /\ w.session \in 1 .. generation
        /\ UNCHANGED <<connection, tracked, orders>>
    BY <1>1, <2>1 DEF GuiInv, HeldInv
  <2>3. PICK F : F = {r}
    OBVIOUS
  <2>10. /\ F \in SUBSET Fields
         /\ held' = [field \in Fields |-> IF field \in F THEN NoWrite ELSE held[field]]
    BY <1>1, <1>5, <2>3
  <2>4. r # "connection"
    BY DEF GuiInv
  <2>5. /\ DOMAIN held' = Fields /\ HeldInv' /\ held'["connection"] = held["connection"]
        /\ \A field \in Fields : OfSession(field) => OfSession(field)'
    BY <1>1, <1>4, <2>3, <2>4, <2>10
  <2>6. GuiTypes'
    BY <1>2, <1>3, <2>2, <2>5 DEF GuiInv, GuiTypes
  <2>7. /\ report'[r] = w.session
        /\ r \notin Pending => w.session = generation
        /\ \A other \in Reports \ {r} : report'[other] = report[other]
    BY <2>1, <2>2 DEF GuiInv, GuiTypes, FieldsInv, OfSession
  <2>8. FieldsInv'
    BY <1>1, <1>2, <1>3, <2>2, <2>5, <2>7 DEF GuiInv, FieldsInv
  <2>9. ConnectionInv'
    BY <1>1, <1>2, <2>2, <2>5 DEF GuiInv, ConnectionInv, HasClient, Free
  <2> QED BY <1>3, <2>5, <2>6, <2>8, <2>9 DEF GuiInv
<1> QED BY <1>10, <1>11, <1>12, <1>13, <1>14

\* A connect worker has its channel or its error, or it stores its client.
LEMMA ConnectKeeps ==
  ASSUME GuiInv, NEW g \in Sessions, Connected(g) \/ StoreClient(g)
  PROVE  GuiInv'
<1>1. "connection" \in Fields
  BY DEF Fields
<1>2. UNCHANGED <<generation, connection, tracked, orders, report, ui, submit, poll, engine,
                  owner>>
  BY DEF Connected, StoreClient
<1>3. /\ SubmitRecord' = SubmitRecord /\ PollRecord' = PollRecord
      /\ Pending' = Pending /\ UiInv' /\ OwnersInv'
  BY <1>2 DEF SubmitRecord, PollRecord, Pending, GuiInv, UiInv, OwnersInv, Waiting
<1>4. CASE Connected(g)
  <2>1. PICK status \in {"Connected", "Error"} :
          /\ Check(<<"connect", g>>, g, "connection", status)
          /\ attempt' = [attempt EXCEPT ![g] = IF Current(g) /\ status = "Connected"
                                               THEN "storing" ELSE "over"]
    BY <1>4 DEF Connected
  <2>2. Free("connection") /\ client' = client
    BY <1>4 DEF Connected
  <2>3. \A h \in Sessions : attempt[h] # "storing"
    BY <2>2, WriteIsNotNone DEF GuiInv, HeldInv, Free
  <2>4. /\ attempt' \in [Sessions -> {"none", "connecting", "storing", "connected", "over"}]
        /\ \A h \in Sessions :
             attempt'[h] = "storing" => h = g /\ Current(g) /\ status = "Connected"
        /\ Current(g) /\ status = "Connected" => attempt'[g] = "storing"
    BY <2>1, <2>3 DEF GuiInv, GuiTypes
  <2>5. CASE ~Current(g)
    <3>1. held' = held /\ \A h \in Sessions : attempt'[h] # "storing"
      BY <2>1, <2>4, <2>5 DEF Check
    <3>2. GuiTypes' /\ HeldInv' /\ FieldsInv'
      BY <1>2, <1>3, <2>2, <2>4, <3>1
         DEF GuiInv, GuiTypes, HeldInv, FieldsInv, Free, OfSession
    <3>3. ConnectionInv'
      BY <1>2, <2>2, <3>1 DEF GuiInv, ConnectionInv, HasClient, Free, OfSession
    <3> QED BY <1>3, <3>2, <3>3 DEF GuiInv
  <2>6. CASE Current(g)
    <3>1. PICK w : w = [by |-> <<"connect", g>>, session |-> g, what |-> status]
      OBVIOUS
    <3>2. held' = [held EXCEPT !["connection"] = w] /\ g = generation
      BY <2>1, <2>6, <3>1 DEF Check, Current
    <3>3. /\ DOMAIN held' = Fields /\ held'["connection"] = w
          /\ \A other \in Fields \ {"connection"} : held'[other] = held[other]
      BY <1>1, <3>2 DEF GuiInv, GuiTypes
    <3>4. g \in 1 .. generation /\ status \in Statuses /\ w.session = g /\ w.what = status
      BY <3>1, <3>2 DEF GuiInv, GuiTypes, Sessions, Statuses
    <3>5. GuiTypes'
      BY <1>2, <1>3, <2>2, <2>4, <3>3 DEF GuiInv, GuiTypes
    <3>6. HeldInv'
      <4>1. \A field \in Fields : ~Free(field)' => held'[field].session \in 1 .. generation
        BY <3>3, <3>4 DEF GuiInv, HeldInv, Free
      <4>2. \A h \in Sessions : attempt'[h] = "storing" =>
              held'["connection"] =
                [by |-> <<"connect", h>>, session |-> h, what |-> "Connected"]
        BY <2>4, <3>1, <3>3
      <4>3. {"tracked_orders", "orders"} \subseteq Fields \ {"connection"}
        BY DEF GuiInv, Fields
      <4> QED BY <1>2, <3>3, <3>4, <4>1, <4>2, <4>3 DEF GuiInv, HeldInv, Free
    <3>7. FieldsInv'
      <4>1. {"tracked_orders", "orders"} \cup Reports \subseteq Fields \ {"connection"}
        BY DEF GuiInv, Fields
      <4>2. \A other \in Fields \ {"connection"} : OfSession(other) => OfSession(other)'
        BY <1>2, <3>3 DEF OfSession, Free
      <4> QED BY <1>2, <1>3, <4>1, <4>2 DEF GuiInv, FieldsInv
    <3>8. ConnectionInv'
      BY <1>2, <2>2, <2>4, <2>6, <3>2, <3>3, <3>4
         DEF GuiInv, ConnectionInv, HasClient, Free, OfSession
    <3> QED BY <1>3, <3>5, <3>6, <3>7, <3>8 DEF GuiInv
  <2> QED BY <2>5, <2>6
<1>5. CASE StoreClient(g)
  <2>1. /\ attempt[g] = "storing" /\ client' = g /\ held' = held
        /\ attempt' = [attempt EXCEPT ![g] = "connected"]
    BY <1>5 DEF StoreClient
  <2>2. PICK w : w = held["connection"]
    OBVIOUS
  <2>3. /\ w = [by |-> <<"connect", g>>, session |-> g, what |-> "Connected"]
        /\ ~Free("connection")
    BY <2>1, <2>2, WriteIsNotNone DEF GuiInv, HeldInv, Free
  <2>4. g \in 1 .. generation
    <3>1. w.session \in 1 .. generation
      BY <1>1, <2>2, <2>3 DEF GuiInv, HeldInv
    <3>2. w.session = g
      BY <2>3
    <3> QED BY <3>1, <3>2
  <2>5. /\ attempt' \in [Sessions -> {"none", "connecting", "storing", "connected", "over"}]
        /\ \A h \in Sessions : attempt'[h] = "storing" => attempt[h] = "storing"
    BY <2>1 DEF GuiInv, GuiTypes
  <2>6. GuiTypes' /\ HeldInv' /\ FieldsInv'
    BY <1>2, <1>3, <2>1, <2>4, <2>5
       DEF GuiInv, GuiTypes, HeldInv, FieldsInv, Free, OfSession
  <2>7. ui.status = "none" => g = generation
    BY <2>2, <2>3 DEF GuiInv, ConnectionInv, OfSession
  <2>8. ConnectionInv'
    BY <1>2, <2>1, <2>7 DEF GuiInv, ConnectionInv, HasClient, Free, OfSession
  <2> QED BY <1>3, <2>6, <2>8 DEF GuiInv
<1> QED BY <1>4, <1>5

\* The reports and replies of the session that is current.
LEMMA ReportsKeep ==
  ASSUME GuiInv,
         (\E r \in Reports : Report(r)) \/ (\E failed \in BOOLEAN : OtherReply(failed))
  PROVE  GuiInv'
<1>1. /\ UNCHANGED <<generation, connection, client, tracked, orders, report, ui, attempt, submit,
                     poll, engine, owner>>
      /\ generation > 0
  BY DEF Report, OtherReply
<1>0. generation \in 1 .. generation
  BY <1>1 DEF GuiInv, GuiTypes
<1>2. DOMAIN held' = Fields /\ HeldInv' /\ FieldsInv' /\ ConnectionInv'
  <2>1. ASSUME NEW r \in Reports, Report(r)
        PROVE  DOMAIN held' = Fields /\ HeldInv' /\ FieldsInv' /\ ConnectionInv'
    <3>1. r \in Fields /\ r \notin {"connection", "tracked_orders", "orders"}
      BY DEF GuiInv, Fields
    <3>2. PICK who, what : Check(who, generation, r, what)
      BY <2>1 DEF Report
    <3> QED BY <1>0, <1>1, <3>1, <3>2, CheckKeeps
  <2>2. ASSUME NEW failed \in BOOLEAN, OtherReply(failed)
        PROVE  DOMAIN held' = Fields /\ HeldInv' /\ FieldsInv' /\ ConnectionInv'
    BY <1>0, <1>1, <2>2, ReplyKeeps DEF OtherReply
  <2> QED BY <2>1, <2>2
<1>3. GuiTypes' /\ UiInv' /\ OwnersInv'
  BY <1>1, <1>2 DEF GuiInv, GuiTypes, SubmitRecord, PollRecord, UiInv, OwnersInv, Waiting
<1> QED BY <1>2, <1>3 DEF GuiInv

\* A submit worker keeps to the session it was started in, and to its order.
LEMMA SubmitsKeep ==
  ASSUME GuiInv, NEW s \in Slots,
         \/ StartSubmit(s) \/ SubmitEnds(s) \/ Accepted(s) \/ Track(s)
         \/ ReadBack(s) \/ ReadBackEnds(s)
  PROVE  GuiInv'
<1>1. UNCHANGED <<generation, connection, client, tracked, orders, report, ui, attempt, poll,
                  engine, owner>>
  BY DEF StartSubmit, SubmitEnds, Accepted, Track, ReadBack, ReadBackEnds
<1>2. PICK old : old = submit[s]
  OBVIOUS
<1>3. /\ old \in SubmitRecord /\ submit \in [Slots -> SubmitRecord]
      /\ old.phase # "idle" => old.session \in 1 .. generation
      /\ old.phase \in {"accepted", "tracking", "reading", "read"} =>
           old.id \in Ids /\ owner[old.id] = old.session
      /\ old.phase = "read" => old.reply \in Said
      /\ generation \in Nat
  BY <1>2 DEF GuiInv, GuiTypes, OwnersInv, Waiting, SubmitRecord, Ids
<1>4. {"connection", "tracked_orders", "orders"} \subseteq Fields
  BY DEF Fields
<1> DEFINE Locks == DOMAIN held' = Fields /\ HeldInv' /\ FieldsInv' /\ ConnectionInv'
           Goes(w) == /\ w \in SubmitRecord /\ submit' = [submit EXCEPT ![s] = w]
                      /\ w.phase # "idle" => w.session > 0
                      /\ w.phase \in {"accepted", "tracking", "reading", "read"} =>
                           w.id > 0 /\ owner[w.id] = w.session
                      /\ w.phase = "read" => w.reply \in Said
<1>5. ASSUME NEW w, Goes(w), Locks PROVE GuiInv'
  <2>1. GuiTypes' /\ UiInv' /\ OwnersInv'
    BY <1>1, <1>5, SubmitMoves
  <2> QED BY <1>5, <2>1 DEF GuiInv
<1>6. ASSUME held' = held PROVE Locks
  BY <1>1, <1>6, LocksUnchanged
<1>7. Idle \in SubmitRecord /\ Idle.phase = "idle"
  BY <1>3 DEF GuiInv, Idle, SubmitRecord
<1>8. ASSUME NEW phase \in {"tracking", "reading"}, NEW w, w = [old EXCEPT !.phase = phase],
             old.phase \in {"accepted", "tracking"}
      PROVE  /\ w \in SubmitRecord /\ w.session > 0 /\ w.id > 0 /\ owner[w.id] = w.session
             /\ w.phase = phase
  BY <1>3, <1>8 DEF SubmitRecord, Ids
<1>10. CASE StartSubmit(s)
  <2>1. PICK w : w = [Idle EXCEPT !.phase = "asking", !.session = generation]
    OBVIOUS
  <2>2. generation > 0
    BY <1>10 DEF StartSubmit, GuiInv, GuiTypes
  <2>3. submit' = [submit EXCEPT ![s] = w] /\ held' = held
    BY <1>10, <2>1 DEF StartSubmit
  <2>4. w = [phase |-> "asking", session |-> generation, id |-> 0, reply |-> "none"]
    BY <2>1 DEF Idle
  <2>5. Goes(w)
    BY <1>3, <2>2, <2>3, <2>4 DEF GuiInv, SubmitRecord
  <2> QED BY <1>5, <1>6, <2>3, <2>5
<1>11. CASE SubmitEnds(s)
  <2>1. PICK failed \in BOOLEAN : RecordReply(<<"submit", s>>, old.session, failed)
    BY <1>2, <1>11 DEF SubmitEnds
  <2>2. old.session \in 1 .. generation
    BY <1>2, <1>3, <1>11 DEF SubmitEnds
  <2>3. Locks
    BY <1>1, <2>1, <2>2, ReplyKeeps
  <2>4. Goes(Idle)
    BY <1>7, <1>11 DEF SubmitEnds
  <2> QED BY <1>5, <2>3, <2>4
<1>12. CASE Accepted(s)
  <2>1. PICK w : w = [old EXCEPT !.phase = "tracking"]
    OBVIOUS
  <2>2. /\ submit' = [submit EXCEPT ![s] = w] /\ old.phase = "accepted"
        /\ RecordReply(<<"submit", s>>, old.session, FALSE)
    BY <1>2, <1>3, <1>12, <2>1 DEF Accepted
  <2>3. Locks
    BY <1>1, <1>3, <2>2, ReplyKeeps
  <2>4. Goes(w)
    BY <1>8, <2>1, <2>2
  <2> QED BY <1>5, <2>3, <2>4
<1>13. CASE Track(s)
  <2>1. PICK w : w = [old EXCEPT !.phase = "reading"]
    OBVIOUS
  <2>2. PICK what : what = [op |-> "track", id |-> old.id]
    OBVIOUS
  <2>3. /\ submit' = [submit EXCEPT ![s] = w] /\ old.phase = "tracking"
        /\ Check(<<"submit", s>>, old.session, "tracked_orders", what)
    BY <1>2, <1>3, <1>13, <2>1, <2>2 DEF Track
  <2>4. what.id \in Ids /\ owner[what.id] = old.session
    BY <1>3, <2>2, <2>3
  <2>5. Locks
    BY <1>1, <1>3, <1>4, <2>3, <2>4, CheckKeeps
  <2>6. Goes(w)
    BY <1>8, <2>1, <2>3
  <2> QED BY <1>5, <2>5, <2>6
<1>14. CASE ReadBack(s)
  <2>1. PICK reply : reply = engine[old.id]
    OBVIOUS
  <2>2. PICK w : w = [old EXCEPT !.phase = "read", !.reply = reply]
    OBVIOUS
  <2>3. submit' = [submit EXCEPT ![s] = w] /\ held' = held /\ old.phase = "reading"
    BY <1>2, <1>3, <1>14, <2>1, <2>2 DEF ReadBack
  <2>4. reply \in Said
    BY <1>3, <2>1, <2>3 DEF GuiInv, GuiTypes, OwnersInv, Said
  <2>5. /\ w = [phase |-> "read", session |-> old.session, id |-> old.id, reply |-> reply]
    BY <1>3, <2>2 DEF SubmitRecord
  <2>6. Goes(w)
    BY <1>3, <2>3, <2>4, <2>5 DEF SubmitRecord, Ids
  <2> QED BY <1>5, <1>6, <2>3, <2>6
<1>15. CASE ReadBackEnds(s)
  <2>1. old.session \in 1 .. generation
    BY <1>2, <1>3, <1>15 DEF ReadBackEnds
  <2>2. CASE \E failed \in BOOLEAN : RecordReply(<<"submit", s>>, old.session, failed)
    <3>1. Locks
      BY <1>1, <2>1, <2>2, ReplyKeeps
    <3> QED BY <1>5, <1>7, <1>15, <3>1 DEF ReadBackEnds
  <2>3. CASE /\ old.phase = "read" /\ ~NotFound(old.reply)
             /\ Check(<<"submit", s>>, old.session, "orders",
                      [op |-> "update", id |-> old.id, state |-> old.reply])
    <3>1. PICK what : what = [op |-> "update", id |-> old.id, state |-> old.reply]
      OBVIOUS
    <3>2. /\ what.id \in Ids /\ owner[what.id] = old.session
          /\ what.state \in {"WORKING", "FINISHED"}
      BY <1>3, <2>3, <3>1 DEF NotFound, Said
    <3>3. Check(<<"submit", s>>, old.session, "orders", what)
      BY <2>3, <3>1
    <3>4. Locks
      BY <1>1, <1>4, <2>1, <3>2, <3>3, CheckKeeps
    <3> QED BY <1>5, <1>7, <1>15, <3>4 DEF ReadBackEnds
  <2> QED BY <1>2, <1>15, <2>2, <2>3 DEF ReadBackEnds
<1> QED BY <1>10, <1>11, <1>12, <1>13, <1>14, <1>15

\* The engine accepts an order under an id that nothing names yet.
LEMMA AcceptKeeps ==
  ASSUME GuiInv, NEW s \in Slots, Accept(s)
  PROVE  GuiInv'
<1>1. PICK id \in Ids :
        /\ engine[id] = "unborn" /\ engine' = [engine EXCEPT ![id] = "WORKING"]
        /\ owner' = [owner EXCEPT ![id] = submit[s].session]
        /\ submit' = [submit EXCEPT ![s].phase = "accepted", ![s].id = id]
  BY DEF Accept
<1>2. PICK old : old = submit[s]
  OBVIOUS
<1>3. PICK w : w = [old EXCEPT !.phase = "accepted", !.id = id]
  OBVIOUS
<1>4. /\ submit[s].phase = "asking"
      /\ UNCHANGED <<generation, connection, client, tracked, orders, report, held, ui, attempt,
                     poll>>
  BY DEF Accept
<1>5. /\ old \in SubmitRecord /\ old.session \in 1 .. generation /\ generation \in Nat \ {0}
      /\ w = [phase |-> "accepted", session |-> old.session, id |-> id, reply |-> old.reply]
  <2>1. old \in SubmitRecord /\ old.session > 0 /\ generation \in Nat
    BY <1>2, <1>4 DEF GuiInv, GuiTypes, OwnersInv
  <2>2. old.session \in 1 .. generation /\ generation \in Nat \ {0}
    BY <2>1 DEF SubmitRecord
  <2>3. w = [phase |-> "accepted", session |-> old.session, id |-> id, reply |-> old.reply]
    BY <1>3, <2>1 DEF SubmitRecord
  <2> QED BY <2>1, <2>2, <2>3
<1>6. submit' = [submit EXCEPT ![s] = w]
  BY <1>1, <1>2, <1>3, <1>5 DEF GuiInv, GuiTypes
<1>7. /\ submit'[s] = w /\ owner'[id] = old.session /\ engine'[id] = "WORKING"
      /\ \A other \in Slots \ {s} : submit'[other] = submit[other]
      /\ \A other \in Ids \ {id} :
           owner'[other] = owner[other] /\ engine'[other] = engine[other]
  BY <1>1, <1>2, <1>6 DEF GuiInv, GuiTypes
<1>8. owner[id] = 0
  BY <1>1 DEF GuiInv, OwnersInv
<1>9. \A other \in Ids : owner[other] \in Nat \ {0} => owner'[other] = owner[other]
  BY <1>7, <1>8
<1>10. GuiTypes'
  <2>1. SubmitRecord' = SubmitRecord /\ PollRecord' = PollRecord
    BY <1>4 DEF SubmitRecord, PollRecord
  <2>2. w \in SubmitRecord
    BY <1>5 DEF SubmitRecord, Ids
  <2>3. submit' \in [Slots -> SubmitRecord']
    BY <1>6, <2>1, <2>2 DEF GuiInv, GuiTypes
  <2>4. /\ owner' \in [Ids -> 0 .. generation]
        /\ engine' \in [Ids -> {"unborn", "WORKING", "FINISHED", "forgotten"}]
    BY <1>1, <1>2, <1>5 DEF GuiInv, GuiTypes
  <2> QED BY <1>4, <2>1, <2>3, <2>4 DEF GuiInv, GuiTypes
<1>11. UiInv'
  BY <1>4 DEF GuiInv, UiInv
<1>12. OwnersInv'
  <2>1. \A other \in Ids : owner'[other] = 0 <=> engine'[other] = "unborn"
    BY <1>5, <1>7 DEF GuiInv, OwnersInv
  <2>2. ASSUME NEW t \in Slots
        PROVE  /\ submit'[t].phase # "idle" => submit'[t].session > 0
               /\ Waiting(t)' => submit'[t].id > 0 /\ owner'[submit'[t].id] = submit'[t].session
               /\ submit'[t].phase = "read" => submit'[t].reply \in Said
    <3>1. CASE t = s
      BY <1>5, <1>7, <3>1 DEF Ids
    <3>2. CASE t # s
      <4>1. PICK v : v = submit[t]
        OBVIOUS
      <4>2. /\ submit'[t] = v /\ v \in SubmitRecord
            /\ v.phase # "idle" => v.session > 0
            /\ v.phase \in {"accepted", "tracking", "reading", "read"} =>
                 v.id > 0 /\ owner[v.id] = v.session
            /\ v.phase = "read" => v.reply \in Said
        BY <1>7, <3>2, <4>1 DEF GuiInv, GuiTypes, OwnersInv, Waiting
      <4>3. v.session \in Nat /\ v.id \in 0 .. MaxOrders
        BY <1>5, <4>2 DEF SubmitRecord
      <4>4. v.phase \in {"accepted", "tracking", "reading", "read"} => owner'[v.id] = v.session
        BY <1>9, <4>2, <4>3 DEF Ids
      <4> QED BY <4>2, <4>4 DEF Waiting
    <3> QED BY <3>1, <3>2
  <2>3. poll.phase # "idle" =>
          poll.session > 0 /\ \A other \in poll.ids : owner'[other] = poll.session
    BY <1>9 DEF GuiInv, GuiTypes, OwnersInv, PollRecord
  <2>4. poll.phase \in {"asking", "answered", "noted"} =>
          poll.id > 0 /\ owner'[poll.id] = poll.session
    BY <1>9 DEF GuiInv, GuiTypes, OwnersInv, PollRecord, Ids
  <2> QED BY <1>4, <2>1, <2>2, <2>3, <2>4 DEF GuiInv, OwnersInv
<1>13. HeldInv'
  <2>1. {"tracked_orders", "orders"} \subseteq Fields
    BY DEF Fields
  <2> QED BY <1>4, <1>9, <2>1 DEF GuiInv, HeldInv, Free
<1>14. FieldsInv'
  BY <1>4, <1>5, <1>9 DEF GuiInv, GuiTypes, FieldsInv, Free, OfSession, Pending
<1>15. ConnectionInv'
  BY <1>4 DEF GuiInv, ConnectionInv, Free, OfSession, HasClient
<1> QED BY <1>10, <1>11, <1>12, <1>13, <1>14, <1>15 DEF GuiInv

\* The poll keeps to the session it was started in, and to the orders tracked then.
LEMMA PollsKeep ==
  ASSUME GuiInv,
         \/ StartPoll \/ PollNext \/ PollFails \/ PollNoted \/ PollStores
         \/ \E id \in Ids : PollReply(id)
  PROVE  GuiInv'
<1>1. UNCHANGED <<generation, connection, client, tracked, orders, report, ui, attempt, submit,
                  engine, owner>>
  BY DEF StartPoll, PollNext, PollFails, PollNoted, PollStores, PollReply
<1>2. PICK old : old = poll
  OBVIOUS
<1>3. /\ old \in PollRecord /\ generation \in Nat
      /\ old.phase # "idle" =>
           old.session \in 1 .. generation /\ \A id \in old.ids : owner[id] = old.session
      /\ old.phase \in {"asking", "answered", "noted"} =>
           old.id \in Ids /\ owner[old.id] = old.session
      /\ old.phase \in {"answered", "noted"} => old.reply \in Said
  BY <1>2 DEF GuiInv, GuiTypes, OwnersInv, PollRecord, Ids
<1>4. {"connection", "tracked_orders", "orders"} \subseteq Fields
  BY DEF Fields
<1> DEFINE Locks == DOMAIN held' = Fields /\ HeldInv' /\ FieldsInv' /\ ConnectionInv'
           Goes(w) == /\ w \in PollRecord /\ poll' = w
                      /\ w.phase # "idle" =>
                           w.session > 0 /\ \A id \in w.ids : owner[id] = w.session
                      /\ w.phase \in {"asking", "answered", "noted"} =>
                           w.id > 0 /\ owner[w.id] = w.session
                      /\ w.phase \in {"answered", "noted"} => w.reply \in Said
<1>5. ASSUME NEW w, Goes(w), Locks PROVE GuiInv'
  <2>1. GuiTypes' /\ UiInv' /\ OwnersInv'
    BY <1>1, <1>5, PollMoves
  <2> QED BY <1>5, <2>1 DEF GuiInv
<1>6. ASSUME held' = held PROVE Locks
  BY <1>1, <1>6, LocksUnchanged
<1>7. IdlePoll \in PollRecord /\ IdlePoll.phase = "idle"
  BY <1>3 DEF GuiInv, IdlePoll, PollRecord
<1>10. CASE StartPoll
  <2>1. PICK w : w = [IdlePoll EXCEPT !.phase = "next", !.session = generation,
                                         !.ids = ToPoll]
    OBVIOUS
  <2>2. /\ poll' = w /\ held' = held /\ Free("tracked_orders")
        /\ client # 0 /\ ui.clearing = <<>>
    BY <1>10, <2>1 DEF StartPoll, UiIdle
  <2>3. generation > 0
    BY <2>2 DEF GuiInv, GuiTypes
  <2>4. ToPoll \subseteq tracked /\ \A id \in tracked : id \in Ids /\ owner[id] = generation
    BY <2>2 DEF GuiInv, GuiTypes, FieldsInv, Pending, ToSet, ToPoll
  <2>5. w = [phase |-> "next", session |-> generation, ids |-> ToPoll, id |-> 0,
             reply |-> "none"]
    BY <2>1 DEF IdlePoll
  <2>6. w \in PollRecord
    BY <1>3, <2>4, <2>5 DEF GuiInv, PollRecord
  <2>7. Goes(w)
    BY <2>2, <2>3, <2>4, <2>5, <2>6
  <2> QED BY <1>5, <1>6, <2>2, <2>7
<1>11. CASE PollNext
  <2>1. old.phase = "next" /\ held' = held
    BY <1>2, <1>11 DEF PollNext
  <2>2. CASE poll' = IdlePoll
    BY <1>5, <1>6, <1>7, <2>1, <2>2
  <2>3. ASSUME NEW id \in old.ids,
               poll' = [old EXCEPT !.phase = "asking", !.ids = @ \ {id}, !.id = id]
        PROVE  GuiInv'
    <3>1. PICK ids : ids = old.ids \ {id}
      OBVIOUS
    <3>2. PICK w : w = [phase |-> "asking", session |-> old.session, ids |-> ids, id |-> id,
                        reply |-> old.reply]
      OBVIOUS
    <3>3. poll' = w
      <4>1. PICK v : v = [old EXCEPT !.phase = "asking", !.ids = ids, !.id = id]
        OBVIOUS
      <4>2. poll' = v
        BY <2>3, <3>1, <4>1
      <4>3. v = [phase |-> "asking", session |-> old.session, ids |-> ids, id |-> id,
                 reply |-> old.reply]
        BY <1>3, <4>1 DEF PollRecord
      <4> QED BY <3>2, <4>2, <4>3
    <3>4. w \in PollRecord /\ w.id > 0 /\ w.session > 0 /\ owner[w.id] = w.session
          /\ \A other \in w.ids : owner[other] = w.session
      BY <1>3, <2>1, <3>1, <3>2 DEF PollRecord, Ids
    <3>5. Goes(w)
      BY <3>2, <3>3, <3>4
    <3> QED BY <1>5, <1>6, <2>1, <3>5
  <2> QED BY <1>2, <1>11, <2>2, <2>3 DEF PollNext
<1>12. CASE \E id \in Ids : PollReply(id)
  <2>1. PICK reply : reply = engine[old.id]
    OBVIOUS
  <2>2. PICK w : w = [old EXCEPT !.phase = "answered", !.reply = reply]
    OBVIOUS
  <2>3. poll' = w /\ held' = held /\ old.phase = "asking"
    BY <1>2, <1>12, <2>1, <2>2 DEF PollReply
  <2>4. reply \in Said
    BY <1>3, <2>1, <2>3 DEF GuiInv, GuiTypes, OwnersInv, Said
  <2>5. w = [phase |-> "answered", session |-> old.session, ids |-> old.ids, id |-> old.id,
             reply |-> reply]
    BY <1>3, <2>2 DEF PollRecord
  <2>6. w \in PollRecord
    BY <1>3, <2>4, <2>5 DEF GuiInv, PollRecord
  <2>7. Goes(w)
    BY <1>3, <2>3, <2>4, <2>5, <2>6 DEF Ids
  <2> QED BY <1>5, <1>6, <2>3, <2>7
<1>13. CASE PollFails \/ PollNoted
  <2>1. PICK phase \in {"next", "noted"} :
          poll' = [old EXCEPT !.phase = phase] /\ old.phase \in {"asking", "answered"}
          /\ (phase = "noted" => old.phase = "answered")
    BY <1>2, <1>13 DEF PollFails, PollNoted
  <2>2. PICK failed \in BOOLEAN : RecordReply(<<"poll">>, old.session, failed)
    BY <1>2, <1>13 DEF PollFails, PollNoted
  <2>3. Locks
    BY <1>1, <1>3, <2>1, <2>2, ReplyKeeps
  <2>4. PICK w : w = [phase |-> phase, session |-> old.session, ids |-> old.ids, id |-> old.id,
                      reply |-> old.reply]
    OBVIOUS
  <2>5. poll' = w /\ w \in PollRecord
    BY <1>3, <2>1, <2>4 DEF PollRecord
  <2>6. Goes(w)
    <3>1. w.session > 0 /\ \A id \in w.ids : owner[id] = w.session
      BY <1>3, <2>1, <2>4
    <3>2. w.phase = "noted" => w.id > 0 /\ owner[w.id] = w.session /\ w.reply \in Said
      BY <1>3, <2>1, <2>4 DEF Ids
    <3>3. w.phase \in {"next", "noted"}
      BY <2>1, <2>4
    <3> QED BY <2>5, <3>1, <3>2, <3>3
  <2> QED BY <1>5, <2>3, <2>6
<1>14. CASE PollStores
  <2>1. old.phase = "noted" /\ poll' = [old EXCEPT !.phase = "next", !.reply = "none"]
    BY <1>2, <1>14 DEF PollStores
  <2>2. PICK w : w = [phase |-> "next", session |-> old.session, ids |-> old.ids, id |-> old.id,
                      reply |-> "none"]
    OBVIOUS
  <2>3. poll' = w /\ w \in PollRecord
    <3>1. poll' = w
      <4>1. PICK v : v = [old EXCEPT !.phase = "next", !.reply = "none"]
        OBVIOUS
      <4>2. v = [phase |-> "next", session |-> old.session, ids |-> old.ids, id |-> old.id,
                 reply |-> "none"]
        BY <1>3, <4>1 DEF PollRecord
      <4> QED BY <2>1, <2>2, <4>1, <4>2
    <3>2. w \in PollRecord
      BY <1>3, <2>2 DEF PollRecord
    <3> QED BY <3>1, <3>2
  <2>4. Goes(w)
    <3>1. w.session > 0 /\ \A id \in w.ids : owner[id] = w.session
      BY <1>3, <2>1, <2>2
    <3>2. w.phase = "next"
      BY <2>2
    <3> QED BY <2>3, <3>1, <3>2
  <2>5. CASE ~NotFound(old.reply)
    <3>1. PICK what : what = [op |-> "update", id |-> old.id, state |-> old.reply]
      OBVIOUS
    <3>2. Check(<<"poll">>, old.session, "orders", what)
      BY <1>2, <1>14, <2>5, <3>1 DEF PollStores
    <3>3. /\ what.id \in Ids /\ owner[what.id] = old.session
          /\ what.state \in {"WORKING", "FINISHED"}
      BY <1>3, <2>1, <2>5, <3>1 DEF NotFound, Said
    <3>4. Locks
      BY <1>1, <1>3, <1>4, <2>1, <3>2, <3>3, CheckKeeps
    <3> QED BY <1>5, <2>4, <3>4
  <2>6. CASE NotFound(old.reply)
    <3>1. Forget(<<"poll">>, old.session, old.id)
      BY <1>2, <1>14, <2>6 DEF PollStores
    <3>2. CASE ~Current(old.session)
      <4>1. held' = held
        BY <3>1, <3>2 DEF Forget
      <4> QED BY <1>5, <1>6, <2>4, <4>1
    <3>3. CASE Current(old.session)
      <4>1. PICK what : what = [op |-> "forget", id |-> old.id]
        OBVIOUS
      <4>2. PICK v : v = [by |-> <<"poll">>, session |-> old.session, what |-> what]
        OBVIOUS
      <4>3. held' = [held EXCEPT !["tracked_orders"] = v, !["orders"] = v]
        BY <3>1, <3>3, <4>1, <4>2 DEF Forget
      <4>4. /\ v.session = generation /\ v.session \in 1 .. generation /\ v.what.op = "forget"
            /\ v.what.id \in Ids
        BY <1>3, <2>1, <3>3, <4>1, <4>2 DEF Current
      <4>5. /\ DOMAIN held' = Fields /\ held'["tracked_orders"] = v /\ held'["orders"] = v
            /\ \A other \in Fields \ {"tracked_orders", "orders"} : held'[other] = held[other]
        BY <1>4, <4>3 DEF GuiInv, GuiTypes
      <4>6. "connection" \in Fields \ {"tracked_orders", "orders"}
        BY <1>4
      <4>7. HeldInv'
        BY <1>1, <4>4, <4>5, <4>6 DEF GuiInv, HeldInv, Free
      <4>8. FieldsInv'
        <5>1. \A other \in Fields : OfSession(other) => OfSession(other)'
          BY <1>1, <4>4, <4>5 DEF OfSession, Free
        <5>2. Reports \subseteq Fields /\ Pending' = Pending
          BY <1>1 DEF Fields, Pending
        <5> QED BY <1>1, <1>4, <5>1, <5>2 DEF GuiInv, FieldsInv
      <4>9. ConnectionInv'
        BY <1>1, <4>5, <4>6 DEF GuiInv, ConnectionInv, HasClient, OfSession, Free
      <4> QED BY <1>5, <2>4, <4>5, <4>7, <4>8, <4>9
    <3> QED BY <3>2, <3>3
  <2> QED BY <2>5, <2>6
<1> QED BY <1>10, <1>11, <1>12, <1>13, <1>14

\* What the engine does to an order leaves it with its session.
LEMMA EngineKeeps ==
  ASSUME GuiInv, NEW id \in Ids, EngineFinishes(id) \/ EngineForgets(id)
  PROVE  GuiInv'
<1>1. /\ UNCHANGED <<generation, connection, client, tracked, orders, report, held, ui, attempt,
                     submit, poll, owner>>
      /\ engine[id] # "unborn" /\ \E state \in {"FINISHED", "forgotten"} :
                                    engine' = [engine EXCEPT ![id] = state]
  BY DEF EngineFinishes, EngineForgets
<1>2. /\ engine' \in [Ids -> {"unborn", "WORKING", "FINISHED", "forgotten"}]
      /\ \A other \in Ids : engine'[other] = "unborn" <=> engine[other] = "unborn"
  BY <1>1 DEF GuiInv, GuiTypes
<1>3. GuiTypes' /\ UiInv' /\ OwnersInv'
  BY <1>1, <1>2 DEF GuiInv, GuiTypes, SubmitRecord, PollRecord, UiInv, OwnersInv, Waiting
<1> QED BY <1>1, <1>3, LocksUnchanged DEF GuiInv

\* Every step keeps the invariant.
LEMMA NextGui == GuiInv /\ [Next]_(vars) => GuiInv'
<1> SUFFICES ASSUME GuiInv, [Next]_(vars) PROVE GuiInv'
  OBVIOUS
<1>1. CASE UNCHANGED vars
  <2>1. GuiTypes' /\ UiInv' /\ OwnersInv'
    BY <1>1 DEF vars, GuiInv, GuiTypes, SubmitRecord, PollRecord, UiInv, OwnersInv, Waiting
  <2> QED BY <1>1, <2>1, LocksUnchanged DEF vars, GuiInv
<1>2. CASE Next
  BY <1>2, BeginKeeps, ClearKeeps, SetKeeps, WritesKeep, ConnectKeeps, ReportsKeep, SubmitsKeep,
     AcceptKeeps, PollsKeep, EngineKeeps DEF Next
<1> QED BY <1>1, <1>2

\* main.rs:407-413, 489-493: for any number of sessions, workers, orders and reports, once a
\* session has begun the screen shows, and the poll asks for, nothing of an earlier one, and
\* a status that promises a client has the client of this session: however workers that
\* have passed their check, late replies, connects and disconnects interleave.
THEOREM ScreenIsOfSession == Spec => []ScreenOfSession
<1> QED BY InitGui, NextGui, GuiIsSound, PTL DEF Spec
=============================================================================
