------------------------------ MODULE FillFeed ------------------------------
(***************************************************************************)
(* What StreamFills promises (proto/execution.proto:34-37): a subscriber   *)
(* gets the fills from the moment of subscription, in order and without a  *)
(* gap.  The stream ends with DATA_LOSS only if the subscriber has fallen  *)
(* more than Slack fills behind, and without error only when the engine    *)
(* has stopped and the subscriber has every fill.                          *)
(*                                                                         *)
(* Fills are numbered in the order the engine made them.                   *)
(***************************************************************************)
EXTENDS SequencesExt, Integers

CONSTANTS Clients, Slack

VARIABLES
  made,        \* the fills made so far
  stopped,     \* the engine has stopped
  feed         \* per client: its subscription

vars == <<made, stopped, feed>>

NoFeed == [state |-> "none", since |-> 0, got |-> <<>>]

Behind(c) == made - feed[c].since - Len(feed[c].got)

Init ==
  /\ made = 0 /\ stopped = FALSE
  /\ feed = [c \in Clients |-> NoFeed]

Make ==
  /\ ~stopped
  /\ made' = made + 1
  /\ UNCHANGED <<stopped, feed>>

Stop ==
  /\ ~stopped
  /\ stopped' = TRUE
  /\ UNCHANGED <<made, feed>>

Subscribe(c) ==
  /\ feed' = [feed EXCEPT ![c] = [state |-> "open", since |-> made, got |-> <<>>]]
  /\ UNCHANGED <<made, stopped>>

\* The next fill, and no other, arrives.
Deliver(c) ==
  /\ feed[c].state = "open" /\ Behind(c) > 0
  /\ feed' = [feed EXCEPT ![c].got = Append(@, feed[c].since + Len(@) + 1)]
  /\ UNCHANGED <<made, stopped>>

LoseData(c) ==
  /\ feed[c].state = "open" /\ Behind(c) > Slack
  /\ feed' = [feed EXCEPT ![c].state = "data_loss"]
  /\ UNCHANGED <<made, stopped>>

End(c) ==
  /\ feed[c].state = "open" /\ Behind(c) = 0 /\ stopped
  /\ feed' = [feed EXCEPT ![c].state = "ended"]
  /\ UNCHANGED <<made, stopped>>

\* The client goes away.
Leave(c) ==
  /\ feed' = [feed EXCEPT ![c] = NoFeed]
  /\ UNCHANGED <<made, stopped>>

Next ==
  \/ Make
  \/ Stop
  \/ \E c \in Clients :
       Subscribe(c) \/ Deliver(c) \/ LoseData(c) \/ End(c) \/ Leave(c)

Spec == Init /\ [][Next]_vars
=============================================================================
