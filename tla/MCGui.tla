-------------------------------- MODULE MCGui --------------------------------
(***************************************************************************)
(* The fills page of a GUI.  Session and client are those of TraderGui,    *)
(* whose other fields have locks of their own and are left as they began:  *)
(* no step of the fill stream worker reads them.                           *)
(***************************************************************************)
EXTENDS TraderGui

CONSTANTS MaxMade, MaxFills

VARIABLES clearing, connecting, worker, fills, stream_status, made

Page == INSTANCE FillStream

ASSUME PageConstants == Page!StreamAssumption

others == <<connection, tracked, orders, report, held, ui, attempt, submit, poll, engine, owner>>

PageSpec ==
  /\ Init /\ Page!Init
  /\ [][Page!Next /\ UNCHANGED others]_<<Page!vars, others>>
  /\ Page!Fairness

\* main.rs:1535-1537, 1593-1601: rows and status of the page are of the current session,
\* each fill once and in order, and live is said only while its worker reads.
PageOfSession == Page!PageOfSession

\* main.rs:1536-1537: the worker of a session that is over ends.
OldStreamEnds == Page!OldStreamEnds

\* main.rs:1535: while a session lasts, its page is live again after each end of its stream.
LiveAgain == Page!LiveAgain
=============================================================================
