------------------------------- MODULE BoardPage -------------------------------
(***************************************************************************)
(* The web page of a session's board: handleBoard and handleEvents of the  *)
(* local server (server.go), and the browser (board.html), which reads the *)
(* board once, opens the event stream, and reads it again on every event.  *)
(* The page shows the board and the session's status, so it depends on all *)
(* the files of SessionHooks and Sidecar.                                  *)
(*                                                                         *)
(* A stamp is the time and size of the files and never comes back: what    *)
(* matters of it is whether it has moved since.  The third file of the     *)
(* stamp, the watch snapshot, is left out.                                 *)
(***************************************************************************)
EXTENDS SessionHooks

CONSTANT Viewed   \* the session whose board the page is of

ASSUME PageAssumption == Viewed \in Session

VARIABLES
  stream,  \* the handler: its place, and whether the files moved since its last stamp
  page     \* the browser: whether it has the page open, shows what is on disk,
           \* its requests, the answers and events on their way to it, and whether
           \* it missed a change

vars == <<sidecarVars, hookVars, stream, page>>

Stream(at) == [at |-> at, moved |-> FALSE]

Init ==
  /\ HooksInit
  /\ stream = Stream("off")
  /\ page = [open |-> FALSE, current |-> FALSE, asks |-> 0,
             fresh |-> 0, stale |-> 0, events |-> 0, missed |-> FALSE]

\* SaveLog writes a line that the model leaves out.
BoardChanged == \/ board'[Viewed] # board[Viewed]
                \/ life[Viewed].at = "save" /\ life'[Viewed].at = "scan"
StatusChanged == Shown(Viewed)' # Shown(Viewed)

MovedBoard == BoardChanged

\* Something moved the stamp.
Moved == BoardChanged \/ StatusChanged

\* What the page shows, and the answers on their way to it, are no longer what is
\* on disk.
Outdated ==
  page' = IF BoardChanged \/ StatusChanged
          THEN [page EXCEPT !.current = FALSE, !.stale = @ + page.fresh, !.fresh = 0]
          ELSE page

FilesChange ==
  /\ HooksNext
  /\ stream' = [stream EXCEPT !.moved = @ \/ (stream.at = "live" /\ Moved)]
  /\ Outdated

-----------------------------------------------------------------------------
(* The browser and its two requests.                                       *)

files == <<sidecarVars, boardVars, pinVars, paneVars, wip, life, cli, now>>

\* The page asks for the board and, not waiting for it, for the stream.
OpenPage ==
  /\ ~page.open
  /\ board[Viewed] # None
  /\ Spend("page")
  /\ page' = [page EXCEPT !.open = TRUE, !.asks = 1]
  /\ stream' = Stream("connecting")
  /\ UNCHANGED files

\* handleBoard loads the board, and then reads the status.
Answer ==
  /\ page.asks > 0
  /\ page' = [page EXCEPT !.asks = @ - 1, !.fresh = @ + 1]
  /\ UNCHANGED <<files, left, stream>>

\* The page will hear of what it does not show.
Coming(p, st) ==
  p.asks > 0 \/ p.fresh > 0 \/ p.events > 0 \/ (st.at = "live" /\ st.moved)

\* Requests run side by side: their answers arrive in any order, and the last to
\* arrive is shown.
ArriveFresh ==
  /\ page.fresh > 0
  /\ page' = [page EXCEPT !.fresh = @ - 1, !.current = TRUE, !.missed = FALSE]
  /\ UNCHANGED <<files, left, stream>>

Overtaken(p) == [p EXCEPT !.missed = @ \/ (page.current /\ ~Coming(p, stream))]

ArriveStale ==
  /\ page.stale > 0
  /\ page' = Overtaken([page EXCEPT !.stale = @ - 1, !.current = FALSE])
  /\ UNCHANGED <<files, left, stream>>

\* A request fails; the browser does not repeat it.
Fail ==
  /\ Spend("drop")
  /\ page.asks > 0
  /\ LET failed == [page EXCEPT !.asks = @ - 1] IN
       page' = [failed EXCEPT !.missed = @ \/ (~page.current /\ ~Coming(failed, stream))]
  /\ UNCHANGED <<files, stream>>

-----------------------------------------------------------------------------
(* handleEvents.                                                           *)

\* The connection is made; the browser makes it again when it is lost.
Connect ==
  /\ stream.at = "connecting"
  /\ stream' = Stream("open")
  /\ UNCHANGED <<files, left, page>>

\* The first stamp is taken, of whatever is there then.
Baseline ==
  /\ stream.at = "open"
  /\ stream' = Stream("live")
  /\ page' = [page EXCEPT !.missed = @ \/ (~page.current /\ ~Coming(page, stream'))]
  /\ UNCHANGED <<files, left>>

Poll ==
  /\ stream.at = "live"
  /\ stream.moved
  /\ stream' = Stream("live")
  /\ page' = [page EXCEPT !.events = @ + 1]
  /\ UNCHANGED <<files, left>>

\* onmessage asks for the board.
Event ==
  /\ page.events > 0
  /\ page' = [page EXCEPT !.events = @ - 1, !.asks = @ + 1]
  /\ UNCHANGED <<files, left, stream>>

Disconnect ==
  /\ stream.at \in {"open", "live"}
  /\ Spend("drop")
  /\ stream' = Stream("connecting")
  /\ page' = [page EXCEPT !.events = 0]
  /\ UNCHANGED files

Arrive == ArriveFresh \/ ArriveStale
Serve == Answer \/ Connect \/ Baseline \/ Poll

Next == FilesChange \/ OpenPage \/ Serve \/ Event \/ Arrive \/ Fail \/ Disconnect

\* The server answers, stamps and polls; what it sends arrives, or is lost, and the
\* browser reads it.  Nothing is asked of the hooks, the users or the clock.
Fairness ==
  /\ WF_vars(Answer) /\ WF_vars(Connect) /\ WF_vars(Baseline) /\ WF_vars(Poll)
  /\ WF_vars(Event) /\ WF_vars(ArriveFresh) /\ WF_vars(ArriveStale)

Spec == Init /\ [][Next]_vars /\ Fairness

-----------------------------------------------------------------------------
(* What the page promises.                                                 *)

\* SPEC: each board is live-updating.  An open page keeps catching up with the board
\* and the status on disk, unless the last it could hear of them fell between its
\* first read and the stream's first stamp, into a lost connection or request, or
\* was overtaken by an older answer.
PageCatchesUp == []<>(page.open => page.current \/ page.missed)
=============================================================================
