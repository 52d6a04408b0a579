----------------------------- MODULE SessionHooks -----------------------------
(***************************************************************************)
(* The hooks of an agent's session (hooks.go) and `session-notes pins      *)
(* --due`: SessionStart makes the board and maps the tmux pane to it,      *)
(* PromptSubmit prints what the agent should know (pinned items on a       *)
(* cadence, a note when the board changed), Stop, SessionEnd, StatusLine.  *)
(* Each is a process of its own that reads and writes small files without  *)
(* a lock; users write the board meanwhile, and a hook may be killed.      *)
(*                                                                         *)
(* The agent waits for its hooks one at a time; sessions do not wait for   *)
(* one another.                                                            *)
(***************************************************************************)
EXTENDS Sidecar, Integers

CONSTANTS
  Pane,
  Line,        \* what users write; the hook's own lines are left out
  Pinned,      \* the pinned among them
  Wip,         \* those marked [>]
  Cadence,     \* pinCadence, in ticks of the clock
  Starts       \* the bounds: how often each session starts and each thing happens

ASSUME HooksAssumption ==
  /\ Pinned \subseteq Line /\ Wip \subseteq Line
  /\ None \notin Session \cup Nat
  /\ Cadence \in Nat

VARIABLES
  board,   \* [Session -> the lines of its board; None when there is no file]
  seen,    \* [Session -> .last-seen: "never" written, "upto" the last write of
           \* the board, or "behind" it]
  pins,    \* [Session -> .pins: when which items were injected, or None]
  wip,     \* [Session -> .wip: since when each line is in progress]
  pane,    \* [Pane -> the session its mapping names, or None]
  life,    \* [Session -> the place of its agent or hook, and the hook's variables]
  cli,     \* [Session -> the same for a process of `pins --due`]
  now,
  left,    \* what is left of the bounds
  news,    \* [Session -> what the agent was not told of: "old" writes, and "late"
           \* ones, made while PromptSubmit is between its stat and its stamp]
  told,    \* [Session -> [pinned items -> when they were printed last, or None]]
  cut,     \* [Session -> pinned items whose injection was cut short]
  latest,  \* [Pane -> the session that started there last, until it ends]
  raced    \* the panes in which it did while another's end was removing

boardVars == <<board, seen, news>>
pinVars == <<pins, told, cut>>
paneVars == <<pane, latest, raced>>
hookVars == <<boardVars, pinVars, paneVars, wip, life, cli, now, left>>

Agent(at) == [at |-> at, was |-> FALSE, lines |-> {}, t |-> 0, todo |-> {}, pane |-> None]

HooksInit ==
  /\ SidecarInit
  /\ board = [s \in Session |-> None]
  /\ seen = [s \in Session |-> "never"]
  /\ pins = [s \in Session |-> None]
  /\ wip = [s \in Session |-> [l \in {} |-> 0]]
  /\ pane = [p \in Pane |-> None]
  /\ life = [s \in Session |-> Agent("gone")]
  /\ cli = [s \in Session |-> Agent("off")]
  /\ now = 0
  /\ left \in Starts
  /\ news = [s \in Session |-> {}]
  /\ told = [s \in Session |-> [w \in SUBSET Pinned |-> None]]
  /\ cut = [s \in Session |-> {}]
  /\ latest = [p \in Pane |-> None]
  /\ raced = {}

Spend(what) == left[what] > 0 /\ left' = [left EXCEPT ![what] = @ - 1]

\* RecordActivity, whose update the rest of the hook waits for.
Record(s, kind, at) ==
  /\ Begin(s, "life", kind)
  /\ life' = [life EXCEPT ![s] = Agent(at)]
At(s, place) == life[s].at = place /\ ~Busy(s, "life")
Goes(s, at) == life' = [life EXCEPT ![s].at = at]

InWindow(s) == life[s].at \in {"load", "pins", "store", "print", "digest", "note"}

Written(s, lines) ==
  /\ board' = [board EXCEPT ![s] = lines]
  /\ seen' = [seen EXCEPT ![s] = IF @ = "never" THEN @ ELSE "behind"]
  /\ news' = [news EXCEPT ![s] = @ \cup {IF InWindow(s) THEN "late" ELSE "old"}]

\* A user adds or removes a line, with any of the writers of BoardFile.
Edit(s, l) ==
  /\ board[s] # None
  /\ Spend("edit")
  /\ Written(s, IF l \in board[s] THEN board[s] \ {l} ELSE board[s] \cup {l})
  /\ UNCHANGED <<sidecarVars, pinVars, paneVars, wip, life, cli, now>>

Tick ==
  /\ Spend("tick")
  /\ now' = now + 1
  /\ UNCHANGED <<sidecarVars, boardVars, pinVars, paneVars, wip, life, cli>>

-----------------------------------------------------------------------------
(* SessionStart.                                                           *)

SessionStart(s) ==
  /\ At(s, "gone")
  /\ Spend(s)
  /\ IF board[s] = None THEN Written(s, {}) ELSE UNCHANGED boardVars
  /\ Goes(s, "map")
  /\ UNCHANGED <<sidecarVars, pinVars, paneVars, wip, cli, now>>

Removing(p) == \E o \in Session : life[o].at = "remove" /\ life[o].pane = p

\* Outside tmux there is no pane.
MapPane(s, p) ==
  /\ At(s, "map")
  /\ pane' = [q \in Pane |-> IF q = p THEN s ELSE pane[q]]
  /\ latest' = [q \in Pane |-> IF q = p THEN s ELSE latest[q]]
  /\ raced' = (raced \ {p}) \cup {q \in Pane \cap {p} : Removing(q)}
  /\ Record(s, "working", "ready")
  /\ UNCHANGED <<boardVars, pinVars, wip, cli, now, left>>

-----------------------------------------------------------------------------
(* PromptSubmit.                                                           *)

PromptSubmit(s) ==
  /\ At(s, "ready") \/ At(s, "turn")
  /\ Spend("prompt")
  /\ Record(s, "working", "stat")
  /\ UNCHANGED <<boardVars, pinVars, paneVars, wip, cli, now>>

StatBoard(s) ==
  /\ At(s, "stat")
  /\ life' = [life EXCEPT ![s].at = "load", ![s].was = seen[s] = "behind"]
  /\ UNCHANGED <<sidecarVars, boardVars, pinVars, paneVars, wip, cli, now, left>>

AfterLoad(lines) == IF lines \cap Pinned = {} THEN "digest" ELSE "pins"

LoadBoard(s) ==
  /\ life[s].at = "load"
  /\ life' = [life EXCEPT ![s].at = AfterLoad(board[s]), ![s].lines = board[s], ![s].t = now]
  /\ UNCHANGED <<sidecarVars, boardVars, pinVars, paneVars, wip, cli, now, left>>

\* trackWip keeps the time of the lines that are still in progress.
Digest(s) ==
  /\ life[s].at = "digest"
  /\ wip' = [wip EXCEPT ![s] = [l \in life[s].lines \cap Wip |->
                                  IF l \in DOMAIN wip[s] THEN wip[s][l] ELSE life[s].t]]
  /\ Goes(s, "note")
  /\ UNCHANGED <<sidecarVars, boardVars, pinVars, paneVars, cli, now, left>>

NotedFirst(s) == seen[s] = "never"

\* The board was newer than the stamp, and there was one.
Noted(s) == seen[s] # "never" /\ life[s].was

\* touch stamps the time it runs at, not the one of the board it has loaded.
Note(s) ==
  /\ life[s].at = "note"
  /\ seen' = [seen EXCEPT ![s] = "upto"]
  /\ news' = [news EXCEPT ![s] = IF Noted(s) \/ seen[s] = "never" THEN {} ELSE @ \ {"late"}]
  /\ life' = [life EXCEPT ![s] = Agent("turn")]
  /\ UNCHANGED <<sidecarVars, board, pinVars, paneVars, wip, cli, now, left>>

-----------------------------------------------------------------------------
(* pinsDue, in PromptSubmit and in `pins --due`: p is the process, which    *)
(* has loaded the board.                                                   *)

Pins(p) == p.lines \cap Pinned

DueOnChange(s, p) == pins[s] = None \/ pins[s].what # Pins(p)

Due(s, p) ==
  \/ pins[s] = None
  \/ pins[s].what # Pins(p)
  \/ p.t - pins[s].at > Cadence

\* Decided on what the file says, which another process may write next.
Decided(s, p, rest) == [p EXCEPT !.at = IF Due(s, p) THEN "store" ELSE rest]

Stored(s, p) == pins' = [pins EXCEPT ![s] = [what |-> Pins(p), at |-> p.t]]

Printed(s, p) ==
  /\ told' = [told EXCEPT ![s][Pins(p)] = now]
  /\ cut' = [cut EXCEPT ![s] = @ \ {Pins(p)}]

HookPins(s) ==
  \/ /\ life[s].at = "pins"
     /\ life' = [life EXCEPT ![s] = Decided(s, @, "digest")]
     /\ UNCHANGED pinVars
  \/ /\ life[s].at = "store"
     /\ Stored(s, life[s])
     /\ Goes(s, "print")
     /\ UNCHANGED <<told, cut>>
  \/ /\ life[s].at = "print"
     /\ Printed(s, life[s])
     /\ Goes(s, "digest")
     /\ UNCHANGED pins

CliPins(s) ==
  \/ /\ cli[s].at = "off"
     /\ board[s] # None
     /\ board[s] \cap Pinned # {}
     /\ Spend("pin")
     /\ cli' = [cli EXCEPT ![s] = [@ EXCEPT !.at = "pins", !.lines = board[s], !.t = now]]
     /\ UNCHANGED pinVars
  \/ /\ cli[s].at = "pins"
     /\ cli' = [cli EXCEPT ![s] = Decided(s, @, "off")]
     /\ UNCHANGED <<pinVars, left>>
  \/ /\ cli[s].at = "store"
     /\ Stored(s, cli[s])
     /\ cli' = [cli EXCEPT ![s].at = "print"]
     /\ UNCHANGED <<told, cut, left>>
  \/ /\ cli[s].at = "print"
     /\ Printed(s, cli[s])
     /\ cli' = [cli EXCEPT ![s] = Agent("off")]
     /\ UNCHANGED <<pins, left>>

PinsDue(s) ==
  /\ \/ HookPins(s) /\ UNCHANGED <<cli, left>>
     \/ CliPins(s) /\ UNCHANGED life
  /\ UNCHANGED <<sidecarVars, boardVars, paneVars, wip, now>>

-----------------------------------------------------------------------------
(* Stop, SessionEnd and StatusLine.                                        *)

Stop(s) ==
  /\ At(s, "turn")
  /\ Record(s, "idle", "ready")
  /\ UNCHANGED <<boardVars, pinVars, paneVars, wip, cli, now, left>>

SessionEnd(s) ==
  /\ At(s, "ready") \/ At(s, "turn")
  /\ Record(s, "ended", "log")
  /\ latest' = [p \in Pane |-> IF latest[p] = s THEN None ELSE latest[p]]
  /\ UNCHANGED <<boardVars, pinVars, pane, raced, wip, cli, now, left>>

\* The end is logged in the tree that was loaded, and that tree is saved.
LoadToLog(s) ==
  /\ At(s, "log")
  /\ life' = [life EXCEPT ![s].at = "save", ![s].lines = board[s]]
  /\ UNCHANGED <<sidecarVars, boardVars, pinVars, paneVars, wip, cli, now, left>>

SaveLog(s) ==
  /\ life[s].at = "save"
  /\ Written(s, life[s].lines)
  /\ life' = [life EXCEPT ![s] = [Agent("scan") EXCEPT !.todo = Pane]]
  /\ UNCHANGED <<sidecarVars, pinVars, paneVars, wip, cli, now, left>>

PointsAnywhere(s, p) == pane[p] # None

\* A mapping is removed that names the session.
PointsHere(s, p) == pane[p] = s

ReadPane(s) ==
  /\ life[s].at = "scan"
  /\ \E p \in life[s].todo :
       life' = [life EXCEPT ![s].todo = @ \ {p}, ![s].pane = p,
                            ![s].at = IF PointsHere(s, p) THEN "remove" ELSE "scan"]
  /\ UNCHANGED <<sidecarVars, boardVars, pinVars, paneVars, wip, cli, now, left>>

RemovePane(s) ==
  /\ life[s].at = "remove"
  /\ pane' = [pane EXCEPT ![life[s].pane] = None]
  /\ Goes(s, "scan")
  /\ UNCHANGED <<sidecarVars, boardVars, pinVars, latest, raced, wip, cli, now, left>>

Ended(s) ==
  /\ life[s].at = "scan" /\ life[s].todo = {}
  /\ life' = [life EXCEPT ![s] = Agent("gone")]
  /\ UNCHANGED <<sidecarVars, boardVars, pinVars, paneVars, wip, cli, now, left>>

StatusLine(s) ==
  /\ life[s].at # "gone"
  /\ Spend("line")
  /\ \E m \in Model : Begin(s, "line", m)
  /\ UNCHANGED <<boardVars, pinVars, paneVars, wip, life, cli, now>>

Update(s) ==
  /\ \E w \in Writer : Open(s, w) \/ Fill(s, w) \/ Rename(s, w)
  /\ UNCHANGED hookVars

\* A process is killed; a prompt goes on without its hook, and a session ends.
Resting == {"gone", "ready", "turn"}
Without(at) == CASE at \in Resting -> at
                 [] at = "map" -> "ready"
                 [] at \in {"log", "save", "scan", "remove"} -> "gone"
                 [] OTHER -> "turn"

\* What was stored and not printed counts as injected.
CutShort(p) == {w \in {Pins(p)} : p.at = "print"}

KillHook(s) ==
  /\ life[s].at \notin Resting \/ Busy(s, "life")
  /\ Spend("kill")
  /\ Killed(s, "life")
  /\ life' = [life EXCEPT ![s] = Agent(Without(@.at))]
  /\ cut' = [cut EXCEPT ![s] = @ \cup CutShort(life[s])]
  /\ news' = [news EXCEPT ![s] = IF @ = {} THEN {} ELSE {"old"}]
  /\ UNCHANGED <<sidecar, tmp, ink, want, doubt, board, seen, pins, told, paneVars, wip, cli, now>>

KillLine(s) ==
  /\ Busy(s, "line")
  /\ Spend("kill")
  /\ Killed(s, "line")
  /\ UNCHANGED <<sidecar, tmp, ink, want, doubt, boardVars, pinVars, paneVars, wip, life, cli, now>>

KillCli(s) ==
  /\ cli[s].at # "off"
  /\ Spend("kill")
  /\ cli' = [cli EXCEPT ![s] = Agent("off")]
  /\ cut' = [cut EXCEPT ![s] = @ \cup CutShort(cli[s])]
  /\ UNCHANGED <<sidecarVars, boardVars, pins, told, paneVars, wip, life, now>>

Prompt(s) == PromptSubmit(s) \/ StatBoard(s) \/ LoadBoard(s) \/ PinsDue(s) \/ Digest(s) \/ Note(s)
End(s) == SessionEnd(s) \/ LoadToLog(s) \/ SaveLog(s) \/ ReadPane(s) \/ RemovePane(s) \/ Ended(s)
Kill(s) == KillHook(s) \/ KillLine(s) \/ KillCli(s)

HooksNext ==
  \/ \E s \in Session :
       \/ SessionStart(s) \/ \E p \in Pane \cup {None} : MapPane(s, p)
       \/ Prompt(s) \/ Stop(s) \/ End(s)
       \/ StatusLine(s) \/ Update(s)
       \/ \E l \in Line : Edit(s, l)
       \/ Kill(s)
  \/ Tick

-----------------------------------------------------------------------------
(* What the hooks promise.                                                 *)

Places == Resting \cup {"map", "stat", "load", "pins", "store", "print", "digest", "note",
                        "log", "save", "scan", "remove"}
Process(places) ==
  [at : places, was : BOOLEAN, lines : SUBSET Line, t : 0 .. now,
   todo : SUBSET Pane, pane : Pane \cup {None}]

\* The shape of the state.  No process has a time that has not come; a session that
\* runs has a board.
HooksTypeOK ==
  /\ SidecarTypeOK
  /\ now \in Nat
  /\ board \in [Session -> {None} \cup SUBSET Line]
  /\ seen \in [Session -> {"never", "upto", "behind"}]
  /\ news \in [Session -> SUBSET {"old", "late"}]
  /\ pins \in [Session -> {None} \cup [what : SUBSET Pinned, at : 0 .. now]]
  /\ told \in [Session -> [SUBSET Pinned -> {None} \cup (0 .. now)]]
  /\ cut \in [Session -> SUBSET SUBSET Pinned]
  /\ wip \in [Session -> UNION {[l -> 0 .. now] : l \in SUBSET Wip}]
  /\ pane \in [Pane -> Session \cup {None}]
  /\ latest \in [Pane -> Session \cup {None}]
  /\ raced \in SUBSET Pane
  /\ life \in [Session -> Process(Places)]
  /\ cli \in [Session -> Process({"off", "pins", "store", "print"})]
  /\ \A s \in Session : life[s].at # "gone" => board[s] \in SUBSET Line

\* README: prompt-submit says so when the board was edited since the agent last
\* looked.  A change it has not told of, other than one made between its stat of
\* the board and its stamp, leaves the board newer than the stamp: the next prompt
\* tells.
NewsIsKept ==
  \A s \in Session :
    ~InWindow(s) /\ "old" \in news[s] /\ seen[s] # "never" => seen[s] = "behind"

\* README: pinned items are injected again on a cadence.  When prompt-submit is
\* past its pins, they were printed within the cadence, by it or by `pins --due`
\* with which it shares the file, unless a process was killed before it printed,
\* or is about to.
PinsReach ==
  \A s \in Session :
    LET w == Pins(life[s]) IN
      life[s].at = "digest" /\ w # {} =>
        \/ told[s][w] # None /\ life[s].t - told[s][w] <= Cadence
        \/ w \in cut[s]
        \/ cli[s].at = "print" /\ Pins(cli[s]) = w

\* README: the pane always shows the latest session started there, also when an
\* earlier one ends late; unless it started just while the other was removing.
PaneShowsLatest ==
  \A p \in Pane :
    latest[p] # None /\ p \notin raced => pane[p] = latest[p]
=============================================================================
