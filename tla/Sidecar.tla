-------------------------------- MODULE Sidecar --------------------------------
(***************************************************************************)
(* The status sidecar of a session (status.go): model, activity and the    *)
(* rest of what the footers show.  Two programs keep it, the status line   *)
(* and the lifecycle hooks, each through UpdateStatus: read the record,    *)
(* change some fields, write a temporary file of one fixed name, rename    *)
(* it.  There is no lock.                                                  *)
(*                                                                         *)
(* Files are inodes: a writer that opened the temporary file goes on       *)
(* writing into it when another has renamed it away.                       *)
(***************************************************************************)
EXTENDS Naturals

CONSTANTS
  Session,
  Model,    \* what the status line may find
  Inode,    \* enough for the sidecar, the temporary file and one per writer
  None      \* no model, no activity, no file

Activity == {"working", "idle", "ended"}

ASSUME SidecarAssumption ==
  /\ None \notin Model \cup Activity \cup Inode
  /\ \A a, b, c \in Inode \cup {None} : \E i \in Inode : i \notin {a, b, c}

\* The statusline command and the hooks of the session's lifecycle.
Writer == {"line", "life"}
Other(w) == CHOOSE o \in Writer : o # w

Field == {"model", "activity"}
Own(w) == IF w = "line" THEN "model" ELSE "activity"

VARIABLES
  sidecar,  \* [Session -> the inode of <session>.status, or None]
  tmp,      \* [Session -> the inode of <session>.status.tmp, or None]
  ink,      \* [Session -> [Inode -> the records that can be read in it: one;
            \* none when it is empty or torn]]
  upd,      \* [Session -> [Writer -> where its UpdateStatus is, the record it
            \* writes, the inode it has open, whether it has been alone]]
  want,     \* what the last update of each field said
  doubt     \* the fields that updates in each other's way have left in doubt

sidecarVars == <<sidecar, tmp, ink, upd, want, doubt>>

NoRecord == [model |-> None, activity |-> None]
NoUpdate == [at |-> "off", rec |-> NoRecord, fd |-> None, alone |-> TRUE]

SidecarInit ==
  /\ sidecar = [s \in Session |-> None]
  /\ tmp = [s \in Session |-> None]
  /\ ink = [s \in Session |-> [i \in Inode |-> {}]]
  /\ upd = [s \in Session |-> [w \in Writer |-> NoUpdate]]
  /\ want = [s \in Session |-> NoRecord]
  /\ doubt = [s \in Session |-> {}]

\* ReadStatus: a missing or unparseable sidecar reads as none.
ReadStatus(s) == IF sidecar[s] = None THEN {} ELSE ink[s][sidecar[s]]

\* What the web page and the TUI's footer have to show.
Shown(s) == IF ReadStatus(s) = {} THEN NoRecord ELSE CHOOSE r \in ReadStatus(s) : TRUE

\* The status line gives the model, and an activity where there is none yet; the
\* hooks give the activity.
Merged(r, w, v) ==
  IF w = "life" THEN [r EXCEPT !.activity = v]
  ELSE [r EXCEPT !.model = v, !.activity = IF @ = None THEN "working" ELSE @]

Busy(s, w) == upd[s][w].at # "off"

\* UpdateStatus reads and changes the record.
Begin(s, w, v) ==
  /\ ~Busy(s, w)
  /\ upd' = [upd EXCEPT
       ![s][w] = [at |-> "open", rec |-> Merged(Shown(s), w, v), fd |-> None,
                  alone |-> ~Busy(s, Other(w))],
       ![s][Other(w)].alone = @ /\ ~Busy(s, Other(w))]
  /\ UNCHANGED <<sidecar, tmp, ink, want, doubt>>

InUse(s) == {sidecar[s], tmp[s]} \cup {upd[s][w].fd : w \in Writer}

OpenedInPlace(s) == IF sidecar[s] # None THEN sidecar[s] ELSE CHOOSE i \in Inode : i \notin InUse(s)

\* WriteFile truncates the temporary file that is there, whoever's it is.
Opened(s) == IF tmp[s] # None THEN tmp[s] ELSE CHOOSE i \in Inode : i \notin InUse(s)

Open(s, w) ==
  /\ upd[s][w].at = "open"
  /\ tmp' = [tmp EXCEPT ![s] = Opened(s)]
  /\ ink' = [ink EXCEPT ![s][Opened(s)] = {}]
  /\ upd' = [upd EXCEPT ![s][w].at = "fill", ![s][w].fd = Opened(s)]
  /\ UNCHANGED <<sidecar, want, doubt>>

\* Its record replaces what is there from the first byte on; a longer record
\* keeps its tail, and then nothing can be read.
Fill(s, w) ==
  LET u == upd[s][w] IN
    /\ u.at = "fill"
    /\ \E left \in {{u.rec}} \cup (IF u.alone THEN {} ELSE {{}}) :
         ink' = [ink EXCEPT ![s][u.fd] = left]
    /\ upd' = [upd EXCEPT ![s][w].at = "rename"]
    /\ UNCHANGED <<sidecar, tmp, want, doubt>>

\* The rename fails when there is no temporary file any more, and that is that.
Rename(s, w) ==
  LET u == upd[s][w] IN
    /\ u.at = "rename"
    /\ sidecar' = [sidecar EXCEPT ![s] = IF tmp[s] = None THEN @ ELSE tmp[s]]
    /\ tmp' = [tmp EXCEPT ![s] = None]
    /\ upd' = [upd EXCEPT ![s][w] = NoUpdate]
    /\ want' = [want EXCEPT ![s] = Merged(@, w, u.rec[Own(w)])]
    /\ doubt' = [doubt EXCEPT ![s] = IF u.alone THEN @ \ {Own(w)} ELSE Field]
    /\ UNCHANGED ink

\* The writer is killed.
Killed(s, w) == upd' = [upd EXCEPT ![s][w] = NoUpdate]

-----------------------------------------------------------------------------
SessionStatus == [model : Model \cup {None}, activity : Activity \cup {None}]
UpdateStatus == [at : {"off", "open", "fill", "rename"}, rec : SessionStatus,
                 fd : Inode \cup {None}, alone : BOOLEAN]

\* The shape of the state.
SidecarTypeOK ==
  /\ sidecar \in [Session -> Inode \cup {None}]
  /\ tmp \in [Session -> Inode \cup {None}]
  /\ ink \in [Session -> [Inode -> SUBSET SessionStatus]]
  /\ upd \in [Session -> [Writer -> UpdateStatus]]
  /\ want \in [Session -> SessionStatus]
  /\ doubt \in [Session -> SUBSET Field]

\* status.go: the two writers merge, and a killed one breaks nothing: each field
\* reads as its last update left it, unless two updates were under way together
\* and its own writer has not updated it alone since.
SidecarMerges ==
  \A s \in Session : \A f \in Field \ doubt[s] : Shown(s)[f] = want[s][f]
=============================================================================
