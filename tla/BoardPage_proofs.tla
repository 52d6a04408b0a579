---------------------------- MODULE BoardPage_proofs ----------------------------
(***************************************************************************)
(* What TLAPS proves of the hooks and the status sidecar, for any number   *)
(* of sessions, panes, lines and inodes, with any bounds, and with killed  *)
(* processes.                                                              *)
(***************************************************************************)
EXTENDS BoardPage, TLAPS

-----------------------------------------------------------------------------
(* The status sidecar.                                                     *)
(*                                                                         *)
(* The argument: an update that is alone has read what the sidecar says,   *)
(* and writes into an inode that is not the sidecar's; an update that is   *)
(* not alone may, but only after another of those it met has renamed, and  *)
(* then every field is in doubt.                                           *)

\* An update that is alone, as far as it has come.
AloneSound(s, w) ==
  LET u == upd[s][w] IN
    /\ ~Busy(s, Other(w))
    /\ u.rec = Merged(Shown(s), w, u.rec[Own(w)])
    /\ u.at # "open" => tmp[s] = u.fd /\ u.fd # None
    /\ u.at = "rename" => ink[s][u.fd] = {u.rec}

SidecarSound(s) ==
  /\ tmp[s] # None => tmp[s] # sidecar[s]
  /\ \A w \in Writer :
       /\ upd[s][w].at \in {"fill", "rename"} <=> upd[s][w].fd # None
       /\ upd[s][w].fd # None /\ upd[s][w].fd = sidecar[s] => doubt[s] = Field
       /\ Busy(s, w) /\ upd[s][w].alone => AloneSound(s, w)
  /\ \A f \in Field \ doubt[s] : Shown(s)[f] = want[s][f]

SidecarInv == SidecarTypeOK /\ \A s \in Session : SidecarSound(s)

\* One step of one of the writers of one session, or its death.
UpdateStep ==
  \E s \in Session, w \in Writer :
    \/ \E v \in Model \cup Activity :
         Begin(s, w, v) /\ (w = "line" => v \in Model) /\ (w = "life" => v \in Activity)
    \/ Open(s, w) \/ Fill(s, w) \/ Rename(s, w)
    \/ Killed(s, w) /\ UNCHANGED <<sidecar, tmp, ink, want, doubt>>

\* The two writers are each other's other.
LEMMA Others ==
  /\ Other("line") = "life" /\ Other("life") = "line"
  /\ \A w \in Writer : Other(w) \in Writer /\ Other(w) # w /\ Other(Other(w)) = w
  /\ \A w \in Writer : \A v \in Writer : v = w \/ v = Other(w)
BY DEF Other, Writer

LEMMA MergedType ==
  ASSUME NEW r \in SessionStatus, NEW w \in Writer, NEW v,
         w = "line" => v \in Model, w = "life" => v \in Activity
  PROVE  /\ Merged(r, w, v) \in SessionStatus
         /\ Merged(r, w, v)[Own(w)] = v
BY DEF SessionStatus, Merged, Writer, Own, Activity

\* What a reader is shown is a record.
LEMMA ShownType == SidecarTypeOK => \A s \in Session : Shown(s) \in SessionStatus
<1> SUFFICES ASSUME SidecarTypeOK, NEW s \in Session PROVE Shown(s) \in SessionStatus
  OBVIOUS
<1>1. NoRecord \in SessionStatus
  BY DEF NoRecord, SessionStatus
<1>2. ReadStatus(s) \in SUBSET SessionStatus
  BY DEF ReadStatus, SidecarTypeOK, SessionStatus
<1>3. CASE ReadStatus(s) = {}
  BY <1>1, <1>3 DEF Shown
<1>4. CASE ReadStatus(s) # {}
  BY <1>2, <1>4 DEF Shown
<1> QED BY <1>3, <1>4

LEMMA FreeInode ==
  ASSUME NEW a \in Inode \cup {None}, NEW b \in Inode \cup {None}
  PROVE  \E i \in Inode : i \notin {a, None, b}
<1>1. \A x, y, z \in Inode \cup {None} : \E i \in Inode : i \notin {x, y, z}
  BY SidecarAssumption
<1>2. None \in Inode \cup {None}
  OBVIOUS
<1> QED BY <1>1, <1>2, Zenon

\* Opening takes the temporary file that is there, or an inode nobody uses.
LEMMA OpenedType ==
  ASSUME SidecarInv, NEW s \in Session, NEW w \in Writer, upd[s][w].at = "open"
  PROVE  /\ Opened(s) \in Inode
         /\ Opened(s) # sidecar[s]
         /\ tmp[s] = None => \A v \in Writer : Opened(s) # upd[s][v].fd
<1>1. CASE tmp[s] # None
  BY <1>1 DEF SidecarInv, SidecarTypeOK, SidecarSound, Opened
<1>2. CASE tmp[s] = None
  <2> DEFINE o == upd[s][Other(w)].fd
  <2>0. upd[s][Other(w)] \in UpdateStatus /\ sidecar[s] \in Inode \cup {None}
    BY Others DEF SidecarInv, SidecarTypeOK
  <2>1. upd[s][w].fd = None /\ o \in Inode \cup {None}
    BY <2>0 DEF SidecarInv, SidecarSound, UpdateStatus
  <2>2. InUse(s) = {sidecar[s], None, o}
    BY <1>2, <2>1, Others DEF InUse
  <2>3. \E i \in Inode : i \notin InUse(s)
    <3> HIDE DEF o
    <3>1. \E i \in Inode : i \notin {sidecar[s], None, o}
      BY <2>0, <2>1, FreeInode
    <3> QED BY <2>2, <3>1
  <2>4. Opened(s) \in Inode /\ Opened(s) \notin InUse(s)
    BY <1>2, <2>3 DEF Opened
  <2> QED BY <1>2, <2>4 DEF InUse
<1> QED BY <1>1, <1>2

\* Every step of an update keeps the types.
LEMMA UpdateTypes ==
  ASSUME SidecarInv, UpdateStep
  PROVE  SidecarTypeOK'
<1> USE DEF SidecarTypeOK
<1>0. SidecarTypeOK
  BY DEF SidecarInv
<1>1. PICK s \in Session, w \in Writer :
        \/ \E v \in Model \cup Activity :
             Begin(s, w, v) /\ (w = "line" => v \in Model) /\ (w = "life" => v \in Activity)
        \/ Open(s, w) \/ Fill(s, w) \/ Rename(s, w)
        \/ Killed(s, w) /\ UNCHANGED <<sidecar, tmp, ink, want, doubt>>
  BY DEF UpdateStep
<1>2. /\ upd[s][w] \in UpdateStatus /\ upd[s][Other(w)] \in UpdateStatus
      /\ NoUpdate \in UpdateStatus
  BY <1>0, Others DEF NoUpdate, NoRecord, UpdateStatus, SessionStatus
<1>3. ASSUME NEW v \in Model \cup Activity, Begin(s, w, v),
             w = "line" => v \in Model, w = "life" => v \in Activity
      PROVE  SidecarTypeOK'
  <2>1. Merged(Shown(s), w, v) \in SessionStatus
    BY <1>0, <1>3, ShownType, MergedType
  <2> DEFINE mine == [at |-> "open", rec |-> Merged(Shown(s), w, v), fd |-> None,
                      alone |-> ~Busy(s, Other(w))]
             other == [upd[s][Other(w)] EXCEPT !.alone = @ /\ ~Busy(s, Other(w))]
  <2>2. mine \in UpdateStatus /\ other \in UpdateStatus
    BY <1>2, <2>1 DEF UpdateStatus, Busy
  <2>3. upd' = [upd EXCEPT ![s] = [@ EXCEPT ![w] = mine, ![Other(w)] = other]]
    BY <1>0, <1>3, Others, ZenonT(30) DEF Begin
  <2> HIDE DEF mine, other
  <2>4. upd' \in [Session -> [Writer -> UpdateStatus]]
    BY <1>0, <2>2, <2>3, Others
  <2> QED BY <1>0, <1>3, <2>4 DEF Begin
<1>4. CASE Open(s, w)
  <2> DEFINE mine == [upd[s][w] EXCEPT !.at = "fill", !.fd = Opened(s)]
  <2>1. Opened(s) \in Inode
    BY <1>4, OpenedType DEF Open
  <2>2. mine \in UpdateStatus
    BY <1>2, <2>1 DEF UpdateStatus
  <2>3. upd' = [upd EXCEPT ![s] = [@ EXCEPT ![w] = mine]]
    BY <1>0, <1>4 DEF Open
  <2> HIDE DEF mine
  <2>4. upd' \in [Session -> [Writer -> UpdateStatus]]
    BY <1>0, <2>2, <2>3
  <2>5. tmp' \in [Session -> Inode \cup {None}] /\ ink' \in [Session -> [Inode -> SUBSET SessionStatus]]
    BY <1>0, <1>4, <2>1 DEF Open
  <2> QED BY <1>0, <1>4, <2>4, <2>5 DEF Open
<1>5. CASE Fill(s, w)
  <2>1. upd[s][w].fd # None
    BY <1>5 DEF Fill, SidecarInv, SidecarSound
  <2>2. PICK kept \in SUBSET SessionStatus : ink' = [ink EXCEPT ![s][upd[s][w].fd] = kept]
    BY <1>2, <1>5 DEF Fill, UpdateStatus
  <2>3. ink' \in [Session -> [Inode -> SUBSET SessionStatus]]
    BY <1>0, <1>2, <2>1, <2>2 DEF UpdateStatus
  <2> DEFINE mine == [upd[s][w] EXCEPT !.at = "rename"]
  <2>4. mine \in UpdateStatus
    BY <1>2 DEF UpdateStatus
  <2>5. upd' = [upd EXCEPT ![s] = [@ EXCEPT ![w] = mine]]
    BY <1>0, <1>5 DEF Fill
  <2> HIDE DEF mine
  <2>6. upd' \in [Session -> [Writer -> UpdateStatus]]
    BY <1>0, <2>4, <2>5
  <2> QED BY <1>0, <1>5, <2>3, <2>6 DEF Fill
<1>6. CASE Rename(s, w)
  <2>1. Merged(want[s], w, upd[s][w].rec[Own(w)]) \in SessionStatus
    BY <1>0, <1>2 DEF Merged, UpdateStatus, SessionStatus, Own, Writer, Activity
  <2>2. (IF upd[s][w].alone THEN doubt[s] \ {Own(w)} ELSE Field) \in SUBSET Field
    BY <1>0
  <2> QED BY <1>0, <1>2, <1>6, <2>1, <2>2 DEF Rename
<1>7. CASE Killed(s, w) /\ UNCHANGED <<sidecar, tmp, ink, want, doubt>>
  BY <1>0, <1>2, <1>7 DEF Killed
<1> QED BY <1>1, <1>3, <1>4, <1>5, <1>6, <1>7

\* A session whose files and updates a step leaves alone stays sound.
LEMMA OthersSound ==
  ASSUME NEW x \in Session, SidecarSound(x),
         sidecar'[x] = sidecar[x], tmp'[x] = tmp[x], ink'[x] = ink[x], upd'[x] = upd[x],
         want'[x] = want[x], doubt'[x] = doubt[x]
  PROVE  SidecarSound(x)'
<1>1. Shown(x)' = Shown(x)
  BY DEF Shown, ReadStatus
<1>2. \A w \in Writer : Busy(x, w)' = Busy(x, w)
  BY DEF Busy
<1>3. ASSUME NEW w \in Writer PROVE AloneSound(x, w)' <=> AloneSound(x, w)
  BY <1>1, <1>2, Others DEF AloneSound
<1> QED BY <1>1, <1>2, <1>3 DEF SidecarSound

\* Reading changes no file; who is not alone any more owes nothing.
LEMMA BeginSound ==
  ASSUME SidecarInv, NEW s \in Session, NEW w \in Writer, NEW v, Begin(s, w, v),
         w = "line" => v \in Model, w = "life" => v \in Activity
  PROVE  SidecarSound(s)'
<1> DEFINE o == Other(w)
<1>1. /\ SidecarTypeOK /\ SidecarSound(s) /\ o \in Writer /\ o # w /\ Other(o) = w
      /\ \A u \in Writer : u = w \/ u = o
  BY Others DEF SidecarInv
<1>2. /\ upd'[s][w] = [at |-> "open", rec |-> Merged(Shown(s), w, v), fd |-> None,
                       alone |-> ~Busy(s, o)]
      /\ upd'[s][o] = [upd[s][o] EXCEPT !.alone = @ /\ ~Busy(s, o)]
      /\ upd[s][o] \in UpdateStatus
  BY <1>1 DEF Begin, SidecarTypeOK
<1>3. Shown(s)' = Shown(s) /\ UNCHANGED <<sidecar, tmp, ink, want, doubt>>
  BY DEF Begin, Shown, ReadStatus
<1>4. Merged(Shown(s), w, v)[Own(w)] = v
  BY <1>1, ShownType, MergedType
<1> HIDE DEF o
<1>5. /\ upd'[s][o].at = upd[s][o].at /\ upd'[s][o].fd = upd[s][o].fd
      /\ upd'[s][o].alone = (upd[s][o].alone /\ ~Busy(s, o))
  BY <1>2 DEF UpdateStatus
<1>6. Busy(s, w)' /\ upd'[s][w].alone => AloneSound(s, w)'
  <2> SUFFICES ASSUME upd'[s][w].alone PROVE AloneSound(s, w)'
    OBVIOUS
  <2>0. ~Busy(s, o)
    <3> SUFFICES ASSUME Busy(s, o) PROVE FALSE
      OBVIOUS
    <3> DEFINE r == Merged(Shown(s), w, v)
    <3>1. upd'[s][w] = [at |-> "open", rec |-> r, fd |-> None, alone |-> ~Busy(s, o)]
      BY <1>2
    <3> HIDE DEF r
    <3>2. (~Busy(s, o)) = FALSE
      OBVIOUS
    <3>3. upd'[s][w] = [at |-> "open", rec |-> r, fd |-> None, alone |-> FALSE]
      BY <3>1, <3>2
    <3> QED BY <3>3
  <2>1. ~Busy(s, o)'
    BY <2>0, <1>5 DEF Busy
  <2>2. upd'[s][w].rec = Merged(Shown(s)', w, upd'[s][w].rec[Own(w)])
    BY <1>2, <1>3, <1>4
  <2>3. upd'[s][w].at = "open"
    BY <1>2
  <2> QED BY <2>1, <2>2, <2>3 DEF AloneSound, o
<1>7. ~(Busy(s, o)' /\ upd'[s][o].alone)
  BY <1>5 DEF Busy
<1>8. (\A f \in Field \ doubt[s] : Shown(s)[f] = want[s][f])'
  BY <1>1, <1>3 DEF SidecarSound
<1>9. /\ (upd[s][o].at \in {"fill", "rename"} <=> upd[s][o].fd # None)'
      /\ (upd[s][o].fd # None /\ upd[s][o].fd = sidecar[s] => doubt[s] = Field)'
  BY <1>1, <1>3, <1>5 DEF SidecarSound
<1>10. (upd[s][w].at \in {"fill", "rename"} <=> upd[s][w].fd # None)' /\ upd'[s][w].fd = None
  BY <1>2
<1>11. (tmp[s] # None => tmp[s] # sidecar[s])'
  BY <1>1, <1>3 DEF SidecarSound
<1> QED BY <1>1, <1>6, <1>7, <1>8, <1>9, <1>10, <1>11 DEF SidecarSound

\* The inode opened is not the sidecar's: what is shown stays.
LEMMA OpenSound ==
  ASSUME SidecarInv, NEW s \in Session, NEW w \in Writer, Open(s, w)
  PROVE  SidecarSound(s)'
<1> DEFINE o == Other(w)  i == Opened(s)
<1>1. /\ SidecarTypeOK /\ SidecarSound(s) /\ o \in Writer /\ o # w /\ Other(o) = w
      /\ \A u \in Writer : u = w \/ u = o
  BY Others DEF SidecarInv
<1>2. i \in Inode /\ i # sidecar[s] /\ i # None
  BY OpenedType, SidecarAssumption DEF Open
<1> HIDE DEF i
<1>3. /\ upd[s][w].at = "open" /\ upd[s][w] \in UpdateStatus
      /\ tmp'[s] = i /\ ink'[s] = [ink[s] EXCEPT ![i] = {}]
      /\ upd'[s][w] = [upd[s][w] EXCEPT !.at = "fill", !.fd = i] /\ upd'[s][o] = upd[s][o]
      /\ UNCHANGED <<sidecar, want, doubt>>
  BY <1>1 DEF Open, SidecarTypeOK, i
<1>4. Shown(s)' = Shown(s)
  <2>1. sidecar[s] # None => ink'[s][sidecar[s]] = ink[s][sidecar[s]]
    BY <1>1, <1>2, <1>3 DEF SidecarTypeOK
  <2>2. ReadStatus(s)' = ReadStatus(s)
    BY <1>3, <2>1 DEF ReadStatus
  <2> QED BY <2>2 DEF Shown
<1>5. upd'[s][w].at = "fill" /\ upd'[s][w].fd = i /\ upd'[s][w].rec = upd[s][w].rec
      /\ upd'[s][w].alone = upd[s][w].alone
  BY <1>3 DEF UpdateStatus
<1> HIDE DEF o
<1>6. Busy(s, w)' /\ upd'[s][w].alone => AloneSound(s, w)'
  BY <1>1, <1>2, <1>3, <1>4, <1>5 DEF AloneSound, SidecarSound, Busy, o
<1>7. Busy(s, o) => ~upd[s][o].alone
  BY <1>1, <1>3 DEF AloneSound, SidecarSound, Busy
<1>8. (tmp[s] # None => tmp[s] # sidecar[s])'
  BY <1>2, <1>3
<1>9. /\ (upd[s][o].at \in {"fill", "rename"} <=> upd[s][o].fd # None)'
      /\ (upd[s][o].fd # None /\ upd[s][o].fd = sidecar[s] => doubt[s] = Field)'
      /\ ~(Busy(s, o) /\ upd[s][o].alone)'
  BY <1>1, <1>3, <1>7 DEF SidecarSound, Busy
<1>10. /\ (upd[s][w].at \in {"fill", "rename"} <=> upd[s][w].fd # None)'
       /\ (upd[s][w].fd # None /\ upd[s][w].fd = sidecar[s] => doubt[s] = Field)'
  BY <1>2, <1>3, <1>5
<1>11. (\A f \in Field \ doubt[s] : Shown(s)[f] = want[s][f])'
  BY <1>1, <1>3, <1>4 DEF SidecarSound
<1> QED BY <1>1, <1>6, <1>8, <1>9, <1>10, <1>11 DEF SidecarSound

\* A writer that is alone fills a temporary file; another one may fill the sidecar,
\* all of whose fields are in doubt.
LEMMA FillSound ==
  ASSUME SidecarInv, NEW s \in Session, NEW w \in Writer, Fill(s, w)
  PROVE  SidecarSound(s)'
<1> DEFINE o == Other(w)  i == upd[s][w].fd
<1>1. /\ SidecarTypeOK /\ SidecarSound(s) /\ o \in Writer /\ o # w /\ Other(o) = w
      /\ \A u \in Writer : u = w \/ u = o
  BY Others DEF SidecarInv
<1>2. /\ upd[s][w].at = "fill" /\ upd[s][w] \in UpdateStatus /\ upd[s][o] \in UpdateStatus
      /\ i # None /\ i \in Inode
  BY <1>1 DEF Fill, SidecarTypeOK, SidecarSound, UpdateStatus
<1>3. PICK kept : /\ ink' = [ink EXCEPT ![s][i] = kept]
                  /\ upd[s][w].alone => kept = {upd[s][w].rec}
  BY DEF Fill
<1>4. /\ ink'[s] = [ink[s] EXCEPT ![i] = kept]
      /\ upd'[s][w] = [upd[s][w] EXCEPT !.at = "rename"] /\ upd'[s][o] = upd[s][o]
      /\ UNCHANGED <<sidecar, tmp, want, doubt>>
  BY <1>1, <1>3 DEF Fill, SidecarTypeOK
<1>5. /\ upd'[s][w].at = "rename" /\ upd'[s][w].fd = i
      /\ upd'[s][w].rec = upd[s][w].rec /\ upd'[s][w].alone = upd[s][w].alone
  BY <1>2, <1>4 DEF UpdateStatus
<1>6. ink'[s][i] = kept /\ \A j \in Inode : j # i => ink'[s][j] = ink[s][j]
  BY <1>1, <1>2, <1>4 DEF SidecarTypeOK
<1>7. i # sidecar[s] => Shown(s)' = Shown(s)
  <2>1. i # sidecar[s] => ReadStatus(s)' = ReadStatus(s)
    BY <1>1, <1>4, <1>6 DEF ReadStatus, SidecarTypeOK
  <2> QED BY <2>1 DEF Shown
<1>8. Busy(s, o) => ~upd[s][o].alone
  BY <1>1, <1>2 DEF AloneSound, SidecarSound, Busy
<1>9. i = sidecar[s] => doubt[s] = Field
  BY <1>1, <1>2 DEF SidecarSound
<1> HIDE DEF o
<1>10. Busy(s, w)' /\ upd'[s][w].alone => AloneSound(s, w)'
  <2> SUFFICES ASSUME upd[s][w].alone PROVE AloneSound(s, w)'
    BY <1>5
  <2>1. AloneSound(s, w)
    BY <1>1, <1>2 DEF SidecarSound, Busy
  <2>2. i # sidecar[s] /\ tmp[s] = i
    BY <1>1, <1>2, <2>1 DEF AloneSound, SidecarSound
  <2> QED BY <1>1, <1>2, <1>3, <1>4, <1>5, <1>6, <1>7, <2>1, <2>2 DEF AloneSound, Busy, o
<1>11. (\A f \in Field \ doubt[s] : Shown(s)[f] = want[s][f])'
  BY <1>1, <1>4, <1>7, <1>9 DEF SidecarSound
<1>12. (tmp[s] # None => tmp[s] # sidecar[s])'
  BY <1>1, <1>4 DEF SidecarSound
<1>13. /\ (upd[s][o].at \in {"fill", "rename"} <=> upd[s][o].fd # None)'
       /\ (upd[s][o].fd # None /\ upd[s][o].fd = sidecar[s] => doubt[s] = Field)'
       /\ ~(Busy(s, o) /\ upd[s][o].alone)'
  BY <1>1, <1>4, <1>8 DEF SidecarSound, Busy
<1>14. /\ (upd[s][w].at \in {"fill", "rename"} <=> upd[s][w].fd # None)'
       /\ (upd[s][w].fd # None /\ upd[s][w].fd = sidecar[s] => doubt[s] = Field)'
  BY <1>2, <1>4, <1>5, <1>9
<1> QED BY <1>1, <1>10, <1>11, <1>12, <1>13, <1>14 DEF SidecarSound

\* The rename of a writer that is alone shows its record; another's puts every field
\* in doubt.
LEMMA RenameSound ==
  ASSUME SidecarInv, NEW s \in Session, NEW w \in Writer, Rename(s, w)
  PROVE  SidecarSound(s)'
<1> DEFINE o == Other(w)
           r == upd[s][w].rec
           said == Merged(want[s], w, r[Own(w)])
<1>1. /\ SidecarTypeOK /\ SidecarSound(s) /\ o \in Writer /\ o # w /\ Other(o) = w
      /\ \A u \in Writer : u = w \/ u = o
  BY Others DEF SidecarInv
<1>2. /\ upd[s][w].at = "rename" /\ upd[s][w] \in UpdateStatus /\ upd[s][o] \in UpdateStatus
      /\ r \in SessionStatus /\ want[s] \in SessionStatus
  BY <1>1 DEF Rename, SidecarTypeOK, UpdateStatus
<1>3. /\ tmp'[s] = None
      /\ sidecar'[s] = IF tmp[s] = None THEN sidecar[s] ELSE tmp[s]
      /\ upd'[s][w] = NoUpdate /\ upd'[s][o] = upd[s][o]
      /\ want'[s] = said /\ ink' = ink
  BY <1>1 DEF Rename, SidecarTypeOK
<1>4. doubt'[s] = IF upd[s][w].alone THEN doubt[s] \ {Own(w)} ELSE Field
  BY <1>1 DEF Rename, SidecarTypeOK
<1>5. upd'[s][w].at = "off" /\ upd'[s][w].fd = None
  BY <1>3 DEF NoUpdate
<1>6. ~(Busy(s, o) /\ upd[s][o].alone)
  BY <1>1, <1>2 DEF AloneSound, SidecarSound, Busy
<1>7. ~(Busy(s, o) /\ upd[s][o].alone)'
  BY <1>3, <1>6 DEF Busy
<1>8. (upd[s][o].at \in {"fill", "rename"} <=> upd[s][o].fd # None)'
  BY <1>1, <1>3 DEF SidecarSound
<1>9. CASE ~upd[s][w].alone
  <2>1. doubt'[s] = Field
    BY <1>4, <1>9
  <2> HIDE DEF o, r, said
  <2> QED BY <1>1, <1>3, <1>5, <1>7, <1>8, <2>1 DEF SidecarSound, Busy
<1>10. CASE upd[s][w].alone
  <2>1. /\ ~Busy(s, o) /\ r = Merged(Shown(s), w, r[Own(w)])
        /\ tmp[s] = upd[s][w].fd /\ upd[s][w].fd # None
        /\ ink[s][upd[s][w].fd] = {r}
    BY <1>1, <1>2, <1>10 DEF AloneSound, SidecarSound, Busy
  <2>2. upd'[s][o].at = "off" /\ upd'[s][o].fd = None
    BY <1>1, <1>3, <2>1 DEF SidecarSound, Busy
  <2>3. Shown(s)' = r
    <3>1. ReadStatus(s)' = {r}
      BY <1>3, <2>1 DEF ReadStatus
    <3> QED BY <3>1 DEF Shown
  <2>4. ASSUME NEW f \in Field, f \notin doubt'[s] PROVE r[f] = said[f]
    <3>1. Shown(s) \in SessionStatus
      BY <1>1, ShownType
    <3>2. f # Own(w) => Shown(s)[f] = want[s][f]
      BY <1>1, <1>4, <1>10, <2>4 DEF SidecarSound
    <3>3. CASE w = "life"
      BY <1>2, <2>1, <3>1, <3>2, <3>3 DEF Merged, Own, SessionStatus, Field
    <3>4. CASE w = "line"
      <4>1. f = "model" => said[f] = r[f]
        BY <1>2, <3>4 DEF Merged, Own, SessionStatus
      <4>2. f = "activity" => said[f] = r[f]
        <5> SUFFICES ASSUME f = "activity" PROVE said[f] = r[f]
          OBVIOUS
        <5>1. Shown(s).activity = want[s].activity
          BY <3>2, <3>4 DEF Own
        <5>2. r.activity = IF Shown(s).activity = None THEN "working" ELSE Shown(s).activity
          <6> DEFINE m == r[Own(w)]
          <6>1. r = Merged(Shown(s), w, m)
            BY <2>1
          <6> HIDE DEF m, r
          <6> QED BY <3>1, <3>4, <6>1 DEF Merged, SessionStatus
        <5>3. said.activity = IF want[s].activity = None THEN "working" ELSE want[s].activity
          <6> DEFINE m == r[Own(w)]
          <6> HIDE DEF m
          <6> QED BY <1>2, <3>4 DEF Merged, SessionStatus
        <5> QED BY <5>1, <5>2, <5>3
      <4> QED BY <4>1, <4>2 DEF Field
    <3> QED BY <3>3, <3>4 DEF Writer
  <2> HIDE DEF o, r, said
  <2>5. (\A f \in Field \ doubt[s] : Shown(s)[f] = want[s][f])'
    BY <1>3, <2>3, <2>4
  <2>6. (tmp[s] # None => tmp[s] # sidecar[s])'
    BY <1>3
  <2> QED BY <1>1, <1>5, <1>7, <1>8, <2>2, <2>5, <2>6 DEF SidecarSound, Busy
<1> QED BY <1>9, <1>10

\* A writer that is gone owes nothing; what it had read or written stays.
LEMMA KilledSound ==
  ASSUME SidecarInv, NEW s \in Session, NEW w \in Writer, Killed(s, w),
         UNCHANGED <<sidecar, tmp, ink, want, doubt>>
  PROVE  SidecarSound(s)'
<1> DEFINE o == Other(w)
<1>1. /\ SidecarTypeOK /\ SidecarSound(s) /\ o \in Writer /\ o # w /\ Other(o) = w
      /\ \A u \in Writer : u = w \/ u = o
  BY Others DEF SidecarInv
<1>2. upd'[s][w] = NoUpdate /\ upd'[s][o] = upd[s][o]
  BY <1>1 DEF Killed, SidecarTypeOK
<1>3. upd'[s][w].at = "off" /\ upd'[s][w].fd = None
  BY <1>2 DEF NoUpdate
<1>4. Shown(s)' = Shown(s)
  BY DEF Shown, ReadStatus
<1> HIDE DEF o
<1>5. Busy(s, o)' /\ upd'[s][o].alone => AloneSound(s, o)'
  BY <1>1, <1>2, <1>3, <1>4 DEF AloneSound, SidecarSound, Busy
<1> QED BY <1>1, <1>2, <1>3, <1>4, <1>5 DEF SidecarSound, Busy

\* Every step of an update keeps the invariant.
LEMMA UpdateKeeps ==
  ASSUME SidecarInv, UpdateStep
  PROVE  SidecarInv'
<1>1. PICK s \in Session, w \in Writer :
        \/ \E v \in Model \cup Activity :
             Begin(s, w, v) /\ (w = "line" => v \in Model) /\ (w = "life" => v \in Activity)
        \/ Open(s, w) \/ Fill(s, w) \/ Rename(s, w)
        \/ Killed(s, w) /\ UNCHANGED <<sidecar, tmp, ink, want, doubt>>
  BY DEF UpdateStep
<1>2. SidecarSound(s)'
  BY <1>1, BeginSound, OpenSound, FillSound, RenameSound, KilledSound
<1>3. ASSUME NEW x \in Session, x # s PROVE SidecarSound(x)'
  <2>1. /\ sidecar'[x] = sidecar[x] /\ tmp'[x] = tmp[x] /\ ink'[x] = ink[x] /\ upd'[x] = upd[x]
        /\ want'[x] = want[x] /\ doubt'[x] = doubt[x]
    BY <1>1, <1>3 DEF SidecarInv, SidecarTypeOK, Begin, Open, Fill, Rename, Killed
  <2> QED BY <2>1, OthersSound DEF SidecarInv
<1>4. SidecarTypeOK'
  BY UpdateTypes
<1> QED BY <1>2, <1>3, <1>4 DEF SidecarInv

\* What a step does to the sidecar is nothing, or a step of an update.
LEMMA StepUpdates ==
  ASSUME [Next]_vars
  PROVE  UpdateStep \/ UNCHANGED sidecarVars
<1> USE DEF sidecarVars
<1>1. ASSUME HooksNext PROVE UpdateStep \/ UNCHANGED sidecarVars
  <2>1. ASSUME NEW s \in Session, Prompt(s) PROVE UpdateStep \/ UNCHANGED sidecarVars
    BY <2>1 DEF Prompt, PromptSubmit, StatBoard, LoadBoard, PinsDue, Digest, Note, Record,
                Activity, Writer, UpdateStep
  <2>2. ASSUME NEW s \in Session, End(s) PROVE UpdateStep \/ UNCHANGED sidecarVars
    BY <2>2 DEF End, SessionEnd, LoadToLog, SaveLog, ReadPane, RemovePane, Ended, Record,
                Activity, Writer, UpdateStep
  <2>3. ASSUME NEW s \in Session, Stop(s) \/ StatusLine(s) \/ Update(s)
        PROVE  UpdateStep \/ UNCHANGED sidecarVars
    BY <2>3 DEF Stop, StatusLine, Update, Record, Activity, Writer, UpdateStep
  <2>4. ASSUME NEW s \in Session, NEW p \in Pane \cup {None}, MapPane(s, p)
        PROVE  UpdateStep \/ UNCHANGED sidecarVars
    BY <2>4 DEF MapPane, Record, Activity, Writer, UpdateStep
  <2>5. ASSUME NEW s \in Session, Kill(s) PROVE UpdateStep \/ UNCHANGED sidecarVars
    BY <2>5 DEF Kill, KillHook, KillLine, KillCli, Writer, UpdateStep
  <2>6. ASSUME NEW s \in Session, SessionStart(s) \/ \E l \in Line : Edit(s, l)
        PROVE  UpdateStep \/ UNCHANGED sidecarVars
    BY <2>6 DEF SessionStart, Edit
  <2>7. Tick => UNCHANGED sidecarVars
    BY DEF Tick
  <2> QED BY <1>1, <2>1, <2>2, <2>3, <2>4, <2>5, <2>6, <2>7 DEF HooksNext
<1>2. FilesChange => HooksNext
  BY DEF FilesChange
<1>3. Next => FilesChange \/ UNCHANGED sidecarVars
  BY DEF Next, OpenPage, Serve, Answer, Connect, Baseline, Poll, Event, Arrive, ArriveFresh,
         ArriveStale, Fail, Disconnect, files
<1> QED BY <1>1, <1>2, <1>3 DEF vars

\* The invariant holds from the start.
LEMMA SidecarStarts == Init => SidecarInv
<1> SUFFICES ASSUME SidecarInit PROVE SidecarInv
  BY DEF Init, HooksInit
<1>1. NoUpdate \in UpdateStatus /\ NoRecord \in SessionStatus
  BY DEF NoUpdate, NoRecord, UpdateStatus, SessionStatus
<1>2. SidecarTypeOK
  BY <1>1 DEF SidecarInit, SidecarTypeOK
<1>3. ASSUME NEW s \in Session PROVE SidecarSound(s)
  <2>1. /\ sidecar[s] = None /\ tmp[s] = None /\ want[s] = NoRecord
        /\ \A w \in Writer : upd[s][w].at = "off" /\ upd[s][w].fd = None
    BY <1>3 DEF SidecarInit, NoUpdate
  <2>2. Shown(s) = NoRecord
    BY <2>1 DEF Shown, ReadStatus
  <2> QED BY <2>1, <2>2 DEF SidecarSound, Busy
<1> QED BY <1>2, <1>3 DEF SidecarInv

\* Every step keeps it.
LEMMA SidecarKeeps == SidecarInv /\ [Next]_vars => SidecarInv'
<1> SUFFICES ASSUME SidecarInv, [Next]_vars PROVE SidecarInv'
  OBVIOUS
<1>1. CASE UpdateStep
  BY <1>1, UpdateKeeps
<1>2. CASE UNCHANGED sidecarVars
  <2>1. SidecarTypeOK'
    BY <1>2 DEF SidecarInv, SidecarTypeOK, sidecarVars
  <2>2. ASSUME NEW s \in Session PROVE SidecarSound(s)'
    BY <1>2, <2>2, OthersSound DEF SidecarInv, sidecarVars
  <2> QED BY <2>1, <2>2 DEF SidecarInv
<1> QED BY <1>1, <1>2, StepUpdates

\* The status line and the hooks do not take each other's fields (status.go), unless
\* two updates overlap; killed writers do no harm.
THEOREM SidecarIsMerged == Spec => []SidecarMerges
<1>1. SidecarInv => SidecarMerges
  BY DEF SidecarInv, SidecarSound, SidecarMerges
<1> QED BY <1>1, SidecarKeeps, SidecarStarts, PTL DEF Spec

-----------------------------------------------------------------------------
(* The types of the hooks' state.                                          *)

BoardTypes ==
  /\ board \in [Session -> {None} \cup SUBSET Line]
  /\ seen \in [Session -> {"never", "upto", "behind"}]
  /\ news \in [Session -> SUBSET {"old", "late"}]
PinTypes ==
  /\ now \in Nat
  /\ pins \in [Session -> {None} \cup [what : SUBSET Pinned, at : 0 .. now]]
  /\ told \in [Session -> [SUBSET Pinned -> {None} \cup (0 .. now)]]
  /\ cut \in [Session -> SUBSET SUBSET Pinned]
WipTypes == wip \in [Session -> UNION {[l -> 0 .. now] : l \in SUBSET Wip}]
PaneTypes ==
  /\ pane \in [Pane -> Session \cup {None}]
  /\ latest \in [Pane -> Session \cup {None}]
  /\ raced \in SUBSET Pane
LifeTypes == life \in [Session -> Process(Places)]
CliTypes == cli \in [Session -> Process({"off", "pins", "store", "print"})]
Running == \A s \in Session : life[s].at # "gone" => board[s] \in SUBSET Line

HookTypes ==
  BoardTypes /\ PinTypes /\ WipTypes /\ PaneTypes /\ LifeTypes /\ CliTypes /\ Running

hookFiles == <<boardVars, pinVars, paneVars, wip, life, cli, now>>

\* A step of the hooks, or one that leaves all their state alone.
LEMMA StepHooks ==
  ASSUME [Next]_vars
  PROVE  HooksNext \/ UNCHANGED hookFiles
BY DEF Next, vars, hookVars, hookFiles, FilesChange, OpenPage, Serve, Answer, Connect, Baseline, Poll,
       Event, Arrive, ArriveFresh, ArriveStale, Fail, Disconnect, files

\* A process that starts is at rest.
LEMMA AgentType ==
  ASSUME now \in Nat, NEW places, NEW at \in places
  PROVE  Agent(at) \in Process(places)
BY DEF Agent, Process

\* What a step leaves alone keeps its type.
LEMMA TypesKept ==
  ASSUME HookTypes, now' = now
  PROVE  /\ UNCHANGED boardVars => BoardTypes'
         /\ UNCHANGED pinVars => PinTypes'
         /\ UNCHANGED wip => WipTypes'
         /\ UNCHANGED paneVars => PaneTypes'
         /\ UNCHANGED life => LifeTypes'
         /\ UNCHANGED cli => CliTypes'
<1> USE DEF HookTypes
<1>1. UNCHANGED boardVars => BoardTypes'
  BY DEF BoardTypes, boardVars
<1>2. UNCHANGED pinVars => PinTypes'
  BY DEF PinTypes, pinVars
<1>3. UNCHANGED wip => WipTypes'
  BY DEF WipTypes
<1>4. UNCHANGED paneVars => PaneTypes'
  BY DEF PaneTypes, paneVars
<1>5. UNCHANGED life => LifeTypes'
  BY DEF LifeTypes, Process
<1>6. UNCHANGED cli => CliTypes'
  BY DEF CliTypes, Process
<1> QED BY <1>1, <1>2, <1>3, <1>4, <1>5, <1>6

\* One session's hook goes on, and a session that runs has a board.
LEMMA LifeGoes ==
  ASSUME HookTypes, now' = now, NEW s \in Session,
         \A o \in Session \ {s} : life'[o] = life[o] /\ board'[o] = board[o],
         life' = [life EXCEPT ![s] = life'[s]], life'[s] \in Process(Places),
         life'[s].at # "gone" => board'[s] \in SUBSET Line
  PROVE  LifeTypes' /\ Running'
<1>1. LifeTypes'
  BY DEF HookTypes, LifeTypes, Process
<1>2. Running'
  BY DEF HookTypes, Running
<1> QED BY <1>1, <1>2

\* A write of a board.
LEMMA WrittenTypes ==
  ASSUME HookTypes, NEW s \in Session, NEW lines \in SUBSET Line, Written(s, lines)
  PROVE  /\ BoardTypes'
         /\ board'[s] = lines
         /\ \A o \in Session \ {s} : board'[o] = board[o]
<1>1. board' \in [Session -> {None} \cup SUBSET Line]
  BY DEF HookTypes, BoardTypes, Written
<1>2. seen' \in [Session -> {"never", "upto", "behind"}]
  BY DEF HookTypes, BoardTypes, Written
<1>3. news' \in [Session -> SUBSET {"old", "late"}]
  BY DEF HookTypes, BoardTypes, Written
<1>4. board'[s] = lines /\ \A o \in Session \ {s} : board'[o] = board[o]
  BY DEF HookTypes, BoardTypes, Written
<1> QED BY <1>1, <1>2, <1>3, <1>4 DEF BoardTypes

\* Steps that change nothing but the place and the variables of a running hook.
LEMMA OnlyLifeTypes ==
  ASSUME HookTypes, NEW s \in Session, life[s].at # "gone",
         StatBoard(s) \/ LoadBoard(s) \/ PromptSubmit(s) \/ Stop(s) \/ LoadToLog(s)
           \/ ReadPane(s) \/ Ended(s)
  PROVE  HookTypes'
<1> DEFINE p == life[s]
<1>1. /\ p \in Process(Places) /\ now \in Nat /\ board[s] \in SUBSET Line
      /\ life \in [Session -> Process(Places)]
  BY DEF HookTypes, LifeTypes, PinTypes, Running
<1>2. now' = now /\ UNCHANGED <<boardVars, pinVars, wip, paneVars, cli>>
  BY DEF StatBoard, LoadBoard, PromptSubmit, Stop, LoadToLog, ReadPane, Ended, Record
<1>3. /\ life' = [life EXCEPT ![s] = life'[s]]
      /\ \A o \in Session \ {s} : life'[o] = life[o]
      /\ life'[s] \in Process(Places)
  <2>1. CASE PromptSubmit(s) \/ Stop(s) \/ Ended(s)
    <3>1. \E at \in Places : life' = [life EXCEPT ![s] = Agent(at)]
      BY <2>1 DEF PromptSubmit, Stop, Ended, Record, Places, Resting
    <3> QED BY <1>1, <3>1, AgentType
  <2>2. CASE StatBoard(s)
    <3>1. life' = [life EXCEPT ![s] = [[p EXCEPT !.at = "load"] EXCEPT !.was = seen[s] = "behind"]]
      BY <1>1, <2>2 DEF StatBoard
    <3>2. [[p EXCEPT !.at = "load"] EXCEPT !.was = seen[s] = "behind"] \in Process(Places)
      BY <1>1 DEF Process, Places
    <3> QED BY <1>1, <3>1, <3>2
  <2>3. CASE LoadBoard(s)
    <3>1. life' = [life EXCEPT ![s] = [[[p EXCEPT !.at = AfterLoad(board[s])]
                                          EXCEPT !.lines = board[s]] EXCEPT !.t = now]]
      BY <1>1, <2>3 DEF LoadBoard
    <3>2. AfterLoad(board[s]) \in Places /\ now \in 0 .. now
      BY <1>1 DEF AfterLoad, Places
    <3>3. [[[p EXCEPT !.at = AfterLoad(board[s])]
              EXCEPT !.lines = board[s]] EXCEPT !.t = now] \in Process(Places)
      BY <1>1, <3>2 DEF Process
    <3> QED BY <1>1, <3>1, <3>3
  <2>4. CASE LoadToLog(s)
    <3>1. life' = [life EXCEPT ![s] = [[p EXCEPT !.at = "save"] EXCEPT !.lines = board[s]]]
      BY <1>1, <2>4 DEF LoadToLog
    <3>2. [[p EXCEPT !.at = "save"] EXCEPT !.lines = board[s]] \in Process(Places)
      BY <1>1 DEF Process, Places
    <3> QED BY <1>1, <3>1, <3>2
  <2>5. CASE ReadPane(s)
    <3>1. PICK x \in p.todo : life' = [life EXCEPT ![s].todo = @ \ {x}, ![s].pane = x,
                                         ![s].at = IF PointsHere(s, x) THEN "remove" ELSE "scan"]
      BY <2>5 DEF ReadPane
    <3> DEFINE at == IF PointsHere(s, x) THEN "remove" ELSE "scan"
               r == [[[p EXCEPT !.todo = @ \ {x}] EXCEPT !.pane = x] EXCEPT !.at = at]
    <3>2. at \in Places
      BY DEF Places
    <3>3. life' = [life EXCEPT ![s] = r]
      BY <1>1, <3>1
    <3>4. x \in Pane
      BY <1>1 DEF Process
    <3>5. r \in Process(Places)
      <4> HIDE DEF at
      <4> QED BY <1>1, <3>2, <3>4 DEF Process
    <3> HIDE DEF r
    <3> QED BY <1>1, <3>3, <3>5
  <2> QED BY <2>1, <2>2, <2>3, <2>4, <2>5
<1>4. board' = board
  BY <1>2 DEF boardVars
<1>5. LifeTypes' /\ Running'
  BY <1>1, <1>2, <1>3, <1>4, LifeGoes
<1> QED BY <1>2, <1>5, TypesKept DEF HookTypes

\* Steps that write a board.
LEMMA WriteTypes ==
  ASSUME HookTypes, NEW s \in Session,
         SessionStart(s) \/ SaveLog(s) \/ \E l \in Line : Edit(s, l)
  PROVE  HookTypes'
<1> DEFINE p == life[s]
<1>1. /\ p \in Process(Places) /\ now \in Nat /\ board[s] \in {None} \cup SUBSET Line
      /\ life \in [Session -> Process(Places)]
  BY DEF HookTypes, LifeTypes, PinTypes, BoardTypes
<1>2. now' = now /\ UNCHANGED <<pinVars, wip, paneVars, cli>>
  BY DEF SessionStart, SaveLog, Edit
<1>3. CASE SessionStart(s)
  <2>1. life' = [life EXCEPT ![s] = [p EXCEPT !.at = "map"]]
    BY <1>1, <1>3 DEF SessionStart, Goes
  <2>2. [p EXCEPT !.at = "map"] \in Process(Places)
    BY <1>1 DEF Process, Places
  <2>3. BoardTypes' /\ board'[s] \in SUBSET Line /\ \A o \in Session \ {s} : board'[o] = board[o]
    <3>1. CASE board[s] = None
      <4>1. Written(s, {}) /\ {} \in SUBSET Line
        BY <1>3, <3>1 DEF SessionStart
      <4> QED BY <4>1, WrittenTypes
    <3>2. CASE board[s] # None
      BY <1>1, <1>3, <3>2 DEF SessionStart, boardVars, HookTypes, BoardTypes
    <3> QED BY <3>1, <3>2
  <2>4. LifeTypes' /\ Running'
    BY <1>1, <1>2, <2>1, <2>2, <2>3, LifeGoes
  <2> QED BY <1>2, <2>3, <2>4, TypesKept DEF HookTypes
<1>4. CASE SaveLog(s)
  <2> DEFINE r == [Agent("scan") EXCEPT !.todo = Pane]
  <2>1. life' = [life EXCEPT ![s] = r] /\ Written(s, p.lines) /\ p.lines \in SUBSET Line
    BY <1>1, <1>4 DEF SaveLog, Process
  <2>2. r \in Process(Places)
    <3>1. Agent("scan") \in Process(Places)
      BY <1>1, AgentType DEF Places
    <3>2. \A a \in Process(Places) : [a EXCEPT !.todo = Pane] \in Process(Places)
      BY DEF Process
    <3> QED BY <3>1, <3>2
  <2>3. BoardTypes' /\ board'[s] \in SUBSET Line /\ \A o \in Session \ {s} : board'[o] = board[o]
    BY <2>1, WrittenTypes
  <2> HIDE DEF r
  <2>4. LifeTypes' /\ Running'
    BY <1>1, <1>2, <2>1, <2>2, <2>3, LifeGoes
  <2> QED BY <1>2, <2>3, <2>4, TypesKept DEF HookTypes
<1>5. ASSUME NEW l \in Line, Edit(s, l) PROVE HookTypes'
  <2> DEFINE lines == IF l \in board[s] THEN board[s] \ {l} ELSE board[s] \cup {l}
  <2>1. board[s] \in SUBSET Line /\ lines \in SUBSET Line /\ Written(s, lines) /\ life' = life
    BY <1>1, <1>5 DEF Edit
  <2> HIDE DEF lines
  <2>2. BoardTypes' /\ board'[s] \in SUBSET Line /\ \A o \in Session \ {s} : board'[o] = board[o]
    BY <2>1, WrittenTypes
  <2>3. Running'
    BY <2>1, <2>2 DEF HookTypes, Running
  <2> QED BY <1>2, <2>1, <2>2, <2>3, TypesKept DEF HookTypes
<1> QED BY <1>3, <1>4, <1>5

\* Steps of a running hook that write a pane's mapping, or the times of the lines
\* in progress, or the stamp.
LEMMA FileTypes ==
  ASSUME HookTypes, NEW s \in Session, life[s].at # "gone",
         \/ \E q \in Pane \cup {None} : MapPane(s, q)
         \/ SessionEnd(s) \/ RemovePane(s) \/ Digest(s) \/ Note(s)
  PROVE  HookTypes'
<1> DEFINE p == life[s]
<1>1. /\ p \in Process(Places) /\ now \in Nat /\ board[s] \in SUBSET Line
      /\ life \in [Session -> Process(Places)]
  BY DEF HookTypes, LifeTypes, PinTypes, Running
<1>2. now' = now /\ UNCHANGED <<board, pinVars, cli>>
  BY DEF MapPane, SessionEnd, RemovePane, Digest, Note, boardVars
<1>3. \E r \in Process(Places) : life' = [life EXCEPT ![s] = r]
  <2>1. CASE RemovePane(s) \/ Digest(s)
    <3>1. \E at \in {"scan", "note"} : life' = [life EXCEPT ![s] = [p EXCEPT !.at = at]]
      BY <1>1, <2>1 DEF RemovePane, Digest, Goes
    <3>2. \A at \in {"scan", "note"} : [p EXCEPT !.at = at] \in Process(Places)
      BY <1>1 DEF Process, Places
    <3> QED BY <3>1, <3>2
  <2>2. CASE SessionEnd(s) \/ Note(s) \/ \E q \in Pane \cup {None} : MapPane(s, q)
    <3>1. \E at \in {"log", "turn", "ready"} : life' = [life EXCEPT ![s] = Agent(at)]
      BY <2>2 DEF SessionEnd, Note, MapPane, Record
    <3>2. \A at \in {"log", "turn", "ready"} : Agent(at) \in Process(Places)
      BY <1>1, AgentType DEF Places, Resting
    <3> QED BY <3>1, <3>2
  <2> QED BY <2>1, <2>2
<1>4. LifeTypes' /\ Running'
  <2>1. PICK r \in Process(Places) : life' = [life EXCEPT ![s] = r]
    BY <1>3
  <2> QED BY <1>1, <1>2, <2>1, LifeGoes
<1>5. CASE \E q \in Pane \cup {None} : MapPane(s, q)
  <2>1. PICK q \in Pane \cup {None} : MapPane(s, q)
    BY <1>5
  <2>2. PaneTypes'
    BY <2>1 DEF HookTypes, PaneTypes, MapPane
  <2>3. UNCHANGED <<boardVars, wip>>
    BY <2>1 DEF MapPane
  <2> QED BY <1>2, <1>4, <2>2, <2>3, TypesKept DEF HookTypes
<1>6. CASE SessionEnd(s) \/ RemovePane(s)
  <2>1. PaneTypes'
    BY <1>6 DEF HookTypes, PaneTypes, SessionEnd, RemovePane
  <2>2. UNCHANGED <<boardVars, wip>>
    BY <1>6 DEF SessionEnd, RemovePane
  <2> QED BY <1>2, <1>4, <2>1, <2>2, TypesKept DEF HookTypes
<1>7. CASE Digest(s)
  <2> DEFINE w == [l \in p.lines \cap Wip |-> IF l \in DOMAIN wip[s] THEN wip[s][l] ELSE p.t]
  <2>1. wip' = [wip EXCEPT ![s] = w] /\ UNCHANGED <<boardVars, paneVars>>
    BY <1>7 DEF Digest
  <2>2. p.t \in 0 .. now
    BY <1>1 DEF Process
  <2>3. PICK d \in SUBSET Wip : wip[s] \in [d -> 0 .. now]
    BY DEF HookTypes, WipTypes
  <2>4. w \in [p.lines \cap Wip -> 0 .. now]
    BY <2>2, <2>3
  <2> HIDE DEF w
  <2>5. w \in UNION {[l -> 0 .. now] : l \in SUBSET Wip}
    BY <2>4
  <2>6. WipTypes'
    BY <1>2, <2>1, <2>5 DEF HookTypes, WipTypes
  <2> QED BY <1>2, <1>4, <2>1, <2>6, TypesKept DEF HookTypes
<1>8. CASE Note(s)
  <2>1. BoardTypes'
    BY <1>8 DEF HookTypes, BoardTypes, Note
  <2>2. UNCHANGED <<paneVars, wip>>
    BY <1>8 DEF Note
  <2> QED BY <1>2, <1>4, <2>1, <2>2, TypesKept DEF HookTypes
<1> QED BY <1>5, <1>6, <1>7, <1>8

\* Where pinsDue goes on is a place of the process, and nothing else changes.
LEMMA DecidedType ==
  ASSUME NEW s \in Session, NEW places, NEW p \in Process(places), NEW rest \in places, "store" \in places
  PROVE  Decided(s, p, rest) \in Process(places)
<1> DEFINE at == IF Due(s, p) THEN "store" ELSE rest
<1>1. at \in places
  OBVIOUS
<1> HIDE DEF at
<1>2. [p EXCEPT !.at = at] \in Process(places)
  BY <1>1 DEF Process
<1> QED BY <1>2 DEF Decided, at

\* What pinsDue stores and what is printed.
LEMMA StoredTypes ==
  ASSUME HookTypes, now' = now, NEW s \in Session, NEW places, NEW p \in Process(places),
         \/ Stored(s, p) /\ UNCHANGED <<told, cut>>
         \/ Printed(s, p) /\ UNCHANGED pins
         \/ UNCHANGED pinVars
         \/ cut' = [cut EXCEPT ![s] = @ \cup CutShort(p)] /\ UNCHANGED <<pins, told>>
  PROVE  PinTypes'
<1> USE DEF HookTypes, PinTypes
<1>1. Pins(p) \in SUBSET Pinned /\ p.t \in 0 .. now
  BY DEF Pins, Process
<1>2. CASE Stored(s, p) /\ UNCHANGED <<told, cut>>
  <2>1. [what |-> Pins(p), at |-> p.t] \in [what : SUBSET Pinned, at : 0 .. now]
    BY <1>1
  <2> QED BY <1>2, <2>1 DEF Stored
<1>3. CASE Printed(s, p) /\ UNCHANGED pins
  <2>1. now \in 0 .. now
    OBVIOUS
  <2>2. told' \in [Session -> [SUBSET Pinned -> {None} \cup (0 .. now)]]
    BY <1>1, <1>3, <2>1 DEF Printed
  <2>3. cut' \in [Session -> SUBSET SUBSET Pinned]
    BY <1>1, <1>3 DEF Printed
  <2> QED BY <1>3, <2>2, <2>3
<1>4. CASE UNCHANGED pinVars
  BY <1>4 DEF pinVars
<1>5. CASE cut' = [cut EXCEPT ![s] = @ \cup CutShort(p)] /\ UNCHANGED <<pins, told>>
  <2>1. CutShort(p) \in SUBSET SUBSET Pinned
    BY <1>1 DEF CutShort
  <2> QED BY <1>5, <2>1
<1> QED BY <1>2, <1>3, <1>4, <1>5

\* The two processes that inject pinned items, and their ends before time.
LEMMA InjectTypes ==
  ASSUME HookTypes, NEW s \in Session, PinsDue(s) \/ KillHook(s) \/ KillCli(s)
  PROVE  HookTypes'
<1> DEFINE places == {"off", "pins", "store", "print"}
<1>1. /\ life[s] \in Process(Places) /\ cli[s] \in Process(places) /\ now \in Nat
      /\ life \in [Session -> Process(Places)] /\ cli \in [Session -> Process(places)]
      /\ board[s] \in {None} \cup SUBSET Line
  BY DEF HookTypes, LifeTypes, CliTypes, PinTypes, BoardTypes
<1>2. now' = now /\ UNCHANGED <<board, seen, paneVars, wip>>
  BY DEF PinsDue, KillHook, KillCli, boardVars
<1>3. CASE PinsDue(s) /\ HookPins(s) /\ UNCHANGED <<cli, left>>
  <2>1. UNCHANGED boardVars /\ UNCHANGED cli
    BY <1>3 DEF PinsDue
  <2>2. life[s].at # "gone" /\ \E r \in Process(Places) : life' = [life EXCEPT ![s] = r]
    <3>1. CASE life' = [life EXCEPT ![s] = Decided(s, @, "digest")]
      <4>1. Decided(s, life[s], "digest") \in Process(Places)
        BY <1>1, DecidedType DEF Places
      <4> QED BY <1>3, <3>1, <4>1 DEF HookPins
    <3>2. CASE \E at \in {"print", "digest"} : Goes(s, at)
      <4>1. \A at \in {"print", "digest"} : [life[s] EXCEPT !.at = at] \in Process(Places)
        BY <1>1 DEF Process, Places
      <4> QED BY <1>1, <1>3, <3>2, <4>1 DEF HookPins, Goes
    <3> QED BY <1>3, <3>1, <3>2 DEF HookPins
  <2>3. LifeTypes' /\ Running'
    <3>1. PICK r \in Process(Places) : life' = [life EXCEPT ![s] = r]
      BY <2>2
    <3>2. board[s] \in SUBSET Line
      BY <2>2 DEF HookTypes, Running
    <3> QED BY <1>1, <1>2, <3>1, <3>2, LifeGoes
  <2>4. PinTypes'
    BY <1>1, <1>2, <1>3, StoredTypes DEF HookPins
  <2> QED BY <1>2, <2>1, <2>3, <2>4, TypesKept DEF HookTypes
<1>4. CASE PinsDue(s) /\ CliPins(s) /\ UNCHANGED life
  <2>1. UNCHANGED boardVars
    BY <1>4 DEF PinsDue
  <2>2. \E r \in Process(places) : cli' = [cli EXCEPT ![s] = r]
    <3>1. CASE cli[s].at = "off"
      <4> DEFINE r == [[[cli[s] EXCEPT !.at = "pins"] EXCEPT !.lines = board[s]] EXCEPT !.t = now]
      <4>1. board[s] \in SUBSET Line /\ now \in 0 .. now
        BY <1>1, <1>4, <3>1 DEF CliPins
      <4>2. r \in Process(places)
        BY <1>1, <4>1 DEF Process
      <4>3. cli' = [cli EXCEPT ![s] = r]
        BY <1>1, <1>4, <3>1 DEF CliPins
      <4> HIDE DEF r
      <4> QED BY <4>2, <4>3
    <3>2. CASE cli[s].at = "pins"
      <4>1. Decided(s, cli[s], "off") \in Process(places)
        BY <1>1, DecidedType
      <4> QED BY <1>1, <1>4, <3>2, <4>1 DEF CliPins
    <3>3. CASE cli[s].at = "store"
      <4>1. [cli[s] EXCEPT !.at = "print"] \in Process(places)
        BY <1>1 DEF Process
      <4> QED BY <1>1, <1>4, <3>3, <4>1 DEF CliPins
    <3>4. CASE cli[s].at = "print"
      <4>1. Agent("off") \in Process(places)
        BY <1>1, AgentType
      <4> QED BY <1>1, <1>4, <3>4, <4>1 DEF CliPins
    <3> QED BY <1>4, <3>1, <3>2, <3>3, <3>4 DEF CliPins
  <2>3. CliTypes'
    BY <1>2, <2>2 DEF HookTypes, CliTypes, Process
  <2>4. PinTypes'
    BY <1>1, <1>2, <1>4, StoredTypes DEF CliPins
  <2>5. LifeTypes' /\ Running'
    BY <1>2, <1>4, TypesKept DEF HookTypes, Running
  <2> QED BY <1>2, <2>1, <2>3, <2>4, <2>5, TypesKept DEF HookTypes
<1>5. CASE KillHook(s)
  <2>1. BoardTypes'
    BY <1>2, <1>5 DEF KillHook, HookTypes, BoardTypes
  <2>2. PinTypes'
    BY <1>1, <1>2, <1>5, StoredTypes DEF KillHook
  <2>3. LifeTypes' /\ Running'
    <3>1. Without(life[s].at) \in Places
      BY <1>1 DEF Without, Resting, Places, Process
    <3>2. Agent(Without(life[s].at)) \in Process(Places)
      BY <1>1, <3>1, AgentType
    <3>3. life' = [life EXCEPT ![s] = Agent(Without(life[s].at))]
      BY <1>1, <1>5 DEF KillHook
    <3>4. Without(life[s].at) # "gone" => life[s].at # "gone"
      BY DEF Without, Resting
    <3>5. life'[s].at # "gone" => board[s] \in SUBSET Line
      BY <1>1, <3>3, <3>4 DEF Agent, HookTypes, Running
    <3> QED BY <1>1, <1>2, <3>2, <3>3, <3>5, LifeGoes
  <2>4. UNCHANGED cli
    BY <1>5 DEF KillHook
  <2> QED BY <1>2, <2>1, <2>2, <2>3, <2>4, TypesKept DEF HookTypes
<1>6. CASE KillCli(s)
  <2>1. UNCHANGED boardVars /\ UNCHANGED life
    BY <1>6 DEF KillCli
  <2>2. PinTypes'
    BY <1>1, <1>2, <1>6, StoredTypes DEF KillCli
  <2>3. CliTypes'
    <3>1. Agent("off") \in Process(places) /\ cli' = [cli EXCEPT ![s] = Agent("off")]
      BY <1>1, <1>6, AgentType DEF KillCli
    <3> QED BY <1>2, <3>1 DEF HookTypes, CliTypes, Process
  <2>4. LifeTypes' /\ Running'
    BY <1>2, <2>1, TypesKept DEF HookTypes, Running
  <2> QED BY <1>2, <2>1, <2>2, <2>3, <2>4, TypesKept DEF HookTypes
<1> QED BY <1>3, <1>4, <1>5, <1>6 DEF PinsDue

\* The clock goes on: no time that was past is to come.
LEMMA TickTypes == HookTypes /\ Tick => HookTypes'
<1> SUFFICES ASSUME HookTypes, Tick PROVE HookTypes'
  OBVIOUS
<1>1. /\ now \in Nat /\ now' = now + 1
      /\ UNCHANGED <<boardVars, pinVars, paneVars, wip, life, cli>>
  BY DEF HookTypes, PinTypes, Tick
<1>2. \A x \in 0 .. now : x \in 0 .. now'
  BY <1>1
<1>3. BoardTypes' /\ PaneTypes' /\ Running'
  BY <1>1 DEF HookTypes, BoardTypes, PaneTypes, Running, boardVars, paneVars
<1>4. PinTypes'
  <2>1. pins' \in [Session -> {None} \cup [what : SUBSET Pinned, at : 0 .. now']]
    BY <1>1, <1>2 DEF HookTypes, PinTypes, pinVars
  <2>2. told' \in [Session -> [SUBSET Pinned -> {None} \cup (0 .. now')]]
    <3>1. \A x \in {None} \cup (0 .. now) : x \in {None} \cup (0 .. now')
      BY <1>2
    <3>2. \A f \in [SUBSET Pinned -> {None} \cup (0 .. now)] :
            f \in [SUBSET Pinned -> {None} \cup (0 .. now')]
      BY <3>1
    <3> QED BY <1>1, <3>2 DEF HookTypes, PinTypes, pinVars
  <2>3. cut' \in [Session -> SUBSET SUBSET Pinned] /\ now' \in Nat
    BY <1>1 DEF HookTypes, PinTypes, pinVars
  <2> QED BY <2>1, <2>2, <2>3 DEF PinTypes
<1>5. WipTypes'
  <2>1. ASSUME NEW d \in SUBSET Wip, NEW f \in [d -> 0 .. now] PROVE f \in [d -> 0 .. now']
    BY <1>2
  <2>2. \A f \in UNION {[l -> 0 .. now] : l \in SUBSET Wip} :
          f \in UNION {[l -> 0 .. now'] : l \in SUBSET Wip}
    BY <2>1
  <2> QED BY <1>1, <2>2 DEF HookTypes, WipTypes
<1>6. ASSUME NEW places PROVE \A p \in Process(places) : p \in Process(places)'
  BY <1>2 DEF Process
<1>7. LifeTypes' /\ CliTypes'
  BY <1>1, <1>6 DEF HookTypes, LifeTypes, CliTypes
<1> QED BY <1>3, <1>4, <1>5, <1>7 DEF HookTypes

\* Nothing changes the types.
LEMMA TypesStay == HookTypes /\ UNCHANGED hookFiles => HookTypes'
<1> SUFFICES ASSUME HookTypes, UNCHANGED hookFiles PROVE HookTypes'
  OBVIOUS
<1>1. now' = now /\ UNCHANGED <<boardVars, pinVars, paneVars, wip, life, cli>>
  BY DEF hookFiles
<1>2. Running'
  BY <1>1 DEF HookTypes, Running, boardVars
<1> QED BY <1>1, <1>2, TypesKept DEF HookTypes

LEMMA HookTypesKeep == HookTypes /\ [Next]_vars => HookTypes'
<1> SUFFICES ASSUME HookTypes, [Next]_vars PROVE HookTypes'
  OBVIOUS
<1>1. ASSUME HooksNext PROVE HookTypes'
  <2>1. ASSUME NEW s \in Session, Prompt(s) \/ End(s) \/ Stop(s) PROVE HookTypes'
    <3>1. CASE PinsDue(s)
      BY <3>1, InjectTypes
    <3>2. CASE SaveLog(s)
      BY <3>2, WriteTypes
    <3>3. CASE SessionEnd(s) \/ RemovePane(s) \/ Digest(s) \/ Note(s)
      <4>1. life[s].at # "gone"
        BY <3>3 DEF SessionEnd, RemovePane, Digest, Note, At
      <4> QED BY <3>3, <4>1, FileTypes
    <3>4. CASE PromptSubmit(s) \/ StatBoard(s) \/ LoadBoard(s) \/ LoadToLog(s) \/ ReadPane(s)
                 \/ Ended(s) \/ Stop(s)
      <4>1. life[s].at # "gone"
        BY <3>4 DEF PromptSubmit, StatBoard, LoadBoard, LoadToLog, ReadPane, Ended, Stop, At
      <4> QED BY <3>4, <4>1, OnlyLifeTypes
    <3> QED BY <2>1, <3>1, <3>2, <3>3, <3>4 DEF Prompt, End
  <2>2. ASSUME NEW s \in Session, NEW q \in Pane \cup {None}, MapPane(s, q) PROVE HookTypes'
    <3>1. life[s].at # "gone"
      BY <2>2 DEF MapPane, At
    <3> QED BY <2>2, <3>1, FileTypes
  <2>3. ASSUME NEW s \in Session, SessionStart(s) \/ \E l \in Line : Edit(s, l) PROVE HookTypes'
    BY <2>3, WriteTypes
  <2>4. ASSUME NEW s \in Session, StatusLine(s) \/ Update(s) \/ KillLine(s) PROVE HookTypes'
    <3>1. UNCHANGED hookFiles
      BY <2>4 DEF StatusLine, Update, KillLine, hookFiles, hookVars
    <3> QED BY <3>1, TypesStay
  <2>5. ASSUME NEW s \in Session, KillHook(s) \/ KillCli(s) PROVE HookTypes'
    BY <2>5, InjectTypes
  <2> QED BY <1>1, <2>1, <2>2, <2>3, <2>4, <2>5, TickTypes DEF HooksNext, Kill
<1> QED BY <1>1, StepHooks, TypesStay

LEMMA HookTypesStart == Init => HookTypes
<1> SUFFICES ASSUME HooksInit PROVE HookTypes
  BY DEF Init
<1>1. now = 0 /\ 0 \in Nat /\ 0 \in 0 .. 0
  BY DEF HooksInit
<1>2. BoardTypes /\ PaneTypes
  BY DEF HooksInit, BoardTypes, PaneTypes
<1>3. PinTypes
  BY <1>1 DEF HooksInit, PinTypes
<1>4. WipTypes
  <2> DEFINE f == [l \in {} |-> 0]
  <2>1. f \in [{} -> 0 .. now] /\ {} \in SUBSET Wip
    BY <1>1
  <2> HIDE DEF f
  <2>2. f \in UNION {[l -> 0 .. now] : l \in SUBSET Wip}
    BY <2>1
  <2>3. wip = [s \in Session |-> f]
    BY DEF HooksInit, f
  <2> QED BY <2>2, <2>3 DEF WipTypes
<1>5. LifeTypes /\ Running
  <2>1. Agent("gone") \in Process(Places) /\ Agent("gone").at = "gone"
    BY <1>1, AgentType DEF Places, Resting, Agent
  <2>2. life = [s \in Session |-> Agent("gone")]
    BY DEF HooksInit
  <2> QED BY <2>1, <2>2 DEF LifeTypes, Running
<1>6. CliTypes
  <2>1. Agent("off") \in Process({"off", "pins", "store", "print"})
    BY <1>1, AgentType
  <2> QED BY <2>1 DEF HooksInit, CliTypes
<1> QED BY <1>2, <1>3, <1>4, <1>5, <1>6 DEF HookTypes

\* The hooks' files and variables keep their types; no time stored is to come, and a
\* session that runs has a board, whatever is killed.
THEOREM HooksAreTyped == Spec => []HooksTypeOK
<1>1. SidecarInv /\ HookTypes => HooksTypeOK
  BY DEF SidecarInv, HookTypes, HooksTypeOK, BoardTypes, PinTypes, WipTypes, PaneTypes, LifeTypes,
         CliTypes, Running
<1> QED BY <1>1, SidecarKeeps, SidecarStarts, HookTypesKeep, HookTypesStart, PTL DEF Spec

-----------------------------------------------------------------------------
(* What the agent is not told of.                                          *)

\* While something is not told, the board is newer than the stamp, and a
\* prompt-submit that came after it has seen that.
NewsSound(s) ==
  /\ news[s] # {} /\ seen[s] # "never" => seen[s] = "behind"
  /\ InWindow(s) /\ "old" \in news[s] /\ seen[s] # "never" => life[s].was

NewsInv == HookTypes /\ \A s \in Session : NewsSound(s)

\* A step that does not touch stamp and news, and in whose window nothing is new.
LEMMA NewsStays ==
  ASSUME NEW s \in Session, NewsSound(s), seen'[s] = seen[s], news'[s] = news[s],
         InWindow(s)' => InWindow(s) /\ life'[s].was = life[s].was
  PROVE  NewsSound(s)'
BY DEF NewsSound

\* A write makes the board newer than a stamp; in the window it is late.
LEMMA NewsOfWrite ==
  ASSUME HookTypes, NEW s \in Session, NewsSound(s), NEW lines, Written(s, lines),
         InWindow(s)' => InWindow(s) /\ life'[s].was = life[s].was
  PROVE  NewsSound(s)'
<1>1. /\ seen'[s] = IF seen[s] = "never" THEN "never" ELSE "behind"
      /\ news'[s] = news[s] \cup {IF InWindow(s) THEN "late" ELSE "old"}
  BY DEF HookTypes, BoardTypes, Written
<1> QED BY <1>1 DEF NewsSound

LEMMA NewsStep ==
  ASSUME NewsInv, [Next]_vars, HookTypes', NEW s \in Session
  PROVE  NewsSound(s)'
<1> DEFINE window == {"load", "pins", "store", "print", "digest", "note"}
<1>1. /\ life[s] \in Process(Places) /\ life \in [Session -> Process(Places)]
      /\ seen \in [Session -> {"never", "upto", "behind"}]
      /\ news \in [Session -> SUBSET {"old", "late"}]
      /\ HookTypes /\ NewsSound(s)
  BY DEF NewsInv, HookTypes, LifeTypes, BoardTypes
<1>2. ASSUME NEW o \in Session \ {s}, NEW lines, Written(o, lines)
      PROVE  seen'[s] = seen[s] /\ news'[s] = news[s]
  BY <1>1, <1>2 DEF Written
<1>3. CASE UNCHANGED hookFiles \/ Tick
  BY <1>1, <1>3, NewsStays DEF hookFiles, boardVars, Tick, InWindow
<1>4. ASSUME NEW o \in Session, SessionStart(o) PROVE NewsSound(s)'
  <2>1. CASE o = s
    <3>1. life'[s].at = "map" /\ ~InWindow(s)'
      BY <1>1, <1>4, <2>1 DEF SessionStart, Goes, InWindow, Process
    <3>2. CASE board[s] = None
      <4>1. Written(s, {})
        BY <1>4, <2>1, <3>2 DEF SessionStart
      <4> QED BY <1>1, <3>1, <4>1, NewsOfWrite
    <3>3. CASE board[s] # None
      BY <1>1, <1>4, <2>1, <3>1, <3>3, NewsStays DEF SessionStart, boardVars
    <3> QED BY <3>2, <3>3
  <2>2. CASE o # s
    <3>1. life'[s] = life[s]
      BY <1>1, <1>4, <2>2 DEF SessionStart, Goes
    <3>2. seen'[s] = seen[s] /\ news'[s] = news[s]
      BY <1>2, <1>4, <2>2 DEF SessionStart, boardVars
    <3> QED BY <1>1, <3>1, <3>2, NewsStays DEF InWindow
  <2> QED BY <2>1, <2>2
<1>5. ASSUME NEW o \in Session, NEW l \in Line, Edit(o, l) PROVE NewsSound(s)'
  <2>1. life' = life /\ \E lines : Written(o, lines)
    BY <1>5 DEF Edit
  <2>2. CASE o = s
    BY <1>1, <2>1, <2>2, NewsOfWrite DEF InWindow
  <2>3. CASE o # s
    BY <1>1, <1>2, <2>1, <2>3, NewsStays DEF InWindow
  <2> QED BY <2>2, <2>3
<1>6. ASSUME NEW o \in Session, SaveLog(o) PROVE NewsSound(s)'
  <2>1. Written(o, life[o].lines)
    BY <1>6 DEF SaveLog
  <2>2. CASE o = s
    <3>1. life'[s].at = "scan" /\ ~InWindow(s)'
      BY <1>1, <1>6, <2>2 DEF SaveLog, Agent, InWindow
    <3> QED BY <1>1, <2>1, <2>2, <3>1, NewsOfWrite
  <2>3. CASE o # s
    <3>1. life'[s] = life[s]
      BY <1>1, <1>6, <2>3 DEF SaveLog
    <3> QED BY <1>1, <1>2, <2>1, <2>3, <3>1, NewsStays DEF InWindow
  <2> QED BY <2>2, <2>3
<1>7. ASSUME NEW o \in Session, StatBoard(o) PROVE NewsSound(s)'
  <2>1. UNCHANGED <<seen, news>>
    BY <1>7 DEF StatBoard, boardVars
  <2>2. CASE o = s
    <3>1. life'[s].was = (seen[s] = "behind")
      BY <1>1, <1>7, <2>2 DEF StatBoard, Process
    <3> QED BY <1>1, <2>1, <3>1 DEF NewsSound
  <2>3. CASE o # s
    <3>1. life'[s] = life[s]
      BY <1>1, <1>7, <2>3 DEF StatBoard
    <3> QED BY <1>1, <2>1, <3>1, NewsStays DEF InWindow
  <2> QED BY <2>2, <2>3
<1>8. ASSUME NEW o \in Session, LoadBoard(o) \/ Digest(o) \/ (PinsDue(o) /\ HookPins(o))
      PROVE  NewsSound(s)'
  <2>1. UNCHANGED <<seen, news>>
    BY <1>8 DEF LoadBoard, Digest, PinsDue, boardVars
  <2>2. InWindow(s)' => InWindow(s) /\ life'[s].was = life[s].was
    <3>1. CASE o = s
      <4>1. InWindow(s)
        BY <1>8, <3>1 DEF LoadBoard, Digest, HookPins, InWindow
      <4>2. life'[s].was = life[s].was
        BY <1>1, <1>8, <3>1 DEF LoadBoard, Digest, HookPins, Decided, Goes, Process
      <4> QED BY <4>1, <4>2
    <3>2. CASE o # s
      <4>1. life'[s] = life[s]
        BY <1>1, <1>8, <3>2 DEF LoadBoard, Digest, HookPins, Goes
      <4> QED BY <4>1 DEF InWindow
    <3> QED BY <3>1, <3>2
  <2> QED BY <1>1, <2>1, <2>2, NewsStays
<1>9. ASSUME NEW o \in Session, PinsDue(o) /\ CliPins(o) /\ UNCHANGED life PROVE NewsSound(s)'
  BY <1>1, <1>9, NewsStays DEF PinsDue, boardVars, InWindow
<1>10. ASSUME NEW o \in Session, Note(o) PROVE NewsSound(s)'
  <2>1. CASE o = s
    <3>1. life[s].at = "note" /\ InWindow(s)
      BY <1>10, <2>1 DEF Note, InWindow
    <3>2. seen[s] = "never" \/ Noted(s) \/ "old" \notin news[s]
      BY <1>1, <3>1 DEF NewsSound, Noted
    <3>3. news[s] \ {"late"} = {} \/ "old" \in news[s]
      BY <1>1
    <3>4. news'[s] = {}
      BY <1>1, <1>10, <2>1, <3>2, <3>3 DEF Note
    <3> QED BY <3>4 DEF NewsSound
  <2>2. CASE o # s
    <3>1. life'[s] = life[s] /\ seen'[s] = seen[s] /\ news'[s] = news[s]
      BY <1>1, <1>10, <2>2 DEF Note
    <3> QED BY <1>1, <3>1, NewsStays DEF InWindow
  <2> QED BY <2>1, <2>2
<1>11. ASSUME NEW o \in Session,
              PromptSubmit(o) \/ Stop(o) \/ SessionEnd(o) \/ LoadToLog(o) \/ ReadPane(o)
                \/ RemovePane(o) \/ Ended(o) \/ \E q \in Pane \cup {None} : MapPane(o, q)
       PROVE  NewsSound(s)'
  <2>1. UNCHANGED <<seen, news>>
    BY <1>11 DEF PromptSubmit, Stop, SessionEnd, LoadToLog, ReadPane, RemovePane, Ended, MapPane,
                 boardVars
  <2>2. CASE o = s
    <3>1. life'[s].at \notin window
      <4>1. CASE PromptSubmit(s) \/ Stop(s) \/ SessionEnd(s) \/ Ended(s)
                   \/ \E q \in Pane \cup {None} : MapPane(s, q)
        <5>1. \E at \in {"stat", "ready", "log", "gone"} : life' = [life EXCEPT ![s] = Agent(at)]
          BY <4>1 DEF PromptSubmit, Stop, SessionEnd, Ended, MapPane, Record
        <5> QED BY <1>1, <5>1 DEF Agent
      <4>2. CASE LoadToLog(s)
        BY <1>1, <4>2 DEF LoadToLog, Process
      <4>3. CASE ReadPane(s)
        <5>1. life'[s].at \in {"remove", "scan"}
          BY <1>1, <4>3 DEF ReadPane, Process
        <5> QED BY <5>1
      <4>4. CASE RemovePane(s)
        BY <1>1, <4>4 DEF RemovePane, Goes, Process
      <4> QED BY <1>11, <2>2, <4>1, <4>2, <4>3, <4>4
    <3> QED BY <1>1, <2>1, <3>1, NewsStays DEF InWindow
  <2>3. CASE o # s
    <3>1. life'[s] = life[s]
      BY <1>1, <1>11, <2>3 DEF PromptSubmit, Stop, SessionEnd, LoadToLog, ReadPane, RemovePane,
                               Ended, MapPane, Record, Goes
    <3> QED BY <1>1, <2>1, <3>1, NewsStays DEF InWindow
  <2> QED BY <2>2, <2>3
<1>12. ASSUME NEW o \in Session, KillHook(o) PROVE NewsSound(s)'
  <2>1. seen' = seen
    BY <1>12 DEF KillHook
  <2>2. CASE o = s
    <3>1. life'[s].at = Without(life[s].at) /\ ~InWindow(s)'
      BY <1>1, <1>12, <2>2 DEF KillHook, Agent, Without, Resting, InWindow
    <3>2. news'[s] = IF news[s] = {} THEN {} ELSE {"old"}
      BY <1>1, <1>12, <2>2 DEF KillHook
    <3> QED BY <1>1, <2>1, <3>1, <3>2 DEF NewsSound
  <2>3. CASE o # s
    <3>1. life'[s] = life[s] /\ news'[s] = news[s]
      BY <1>1, <1>12, <2>3 DEF KillHook
    <3> QED BY <1>1, <2>1, <3>1, NewsStays DEF InWindow
  <2> QED BY <2>2, <2>3
<1>13. ASSUME NEW o \in Session, KillLine(o) \/ KillCli(o) \/ StatusLine(o) \/ Update(o)
       PROVE  NewsSound(s)'
  BY <1>1, <1>13, NewsStays DEF KillLine, KillCli, StatusLine, Update, hookVars, boardVars, InWindow
<1>14. CASE HooksNext
  BY <1>3, <1>4, <1>5, <1>6, <1>7, <1>8, <1>9, <1>10, <1>11, <1>12, <1>13, <1>14
     DEF HooksNext, Prompt, End, Kill, PinsDue
<1> QED BY <1>3, <1>14, StepHooks

\* README: a change of the board is told at the next prompt, whatever is killed and
\* whoever writes, unless it fell between prompt-submit's stat and its stamp.
THEOREM NewsIsNeverForgotten == Spec => []NewsIsKept
<1>1. NewsInv /\ [Next]_vars => NewsInv'
  BY HookTypesKeep, NewsStep DEF NewsInv
<1>2. Init => NewsInv
  <2>1. Init => \A s \in Session : NewsSound(s)
    BY DEF Init, HooksInit, NewsSound
  <2> QED BY <2>1, HookTypesStart DEF NewsInv
<1>3. NewsInv => NewsIsKept
  BY DEF NewsInv, NewsSound, NewsIsKept
<1> QED BY <1>1, <1>2, <1>3, PTL DEF Spec

-----------------------------------------------------------------------------
(* The panes.                                                              *)

Ending == {"gone", "map", "log", "save", "scan", "remove"}

\* An ending session is the latest nowhere, so a mapping it has read and is about to
\* remove is of a pane without a latest session, or of one that started meanwhile.
PaneSound ==
  /\ PaneShowsLatest
  /\ \A s \in Session :
       /\ life[s].at \in Ending => \A p \in Pane : latest[p] # s
       /\ life[s].at = "remove" =>
            /\ life[s].pane \in Pane
            /\ latest[life[s].pane] = None \/ life[s].pane \in raced

PaneInv == HookTypes /\ PaneSound

\* A step that leaves the panes alone, and brings no session to its end.
LEMMA PanesStay ==
  ASSUME PaneSound, UNCHANGED paneVars,
         \A s \in Session :
           /\ life'[s].at \in Ending => life[s].at \in Ending
           /\ life'[s].at = "remove" => life'[s] = life[s]
  PROVE  PaneSound'
<1> USE DEF paneVars
<1>1. PaneShowsLatest'
  BY DEF PaneSound, PaneShowsLatest
<1>2. ASSUME NEW s \in Session, life'[s].at \in Ending PROVE \A p \in Pane : latest'[p] # s
  BY <1>2 DEF PaneSound
<1>3. ASSUME NEW s \in Session, life'[s].at = "remove"
      PROVE  /\ life'[s].pane \in Pane
             /\ latest'[life'[s].pane] = None \/ life'[s].pane \in raced'
  BY <1>3 DEF PaneSound
<1> QED BY <1>1, <1>2, <1>3 DEF PaneSound

LEMMA PaneStep ==
  ASSUME PaneInv, [Next]_vars
  PROVE  PaneSound'
<1>1. /\ life \in [Session -> Process(Places)] /\ PaneSound
      /\ pane \in [Pane -> Session \cup {None}] /\ latest \in [Pane -> Session \cup {None}]
      /\ raced \in SUBSET Pane /\ None \notin Session
  BY HooksAssumption DEF PaneInv, HookTypes, LifeTypes, PaneTypes
<1>2. CASE UNCHANGED <<paneVars, life>>
  BY <1>1, <1>2, PanesStay
<1>3. ASSUME NEW o \in Session, MapPane(o, None) \/ \E q \in Pane : MapPane(o, q) PROVE PaneSound'
  <2>1. PICK q \in Pane \cup {None} : MapPane(o, q)
    BY <1>3
  <2>2. life'[o].at = "ready" /\ \A s \in Session \ {o} : life'[s] = life[s]
    BY <1>1, <2>1 DEF MapPane, Record, Agent
  <2>3. \A p \in Pane : /\ p = q => pane'[p] = o /\ latest'[p] = o
                        /\ p # q => pane'[p] = pane[p] /\ latest'[p] = latest[p]
                        /\ p = q /\ Removing(p) => p \in raced'
                        /\ p # q => (p \in raced' <=> p \in raced)
    BY <2>1 DEF MapPane
  <2>4. PaneShowsLatest'
    BY <1>1, <2>3 DEF PaneSound, PaneShowsLatest
  <2>5. ASSUME NEW s \in Session, life'[s].at \in Ending PROVE \A p \in Pane : latest'[p] # s
    <3>1. s # o
      BY <2>2, <2>5 DEF Ending
    <3> QED BY <1>1, <2>2, <2>3, <2>5, <3>1 DEF PaneSound
  <2>6. ASSUME NEW s \in Session, life'[s].at = "remove"
        PROVE  /\ life'[s].pane \in Pane
               /\ latest'[life'[s].pane] = None \/ life'[s].pane \in raced'
    <3>1. life'[s] = life[s]
      BY <2>2, <2>6
    <3>2. Removing(life[s].pane)
      BY <2>6, <3>1 DEF Removing
    <3> QED BY <1>1, <2>3, <2>6, <3>1, <3>2 DEF PaneSound
  <2> QED BY <2>4, <2>5, <2>6 DEF PaneSound
<1>4. ASSUME NEW o \in Session, SessionEnd(o) PROVE PaneSound'
  <2>1. life'[o].at = "log" /\ \A s \in Session \ {o} : life'[s] = life[s]
    BY <1>1, <1>4 DEF SessionEnd, Record, Agent
  <2>2. /\ \A p \in Pane : latest'[p] = IF latest[p] = o THEN None ELSE latest[p]
        /\ UNCHANGED <<pane, raced>>
    BY <1>1, <1>4 DEF SessionEnd
  <2>3. PaneShowsLatest'
    BY <1>1, <2>2 DEF PaneSound, PaneShowsLatest
  <2>4. ASSUME NEW s \in Session, life'[s].at \in Ending PROVE \A p \in Pane : latest'[p] # s
    BY <1>1, <2>1, <2>2, <2>4 DEF PaneSound
  <2>5. ASSUME NEW s \in Session, life'[s].at = "remove"
        PROVE  /\ life'[s].pane \in Pane
               /\ latest'[life'[s].pane] = None \/ life'[s].pane \in raced'
    <3>1. life'[s] = life[s]
      BY <2>1, <2>5
    <3> QED BY <1>1, <2>2, <2>5, <3>1 DEF PaneSound
  <2> QED BY <2>3, <2>4, <2>5 DEF PaneSound
<1>5. ASSUME NEW o \in Session, ReadPane(o) PROVE PaneSound'
  <2>1. PICK x \in life[o].todo : life' = [life EXCEPT ![o].todo = @ \ {x}, ![o].pane = x,
                                     ![o].at = IF PointsHere(o, x) THEN "remove" ELSE "scan"]
    BY <1>5 DEF ReadPane
  <2>2. x \in Pane /\ life[o].at = "scan" /\ UNCHANGED paneVars
    BY <1>1, <1>5 DEF ReadPane, Process
  <2>3. /\ life'[o].at = IF PointsHere(o, x) THEN "remove" ELSE "scan"
        /\ life'[o].pane = x
        /\ \A s \in Session \ {o} : life'[s] = life[s]
    BY <1>1, <2>1 DEF Process
  <2>4. PaneShowsLatest'
    BY <1>1, <2>2 DEF paneVars, PaneSound, PaneShowsLatest
  <2>5. ASSUME NEW s \in Session, life'[s].at \in Ending PROVE \A p \in Pane : latest'[p] # s
    BY <1>1, <2>2, <2>3, <2>5 DEF paneVars, PaneSound, Ending
  <2>6. latest[x] # o
    BY <1>1, <2>2 DEF PaneSound, Ending
  <2>7. ASSUME NEW s \in Session, life'[s].at = "remove"
        PROVE  /\ life'[s].pane \in Pane
               /\ latest'[life'[s].pane] = None \/ life'[s].pane \in raced'
    <3>1. CASE s = o
      <4>1. pane[x] = o
        BY <2>3, <2>7, <3>1 DEF PointsHere
      <4>2. latest[x] = None \/ x \in raced
        BY <1>1, <2>2, <2>6, <4>1 DEF PaneSound, PaneShowsLatest
      <4> QED BY <2>2, <2>3, <3>1, <4>2 DEF paneVars
    <3>2. CASE s # o
      BY <1>1, <2>2, <2>3, <2>7, <3>2 DEF paneVars, PaneSound
    <3> QED BY <3>1, <3>2
  <2> QED BY <2>4, <2>5, <2>7 DEF PaneSound
<1>6. ASSUME NEW o \in Session, RemovePane(o) PROVE PaneSound'
  <2>1. /\ life[o].at = "remove" /\ UNCHANGED <<latest, raced>>
        /\ life'[o].at = "scan" /\ \A s \in Session \ {o} : life'[s] = life[s]
    BY <1>1, <1>6 DEF RemovePane, Goes, Process
  <2>2. \A p \in Pane \ {life[o].pane} : pane'[p] = pane[p]
    BY <1>1, <1>6 DEF RemovePane
  <2>3. PaneShowsLatest'
    BY <1>1, <2>1, <2>2 DEF PaneSound, PaneShowsLatest
  <2>4. ASSUME NEW s \in Session, life'[s].at \in Ending PROVE \A p \in Pane : latest'[p] # s
    BY <1>1, <2>1, <2>4 DEF PaneSound, Ending
  <2>5. ASSUME NEW s \in Session, life'[s].at = "remove"
        PROVE  /\ life'[s].pane \in Pane
               /\ latest'[life'[s].pane] = None \/ life'[s].pane \in raced'
    BY <1>1, <2>1, <2>5 DEF PaneSound
  <2> QED BY <2>3, <2>4, <2>5 DEF PaneSound
<1>7. ASSUME NEW o \in Session, SessionStart(o) \/ LoadToLog(o) \/ SaveLog(o) \/ Ended(o)
      PROVE  PaneSound'
  <2>1. /\ life[o].at \in Ending /\ life'[o].at # "remove" /\ UNCHANGED paneVars
        /\ \A s \in Session \ {o} : life'[s] = life[s]
    BY <1>1, <1>7 DEF SessionStart, LoadToLog, SaveLog, Ended, At, Goes, Agent, Ending, Process
  <2> QED BY <1>1, <2>1, PanesStay
<1>8. ASSUME NEW o \in Session,
             PromptSubmit(o) \/ StatBoard(o) \/ LoadBoard(o) \/ Digest(o) \/ Note(o) \/ Stop(o)
               \/ (PinsDue(o) /\ HookPins(o))
      PROVE  PaneSound'
  <2>1. UNCHANGED paneVars /\ \A s \in Session \ {o} : life'[s] = life[s]
    BY <1>1, <1>8 DEF PromptSubmit, StatBoard, LoadBoard, Digest, Note, Stop, PinsDue, HookPins,
                      Record, Goes
  <2>2. life'[o].at \notin Ending
    <3>1. CASE PromptSubmit(o) \/ Note(o) \/ Stop(o)
      <4>1. \E at \in {"stat", "turn", "ready"} : life' = [life EXCEPT ![o] = Agent(at)]
        BY <3>1 DEF PromptSubmit, Note, Stop, Record
      <4> QED BY <1>1, <4>1 DEF Agent, Ending
    <3>2. CASE StatBoard(o) \/ Digest(o)
      BY <1>1, <3>2 DEF StatBoard, Digest, Goes, Ending, Process
    <3>3. CASE LoadBoard(o)
      <4>1. life'[o].at = AfterLoad(board[o])
        BY <1>1, <3>3 DEF LoadBoard, Process
      <4> QED BY <4>1 DEF AfterLoad, Ending
    <3>4. CASE PinsDue(o) /\ HookPins(o)
      <4>1. life'[o].at \in {"store", "print", "digest"}
        BY <1>1, <3>4 DEF HookPins, Decided, Goes, Process
      <4> QED BY <4>1 DEF Ending
    <3> QED BY <1>8, <3>1, <3>2, <3>3, <3>4
  <2>3. "remove" \in Ending
    BY DEF Ending
  <2> QED BY <1>1, <2>1, <2>2, <2>3, PanesStay
<1>9. ASSUME NEW o \in Session, KillHook(o) PROVE PaneSound'
  <2>1. UNCHANGED paneVars /\ \A s \in Session \ {o} : life'[s] = life[s]
    BY <1>1, <1>9 DEF KillHook
  <2>2. life'[o].at = Without(life[o].at)
    BY <1>1, <1>9 DEF KillHook, Agent
  <2>3. /\ Without(life[o].at) # "remove"
        /\ Without(life[o].at) \in Ending => life[o].at \in Ending
    BY DEF Without, Resting, Ending
  <2> QED BY <1>1, <2>1, <2>2, <2>3, PanesStay
<1>10. ASSUME NEW o \in Session,
              \/ \E l \in Line : Edit(o, l)
              \/ PinsDue(o) /\ CliPins(o) /\ UNCHANGED life
              \/ KillLine(o) \/ KillCli(o) \/ StatusLine(o) \/ Update(o)
       PROVE  UNCHANGED <<paneVars, life>>
  BY <1>10 DEF Edit, PinsDue, KillLine, KillCli, StatusLine, Update, hookVars
<1>11. UNCHANGED hookFiles \/ Tick => UNCHANGED <<paneVars, life>>
  BY DEF hookFiles, Tick
<1>12. CASE HooksNext
  BY <1>2, <1>3, <1>4, <1>5, <1>6, <1>7, <1>8, <1>9, <1>10, <1>11, <1>12
     DEF HooksNext, Prompt, End, Kill, PinsDue
<1> QED BY <1>2, <1>11, <1>12, StepHooks

\* README: the pane shows the latest session started there, whichever session ends
\* late or is killed while it ends.
THEOREM LatestIsShown == Spec => []PaneShowsLatest
<1>1. PaneInv /\ [Next]_vars => PaneInv'
  BY HookTypesKeep, PaneStep DEF PaneInv
<1>2. Init => PaneInv
  <2>1. Init => PaneSound
    BY HooksAssumption DEF Init, HooksInit, PaneSound, PaneShowsLatest, Agent
  <2> QED BY <2>1, HookTypesStart DEF PaneInv
<1>3. PaneInv => PaneShowsLatest
  BY DEF PaneInv, PaneSound
<1> QED BY <1>1, <1>2, <1>3, PTL DEF Spec

-----------------------------------------------------------------------------
(* The pinned items.                                                       *)

\* The items w were printed since a, were cut short, or are about to be printed.
Printing(p, w) == p.at = "print" /\ Pins(p) = w
Reached(o, w, a) ==
  \/ told[o][w] # None /\ told[o][w] >= a
  \/ w \in cut[o]
  \/ Printing(life[o], w) \/ Printing(cli[o], w)

\* What the file of pins says was injected has reached the agent since then; what a
\* hook past its pins holds, within the cadence.
PinSound(o) ==
  /\ pins[o] # None => Reached(o, pins[o].what, pins[o].at)
  /\ life[o].at = "digest" /\ Pins(life[o]) # {} =>
       Reached(o, Pins(life[o]), life[o].t - Cadence)

PinInv == HookTypes /\ \A o \in Session : PinSound(o)

\* A step in which nothing is injected into the session, and nothing cut short.
PinsQuiet(o) ==
  /\ told'[o] = told[o] /\ cut'[o] = cut[o] /\ pins'[o] = pins[o]
  /\ cli[o].at = "print" => cli'[o] = cli[o]
  /\ life[o].at = "print" => life'[o] = life[o]
  /\ life'[o].at = "digest" => life'[o] = life[o] \/ Pins(life'[o]) = {}

LEMMA PinsStay ==
  ASSUME NEW o \in Session, PinSound(o), PinsQuiet(o)
  PROVE  PinSound(o)'
<1>1. ASSUME NEW w, NEW a, Reached(o, w, a)
      PROVE  \/ told'[o][w] # None /\ told'[o][w] >= a
             \/ w \in cut'[o]
             \/ Printing(life'[o], w) \/ Printing(cli'[o], w)
  BY <1>1 DEF Reached, Printing, PinsQuiet
<1>2. (pins[o] # None => Reached(o, pins[o].what, pins[o].at))'
  BY <1>1 DEF PinSound, PinsQuiet, Reached
<1>3. (life[o].at = "digest" /\ Pins(life[o]) # {} =>
         Reached(o, Pins(life[o]), life[o].t - Cadence))'
  BY <1>1 DEF PinSound, PinsQuiet, Reached, Pins
<1> QED BY <1>2, <1>3 DEF PinSound

\* Only pinsDue injects, and only a kill cuts short.
LEMMA OnlyPinsInject ==
  ASSUME HookTypes, [Next]_vars, NEW s \in Session
  PROVE  PinsQuiet(s) \/ \E o \in Session : PinsDue(o) \/ KillHook(o) \/ KillCli(o)
<1>1. /\ life \in [Session -> Process(Places)] /\ life[s] \in Process(Places)
  BY DEF HookTypes, LifeTypes
<1>2. CASE UNCHANGED <<pinVars, cli, life>>
  BY <1>2 DEF pinVars, PinsQuiet
<1>3. ASSUME NEW o \in Session, UNCHANGED <<pinVars, cli>>, life[o].at # "print",
             \A x \in Session \ {o} : life'[x] = life[x],
             life'[o].at = "digest" => Pins(life'[o]) = {}
      PROVE  PinsQuiet(s)
  BY <1>3 DEF pinVars, PinsQuiet
<1>4. ASSUME NEW o \in Session, LoadBoard(o) PROVE PinsQuiet(s)
  <2>1. life'[o].at = AfterLoad(board[o]) /\ life'[o].lines = board[o]
    BY <1>1, <1>4 DEF LoadBoard, Process
  <2>2. life'[o].at = "digest" => Pins(life'[o]) = {}
    BY <2>1 DEF AfterLoad, Pins
  <2>3. /\ UNCHANGED <<pinVars, cli>> /\ life[o].at # "print"
        /\ \A x \in Session \ {o} : life'[x] = life[x]
    BY <1>1, <1>4 DEF LoadBoard
  <2> QED BY <1>3, <2>2, <2>3
<1>5. ASSUME NEW o \in Session, NEW at \in Places \ {"digest"}, life[o].at # "print",
             UNCHANGED <<pinVars, cli>>,
             \/ life' = [life EXCEPT ![o] = Agent(at)]
             \/ Goes(o, at)
      PROVE  PinsQuiet(s)
  <2>1. life'[o].at # "digest" /\ \A x \in Session \ {o} : life'[x] = life[x]
    BY <1>1, <1>5 DEF Agent, Goes, Process
  <2> QED BY <1>3, <1>5, <2>1
<1>6. ASSUME NEW o \in Session,
             SessionStart(o) \/ (\E q \in Pane \cup {None} : MapPane(o, q)) \/ PromptSubmit(o)
               \/ Digest(o) \/ Note(o) \/ Stop(o) \/ SessionEnd(o) \/ RemovePane(o) \/ Ended(o)
      PROVE  PinsQuiet(s)
  <2>1. life[o].at # "print" /\ UNCHANGED <<pinVars, cli>>
    BY <1>6 DEF SessionStart, MapPane, PromptSubmit, Digest, Note, Stop, SessionEnd, RemovePane,
                Ended, At
  <2>2. \E at \in {"map", "ready", "stat", "note", "turn", "log", "scan", "gone"} :
          Goes(o, at) \/ life' = [life EXCEPT ![o] = Agent(at)]
    BY <1>6 DEF SessionStart, MapPane, PromptSubmit, Digest, Note, Stop, SessionEnd, RemovePane,
                Ended, Record
  <2>3. {"map", "ready", "stat", "note", "turn", "log", "scan", "gone"} \subseteq Places \ {"digest"}
    BY DEF Places, Resting
  <2> QED BY <1>5, <2>1, <2>2, <2>3
<1>7. ASSUME NEW o \in Session, StatBoard(o) \/ LoadToLog(o) \/ SaveLog(o) \/ ReadPane(o)
      PROVE  PinsQuiet(s)
  <2>1. /\ life[o].at # "print" /\ UNCHANGED <<pinVars, cli>>
        /\ \A x \in Session \ {o} : life'[x] = life[x]
    BY <1>1, <1>7 DEF StatBoard, LoadToLog, SaveLog, ReadPane, At
  <2>2. life'[o].at # "digest"
    <3>1. CASE StatBoard(o) \/ LoadToLog(o)
      BY <1>1, <3>1 DEF StatBoard, LoadToLog, Process
    <3>2. CASE SaveLog(o)
      BY <1>1, <3>2 DEF SaveLog, Agent
    <3>3. CASE ReadPane(o)
      <4>1. life'[o].at \in {"remove", "scan"}
        BY <1>1, <3>3 DEF ReadPane, Process
      <4> QED BY <4>1
    <3> QED BY <1>7, <3>1, <3>2, <3>3
  <2> QED BY <1>3, <2>1, <2>2
<1>8. ASSUME NEW o \in Session,
             (\E l \in Line : Edit(o, l)) \/ KillLine(o) \/ StatusLine(o) \/ Update(o)
      PROVE  UNCHANGED <<pinVars, cli, life>>
  BY <1>8 DEF Edit, KillLine, StatusLine, Update, hookVars
<1>9. UNCHANGED hookFiles \/ Tick => UNCHANGED <<pinVars, cli, life>>
  BY DEF hookFiles, Tick
<1>10. CASE HooksNext
  BY <1>2, <1>4, <1>6, <1>7, <1>8, <1>9, <1>10 DEF HooksNext, Prompt, End, Kill
<1> QED BY <1>2, <1>9, <1>10, StepHooks

\* An injection, or one cut short, of some items: what was reached stays reached.
LEMMA ReachedStays ==
  ASSUME HookTypes, NEW o \in Session, NEW w \in SUBSET Pinned, NEW a \in Int, a <= now,
         Reached(o, w, a),
         \/ told'[o][w] = now
         \/ w \in cut'[o]
         \/ /\ told'[o][w] = told[o][w]
            /\ w \in cut[o] => w \in cut'[o]
            /\ Printing(life[o], w) => Printing(life'[o], w)
            /\ Printing(cli[o], w) => Printing(cli'[o], w)
  PROVE  \/ told'[o][w] # None /\ told'[o][w] >= a
         \/ w \in cut'[o]
         \/ Printing(life'[o], w) \/ Printing(cli'[o], w)
<1>1. now \in Nat /\ now # None
  BY HooksAssumption DEF HookTypes, PinTypes
<1> QED BY <1>1 DEF Reached

\* The same for a session whose file of pins, and whose hook past its pins, stay.
LEMMA PinsReachedStay ==
  ASSUME HookTypes, NEW o \in Session, PinSound(o), pins'[o] = pins[o],
         life'[o].at = "digest" => life'[o] = life[o],
         \A w \in SUBSET Pinned :
           \/ told'[o][w] = now
           \/ w \in cut'[o]
           \/ /\ told'[o][w] = told[o][w]
              /\ w \in cut[o] => w \in cut'[o]
              /\ Printing(life[o], w) => Printing(life'[o], w)
              /\ Printing(cli[o], w) => Printing(cli'[o], w)
  PROVE  PinSound(o)'
<1>1. /\ pins[o] \in {None} \cup [what : SUBSET Pinned, at : 0 .. now]
      /\ life[o].t \in 0 .. now /\ now \in Nat /\ Cadence \in Nat
  BY HooksAssumption DEF HookTypes, PinTypes, LifeTypes, Process
<1>2. (pins[o] # None => Reached(o, pins[o].what, pins[o].at))'
  <2>1. CASE pins[o] = None
    BY <2>1
  <2>2. CASE pins[o] # None
    <3>1. pins[o].what \in SUBSET Pinned /\ pins[o].at \in Int /\ pins[o].at <= now
      BY <1>1, <2>2
    <3>2. Reached(o, pins[o].what, pins[o].at)
      BY <2>2 DEF PinSound
    <3> QED BY <3>1, <3>2, ReachedStays DEF Reached
  <2> QED BY <2>1, <2>2
<1>3. (life[o].at = "digest" /\ Pins(life[o]) # {} =>
         Reached(o, Pins(life[o]), life[o].t - Cadence))'
  <2>1. CASE life'[o].at # "digest"
    BY <2>1
  <2>2. CASE life'[o] = life[o] /\ life[o].at = "digest" /\ Pins(life[o]) # {}
    <3>1. /\ Pins(life[o]) \in SUBSET Pinned
          /\ life[o].t - Cadence \in Int /\ life[o].t - Cadence <= now
      BY <1>1 DEF Pins
    <3>2. Reached(o, Pins(life[o]), life[o].t - Cadence)
      BY <2>2 DEF PinSound
    <3>3. \/ told'[o][Pins(life[o])] # None /\ told'[o][Pins(life[o])] >= life[o].t - Cadence
          \/ Pins(life[o]) \in cut'[o]
          \/ Printing(life'[o], Pins(life[o])) \/ Printing(cli'[o], Pins(life[o]))
      BY <3>1, <3>2, ReachedStays
    <3> QED BY <2>2, <3>3 DEF Reached, Pins
  <2>3. CASE life'[o] = life[o] /\ Pins(life[o]) = {}
    BY <2>3 DEF Pins
  <2> QED BY <2>1, <2>2, <2>3 DEF Pins
<1> QED BY <1>2, <1>3 DEF PinSound

\* What Printed changes.
LEMMA PrintedTold ==
  ASSUME HookTypes, NEW o \in Session, NEW p, Printed(o, p)
  PROVE  /\ told'[o][Pins(p)] = now
         /\ \A w \in (SUBSET Pinned) \ {Pins(p)} :
              told'[o][w] = told[o][w] /\ (w \in cut[o] => w \in cut'[o])
<1>1. Pins(p) \in SUBSET Pinned
  BY DEF Pins
<1> QED BY <1>1 DEF HookTypes, PinTypes, Printed

LEMMA HookInjects ==
  ASSUME HookTypes, NEW o \in Session, PinSound(o), HookPins(o), UNCHANGED <<cli, now>>
  PROVE  PinSound(o)'
<1>1. /\ life \in [Session -> Process(Places)] /\ life[o] \in Process(Places)
      /\ now \in Nat /\ now # None /\ Cadence \in Nat /\ life[o].t \in 0 .. now
      /\ pins[o] \in {None} \cup [what : SUBSET Pinned, at : 0 .. now]
  BY HooksAssumption DEF HookTypes, PinTypes, LifeTypes, Process
<1>2. CASE life[o].at = "pins" /\ life' = [life EXCEPT ![o] = Decided(o, @, "digest")]
           /\ UNCHANGED pinVars
  <2>1. /\ life'[o].at = IF Due(o, life[o]) THEN "store" ELSE "digest"
        /\ Pins(life'[o]) = Pins(life[o]) /\ life'[o].t = life[o].t
    BY <1>1, <1>2 DEF Decided, Process, Pins
  <2>2. UNCHANGED <<pins, told, cut>>
    BY <1>2 DEF pinVars
  <2>3. \A w, a : Reached(o, w, a) =>
          \/ told'[o][w] # None /\ told'[o][w] >= a
          \/ w \in cut'[o]
          \/ Printing(cli'[o], w)
    BY <1>2, <2>2 DEF Reached, Printing
  <2>4. (pins[o] # None => Reached(o, pins[o].what, pins[o].at))'
    BY <2>2, <2>3 DEF PinSound, Reached
  <2>5. CASE ~Due(o, life[o])
    <3>1. /\ pins[o] # None /\ pins[o].what = Pins(life[o])
          /\ pins[o].at \in 0 .. now /\ life[o].t - pins[o].at <= Cadence
      BY <1>1, <2>5 DEF Due
    <3>2. \/ told'[o][Pins(life[o])] # None /\ told'[o][Pins(life[o])] >= pins[o].at
          \/ Pins(life[o]) \in cut'[o]
          \/ Printing(cli'[o], Pins(life[o]))
      BY <2>3, <3>1 DEF PinSound
    <3>3. Pins(life[o]) \in SUBSET Pinned
      BY DEF Pins
    <3>4. told'[o][Pins(life[o])] \in {None} \cup (0 .. now)
      BY <2>2, <3>3 DEF HookTypes, PinTypes
    <3>5. \/ told'[o][Pins(life[o])] # None /\ told'[o][Pins(life[o])] >= life[o].t - Cadence
          \/ Pins(life[o]) \in cut'[o]
          \/ Printing(cli'[o], Pins(life[o]))
      BY <1>1, <3>1, <3>2, <3>4
    <3>6. Reached(o, Pins(life[o]), life[o].t - Cadence)'
      BY <2>1, <3>5 DEF Reached, Pins
    <3> QED BY <2>4, <3>6 DEF PinSound
  <2>6. CASE Due(o, life[o])
    BY <2>1, <2>4, <2>6 DEF PinSound
  <2> QED BY <2>5, <2>6
<1>3. CASE life[o].at = "store" /\ Stored(o, life[o]) /\ Goes(o, "print") /\ UNCHANGED <<told, cut>>
  <2>1. life'[o].at = "print" /\ Pins(life'[o]) = Pins(life[o])
    BY <1>1, <1>3 DEF Goes, Process, Pins
  <2>2. pins'[o].what = Pins(life[o])
    BY <1>3 DEF Stored, HookTypes, PinTypes
  <2> QED BY <2>1, <2>2 DEF PinSound, Reached, Printing, Pins
<1>4. CASE life[o].at = "print" /\ Printed(o, life[o]) /\ Goes(o, "digest") /\ UNCHANGED pins
  <2> DEFINE w == Pins(life[o])
  <2>1. /\ told'[o][w] = now
        /\ \A x \in (SUBSET Pinned) \ {w} :
             told'[o][x] = told[o][x] /\ (x \in cut[o] => x \in cut'[o])
    BY <1>4, PrintedTold
  <2>2. /\ life'[o].at = "digest" /\ Pins(life'[o]) = w /\ life'[o].t = life[o].t
    BY <1>1, <1>4 DEF Goes, Process, Pins
  <2>3. (life[o].at = "digest" /\ Pins(life[o]) # {} =>
           Reached(o, Pins(life[o]), life[o].t - Cadence))'
    <3>1. now >= life[o].t - Cadence
      BY <1>1
    <3> QED BY <1>1, <2>1, <2>2, <3>1 DEF Reached, Pins
  <2>4. (pins[o] # None => Reached(o, pins[o].what, pins[o].at))'
    <3>1. CASE pins[o] # None
      <4>1. pins[o].what \in SUBSET Pinned /\ pins[o].at \in Int /\ pins[o].at <= now
        BY <1>1, <3>1
      <4>2. Reached(o, pins[o].what, pins[o].at)
        BY <3>1 DEF PinSound
      <4>3. pins[o].what # w => ~Printing(life[o], pins[o].what)
        BY DEF Printing
      <4> QED BY <1>4, <2>1, <4>1, <4>2, <4>3, ReachedStays DEF Reached
    <3> QED BY <1>4, <3>1
  <2> QED BY <2>3, <2>4 DEF PinSound
<1> QED BY <1>2, <1>3, <1>4 DEF HookPins

LEMMA CliInjects ==
  ASSUME HookTypes, NEW o \in Session, PinSound(o), CliPins(o), UNCHANGED <<life, now>>
  PROVE  PinSound(o)'
<1>1. /\ cli \in [Session -> Process({"off", "pins", "store", "print"})]
      /\ cli[o] \in Process({"off", "pins", "store", "print"})
  BY DEF HookTypes, CliTypes
<1>2. CASE cli[o].at \in {"off", "pins"} /\ UNCHANGED pinVars
  BY <1>2, PinsStay DEF pinVars, PinsQuiet
<1>3. CASE cli[o].at = "store" /\ Stored(o, cli[o]) /\ cli' = [cli EXCEPT ![o].at = "print"]
           /\ UNCHANGED <<told, cut>>
  <2>1. cli'[o].at = "print" /\ Pins(cli'[o]) = Pins(cli[o])
    BY <1>1, <1>3 DEF Process, Pins
  <2>2. pins'[o].what = Pins(cli[o])
    BY <1>3 DEF Stored, HookTypes, PinTypes
  <2>3. (pins[o] # None => Reached(o, pins[o].what, pins[o].at))'
    BY <2>1, <2>2 DEF Reached, Printing, Pins
  <2>4. \A w, a : Reached(o, w, a) =>
          \/ told'[o][w] # None /\ told'[o][w] >= a
          \/ w \in cut'[o]
          \/ Printing(life'[o], w)
    BY <1>3 DEF Reached, Printing
  <2>5. (life[o].at = "digest" /\ Pins(life[o]) # {} =>
           Reached(o, Pins(life[o]), life[o].t - Cadence))'
    BY <2>4 DEF PinSound, Reached, Pins
  <2> QED BY <2>3, <2>5 DEF PinSound
<1>4. CASE cli[o].at = "print" /\ Printed(o, cli[o]) /\ UNCHANGED pins
  <2>1. /\ told'[o][Pins(cli[o])] = now
        /\ \A w \in (SUBSET Pinned) \ {Pins(cli[o])} :
             told'[o][w] = told[o][w] /\ (w \in cut[o] => w \in cut'[o])
    BY <1>4, PrintedTold
  <2>2. \A w \in (SUBSET Pinned) \ {Pins(cli[o])} : ~Printing(cli[o], w)
    BY DEF Printing
  <2> QED BY <1>4, <2>1, <2>2, PinsReachedStay
<1> QED BY <1>2, <1>3, <1>4 DEF CliPins

LEMMA KillsCut ==
  ASSUME HookTypes, NEW o \in Session, PinSound(o), KillHook(o) \/ KillCli(o)
  PROVE  PinSound(o)'
<1>1. UNCHANGED <<pins, told, now>>
  BY DEF KillHook, KillCli
<1>2. CASE KillHook(o)
  <2>1. life'[o].at # "digest" /\ cut'[o] = cut[o] \cup CutShort(life[o]) /\ UNCHANGED cli
    <3>1. life'[o].at = Without(life[o].at)
      BY <1>2 DEF HookTypes, LifeTypes, KillHook, Agent
    <3>2. cut'[o] = cut[o] \cup CutShort(life[o]) /\ UNCHANGED cli
      BY <1>2 DEF HookTypes, PinTypes, KillHook
    <3> QED BY <3>1, <3>2 DEF Without, Resting
  <2>2. \A w \in SUBSET Pinned : Printing(life[o], w) => w \in cut'[o]
    BY <2>1 DEF Printing, CutShort
  <2> QED BY <1>1, <2>1, <2>2, PinsReachedStay
<1>3. CASE KillCli(o)
  <2>1. cut'[o] = cut[o] \cup CutShort(cli[o]) /\ UNCHANGED life
    BY <1>3 DEF HookTypes, PinTypes, KillCli
  <2>2. \A w \in SUBSET Pinned : Printing(cli[o], w) => w \in cut'[o]
    BY <2>1 DEF Printing, CutShort
  <2> QED BY <1>1, <2>1, <2>2, PinsReachedStay
<1> QED BY <1>2, <1>3

\* What is done for one session leaves the pins of the others alone.
LEMMA OthersQuiet ==
  ASSUME HookTypes, NEW o \in Session, PinsDue(o) \/ KillHook(o) \/ KillCli(o),
         NEW s \in Session \ {o}
  PROVE  PinsQuiet(s)
<1>1. CASE PinsDue(o)
  <2>1. told'[s] = told[s] /\ cut'[s] = cut[s] /\ pins'[s] = pins[s]
    BY <1>1 DEF HookTypes, PinTypes, PinsDue, HookPins, CliPins, Stored, Printed, pinVars
  <2>2. cli'[s] = cli[s] /\ life'[s] = life[s]
    BY <1>1 DEF HookTypes, LifeTypes, CliTypes, PinsDue, HookPins, CliPins, Goes
  <2> QED BY <2>1, <2>2 DEF PinsQuiet
<1>2. CASE KillHook(o) \/ KillCli(o)
  <2>1. told'[s] = told[s] /\ cut'[s] = cut[s] /\ pins'[s] = pins[s]
    BY <1>2 DEF HookTypes, PinTypes, KillHook, KillCli
  <2>2. cli'[s] = cli[s] /\ life'[s] = life[s]
    BY <1>2 DEF HookTypes, LifeTypes, CliTypes, KillHook, KillCli
  <2> QED BY <2>1, <2>2 DEF PinsQuiet
<1> QED BY <1>1, <1>2

\* README: pinned items reach the agent within the cadence, though the hook and
\* `pins --due` share their file without a lock, unless one of them is killed between
\* its write of the file and its output.
THEOREM PinsComeInTime == Spec => []PinsReach
<1>1. PinInv /\ [Next]_vars => PinInv'
  <2> SUFFICES ASSUME PinInv, [Next]_vars, NEW s \in Session
               PROVE  PinSound(s)'
    BY HookTypesKeep DEF PinInv
  <2>1. HookTypes /\ PinSound(s)
    BY DEF PinInv
  <2>2. ASSUME NEW o \in Session, PinsDue(o) \/ KillHook(o) \/ KillCli(o) PROVE PinSound(s)'
    <3>1. CASE o = s
      BY <2>1, <2>2, <3>1, HookInjects, CliInjects, KillsCut DEF PinsDue
    <3>2. CASE o # s
      BY <2>1, <2>2, <3>2, OthersQuiet, PinsStay
    <3> QED BY <3>1, <3>2
  <2> QED BY <2>1, <2>2, OnlyPinsInject, PinsStay
<1>2. Init => PinInv
  <2>1. ASSUME Init, NEW o \in Session PROVE PinSound(o)
    <3>1. /\ pins = [s \in Session |-> None]
          /\ life = [s \in Session |-> Agent("gone")]
      BY <2>1 DEF Init, HooksInit
    <3>2. pins[o] = None /\ life[o] = Agent("gone")
      BY <3>1
    <3>3. life[o].at = "gone"
      BY <3>2 DEF Agent
    <3> QED BY <3>2, <3>3 DEF PinSound
  <2> QED BY <2>1, HookTypesStart DEF PinInv
<1>3. PinInv => PinsReach
  <2> SUFFICES ASSUME PinInv, NEW s \in Session, life[s].at = "digest", Pins(life[s]) # {}
               PROVE  \/ /\ told[s][Pins(life[s])] # None
                         /\ life[s].t - told[s][Pins(life[s])] <= Cadence
                      \/ Pins(life[s]) \in cut[s]
                      \/ cli[s].at = "print" /\ Pins(cli[s]) = Pins(life[s])
    BY DEF PinsReach
  <2>1. /\ Reached(s, Pins(life[s]), life[s].t - Cadence)
        /\ life[s].t \in Int /\ Cadence \in Nat
    BY HooksAssumption DEF PinInv, PinSound, HookTypes, PinTypes, LifeTypes, Process
  <2>2. told[s][Pins(life[s])] \in {None} \cup Int
    BY DEF PinInv, HookTypes, PinTypes, Pins
  <2> QED BY <2>1, <2>2 DEF Reached, Printing
<1> QED BY <1>1, <1>2, <1>3, PTL DEF Spec
=============================================================================
