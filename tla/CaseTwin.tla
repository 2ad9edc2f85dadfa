------------------------------ MODULE CaseTwin ------------------------------
(***************************************************************************)
(* The sensor layout of the case page (gcsstate.cpp): the list of hotspots *)
(* in memory and the JSON file it is saved to and loaded from.  A hotspot  *)
(* is its identity, which loading checks, and one optional threshold,      *)
(* warnMin, which stands for the optional numbers (critMin, x3d, y3d, z3d  *)
(* take the same path).  In memory the threshold may be absent from the    *)
(* map, as in the built-in list, or NaN, or a number; in the file it is    *)
(* there or not.                                                           *)
(*                                                                         *)
(* A save truncates the file, writes it and looks at neither how the write *)
(* ended nor whether it reached the disk.  disk has what a power failure   *)
(* may leave: until the operating system has written a change back, the    *)
(* file of before or the one of now.  A file system that journals gives    *)
(* one or the other; a file cut short does not parse.                      *)
(***************************************************************************)
EXTENDS Integers, Sequences

CONSTANTS
  Hotspots,   \* identities (id, label, sensorKey, position) that are valid
  BadHotspot, \* one that is not
  Thresholds, \* numbers a threshold may have
  MaxEdits    \* bound: changes of the file from outside, and power failures

ASSUME TwinAssumption ==
  /\ BadHotspot \notin Hotspots /\ MaxEdits \in Nat
  /\ Hotspots # {} /\ Thresholds \subseteq Int
  /\ 0 \in Thresholds /\ \E n \in Thresholds : n # 0

\* The threshold of an entry in memory: a number, NaN, or no such key.
NaN       == <<"NaN", 0>>
Absent    == <<"absent", 0>>
Number(n) == <<"number", n>>

Entry == [id: Hotspots, warnMin: {NaN, Absent} \cup {Number(n) : n \in Thresholds}]

\* A file: no file, something that is no JSON object with hotspots, or a list.
NoFile  == [kind |-> "missing", list |-> <<>>]
Garbage == [kind |-> "garbage", list |-> <<>>]
File(l) == [kind |-> "json", list |-> l]

VARIABLES
  hotspots,   \* m_caseTwinHotspots
  lastError,  \* m_caseTwinConfigLastError is set
  file,       \* what a program that opens it finds
  disk,       \* the files a power failure may leave
  writing,    \* the file is open for writing and not yet written
  saved,      \* history: the list that was saved, if file is what was written then
  given,      \* history: the layouts saved or put into the file by somebody, as
              \* they are loaded
  edits       \* changes from outside still to come

twinVars == <<hotspots, lastError, file, disk, writing, saved, given, edits>>

\* defaultCaseTwinHotspots: most have no lower threshold, one has.
Defaults ==
  LET h == CHOOSE x \in Hotspots : TRUE
      n == CHOOSE x \in Thresholds : x # 0
  IN  <<[id |-> h, warnMin |-> Absent], [id |-> h, warnMin |-> Number(n)]>>

TwinTypeOK ==
  /\ hotspots \in Seq(Entry) /\ hotspots # <<>>
  /\ lastError \in BOOLEAN /\ writing \in BOOLEAN
  /\ file \in disk /\ \A f \in disk : f.kind \in {"missing", "garbage", "json"}
  /\ saved = <<>> \/ saved \in Seq(Entry)
  /\ \A l \in given : l \in Seq(Entry) /\ l # <<>>
  /\ edits \in 0..MaxEdits

-----------------------------------------------------------------------------
TwinInit ==
  /\ hotspots = Defaults /\ lastError = FALSE
  /\ file = NoFile /\ disk = {NoFile} /\ writing = FALSE
  /\ saved = <<>> /\ given = {} /\ edits \in 0..MaxEdits

\* What saveCaseTwinConfig writes of a threshold: NaN is left out, but a key
\* that is absent reads as 0.0 and is written.
WrittenFault(t) == IF t = NaN THEN Number(0) ELSE IF t = Absent THEN Absent ELSE t
Written(t) == IF t = NaN THEN Absent ELSE IF t = Absent THEN Number(0) ELSE t

\* What loadCaseTwinConfig makes of it: a missing one is NaN.
Parsed(t) == IF t = Absent THEN NaN ELSE t

ToFile(list)   == File([i \in DOMAIN list |-> [list[i] EXCEPT !.warnMin = Written(@)]])
FromFile(list) == [i \in DOMAIN list |-> [list[i] EXCEPT !.warnMin = Parsed(@)]]

\* A file that loads: a non-empty list all of whose entries are valid.
Loads(f) == f.kind = "json" /\ f.list # <<>> /\ \A i \in DOMAIN f.list : f.list[i].id \in Hotspots

\* A layout that is saved and loaded again: a limit that is absent, as in the
\* built-in list, has become 0.
Reloaded(l) == [i \in DOMAIN l |-> [l[i] EXCEPT !.warnMin = IF @ = Absent THEN Number(0) ELSE @]]

\* A bug: entries are taken over one by one, up to the first that is not valid.
LoadFault ==
  /\ ~writing
  /\ IF Loads(file)
     THEN hotspots' = FromFile(file.list) /\ lastError' = FALSE
     ELSE /\ lastError' = TRUE
          /\ hotspots' = IF file.list # <<>> /\ file.list[1].id \in Hotspots
                           THEN FromFile(<<file.list[1]>>) ELSE hotspots
  /\ UNCHANGED <<file, disk, writing, saved, given, edits>>

\* loadCaseTwinConfig takes the whole file or none of it.
Load ==
  /\ ~writing
  /\ IF Loads(file)
     THEN hotspots' = FromFile(file.list) /\ lastError' = FALSE
     ELSE lastError' = TRUE /\ UNCHANGED hotspots
  /\ UNCHANGED <<file, disk, writing, saved, given, edits>>

\* saveCaseTwinConfig: the file is opened and so truncated, or cannot be ...
SaveOpen ==
  /\ ~writing
  /\ \/ /\ writing' = TRUE /\ file' = Garbage /\ disk' = disk \cup {Garbage} /\ saved' = <<>>
        /\ UNCHANGED lastError
     \/ lastError' = TRUE /\ UNCHANGED <<writing, file, disk, saved>>
  /\ UNCHANGED <<hotspots, given, edits>>

\* ... and is then written, to the end or not: what file.write and close return
\* is not looked at, nothing is synced, and the save counts as done.
SaveWrite ==
  /\ writing /\ writing' = FALSE
  /\ \/ file' = ToFile(hotspots) /\ saved' = hotspots /\ given' = given \cup {Reloaded(hotspots)}
     \/ file' = Garbage /\ saved' = <<>> /\ UNCHANGED given
  /\ disk' = disk \cup {file'} /\ lastError' = FALSE
  /\ UNCHANGED <<hotspots, edits>>

\* The operating system writes the file back.
Flush ==
  /\ disk # {file} /\ disk' = {file}
  /\ UNCHANGED <<hotspots, lastError, file, writing, saved, given, edits>>

\* resetCaseTwinConfig.
Reset ==
  /\ ~writing
  /\ hotspots' = Defaults /\ lastError' = FALSE
  /\ UNCHANGED <<file, disk, writing, saved, given, edits>>

\* Somebody edits the file; it may have an invalid entry anywhere.
Edit ==
  /\ ~writing /\ edits > 0 /\ edits' = edits - 1
  /\ \E h1, h2 \in Hotspots \cup {BadHotspot}, t \in Thresholds :
       \E f \in {NoFile, Garbage, File(<<>>),
                 File(<<[id |-> h1, warnMin |-> Number(t)], [id |-> h2, warnMin |-> Absent]>>)} :
         /\ file' = f /\ disk' = disk \cup {f}
         /\ given' = IF Loads(f) THEN given \cup {FromFile(f.list)} ELSE given
  /\ saved' = <<>>
  /\ UNCHANGED <<hotspots, lastError, writing>>

\* Power fails, perhaps in mid-save or before a save reached the disk, and the
\* program starts again with what is left.
PowerFails ==
  /\ edits > 0 /\ edits' = edits - 1
  /\ file' \in disk /\ disk' = {file'}
  /\ saved' = IF file' = file THEN saved ELSE <<>>
  /\ hotspots' = Defaults /\ lastError' = FALSE /\ writing' = FALSE
  /\ UNCHANGED given

TwinNext == Load \/ SaveOpen \/ SaveWrite \/ Flush \/ Reset \/ Edit \/ PowerFails

-----------------------------------------------------------------------------
\* The layout in memory is the built-in one or, entry for entry, one that was
\* saved or that somebody put into the file, and so is any that a load would give
\* now or after a power failure, though the code does not notice that a write
\* failed and syncs nothing: a file is lost, never mixed up or taken in part.  Where
\* the write reached the file, what a load gives is the list that was saved last.
\* (That a save that reports success can be loaded is not so, see SaveWrite.)
SavedListComesBack ==
  /\ hotspots \in {Defaults} \cup given
  /\ \A f \in disk : Loads(f) => FromFile(f.list) \in given
  /\ saved # <<>> => Loads(file) /\ FromFile(file.list) = Reloaded(saved)

=============================================================================
