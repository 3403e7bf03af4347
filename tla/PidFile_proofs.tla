--------------------------- MODULE PidFile_proofs ---------------------------
(***************************************************************************)
(* Theorems about PidFile, for any number of processes, stops, inodes and  *)
(* kills: the types of the variables, one instance at most, and the pid    *)
(* file that leads to it.                                                  *)
(***************************************************************************)
EXTENDS PidFile, TLAPS

-----------------------------------------------------------------------------
(* The types.                                                                *)

StopReads == [pc: {"none", "read", "remove", "gone"}, pid: {None}]
Signals == [pc: {"term", "hup", "remove"}, pid: Procs]
StopStates == StopReads \cup Signals

LEMMA TypeStart == Init => TypeOK
<1> SUFFICES ASSUME Init
             PROVE  TypeOK
  OBVIOUS
<1>1. doubled \in BOOLEAN /\ robbed \in BOOLEAN
  BY DEF Init
<1>2. stop \in [Stops -> StopStates]
  BY DEF Init, StopIdle, StopStates, StopReads
<1> QED BY <1>1, <1>2 DEF Init, TypeOK, Pcs, StopStates, StopReads, Signals

\* The end of a process, and a move of one.
LEMMA MoveTypes ==
  ASSUME TypeOK, NEW p \in Procs
  PROVE  /\ \A where \in Pcs : Go(p, where) => pc' \in [Procs -> Pcs]
         /\ Ends(p) => /\ pc' \in [Procs -> Pcs]
                       /\ holder' \in [Inodes -> Procs \cup {None}]
                       /\ fd' \in [Procs -> Inodes \cup {NoFile}]
         /\ Exit(p) => /\ pc' \in [Procs -> Pcs]
                       /\ holder' \in [Inodes -> Procs \cup {None}]
                       /\ fd' \in [Procs -> Inodes \cup {NoFile}]
<1>1. \A where \in Pcs : Go(p, where) => pc' \in [Procs -> Pcs]
  BY DEF TypeOK, Go
<1>2. "gone" \in Pcs /\ "atexit" \in Pcs
  BY DEF Pcs
<1>3. Released(p) \in [Inodes -> Procs \cup {None}]
  BY DEF TypeOK, Released
<1>4. ASSUME Ends(p)
      PROVE  /\ pc' \in [Procs -> Pcs]
             /\ holder' \in [Inodes -> Procs \cup {None}]
             /\ fd' \in [Procs -> Inodes \cup {NoFile}]
  BY <1>1, <1>2, <1>3, <1>4 DEF Ends, TypeOK
<1>5. ASSUME Exit(p)
      PROVE  /\ pc' \in [Procs -> Pcs]
             /\ holder' \in [Inodes -> Procs \cup {None}]
             /\ fd' \in [Procs -> Inodes \cup {NoFile}]
  BY <1>1, <1>2, <1>4, <1>5 DEF Exit, TypeOK
<1> QED BY <1>1, <1>4, <1>5

\* A file that is opened has an inode.
LEMMA OpenTypes ==
  ASSUME TypeOK, NEW p \in Procs, OpenFile(p)
  PROVE  /\ name' \in Inodes
         /\ fd' = [fd EXCEPT ![p] = name']
         /\ name # NoFile => name' = name
<1>1. CASE name # NoFile
  BY <1>1 DEF OpenFile, TypeOK
<1>2. CASE name = NoFile
  <2>1. PICK i \in FreshInodes : name' = i /\ fd' = [fd EXCEPT ![p] = i]
    BY <1>2 DEF OpenFile
  <2>2. i \in Inodes
    BY DEF FreshInodes, FreeInodes
  <2> QED BY <1>2, <2>1, <2>2
<1> QED BY <1>1, <1>2

LEMMA WriteTypes ==
  ASSUME TypeOK, NEW p \in Procs, NEW pid \in Procs \cup {None}, Writes(p, pid)
  PROVE  content' \in Procs \cup {None}
  BY DEF TypeOK, Writes

\* The history has its type, whatever happens.
LEMMA HistoryTypes ==
  ASSUME TypeOK, [Next]_vars
  PROVE  doubled' \in BOOLEAN /\ robbed' \in BOOLEAN
<1>1. doubled \in BOOLEAN /\ robbed \in BOOLEAN
  BY DEF TypeOK
<1>2. doubled' = doubled \/ \E p \in Procs : Check(p)
  BY DEF Next, Process, Stopper, Start, Check, OpenPid, WritePid, OpenLock, Lock, Truncate,
     Stamp, Return, Raise, Close, Remove, AtExit, DelPid, RemoveFile, Kill, Stop,
     StopRead, StopTerm, StopHup, StopRemove, vars, history
<1>3. ASSUME NEW p \in Procs, Check(p)
      PROVE  doubled' \in BOOLEAN
  BY <1>1, <1>3, Zenon DEF Check
<1>4. robbed' = robbed \/ RemoveFile
  BY DEF Next, Process, Stopper, Start, Check, OpenPid, WritePid, OpenLock, Lock, Truncate,
     Stamp, Return, Raise, Close, Remove, AtExit, DelPid, Kill, Stop,
     StopRead, StopTerm, StopHup, StopRemove, vars, history
<1>5. RemoveFile => robbed' \in BOOLEAN
  BY <1>1, Zenon DEF RemoveFile
<1> QED BY <1>1, <1>2, <1>3, <1>4, <1>5

\* Where a process goes is a place.
LEMMA Places ==
  /\ {"none", "check", "open", "write", "open_lock", "lock", "truncate", "stamp",
      "run", "close", "remove", "atexit", "del", "gone"} \subseteq Pcs
  BY DEF Pcs

LEMMA StopTypes ==
  ASSUME TypeOK, NEW s \in Stops
  PROVE  /\ stop[s] \in StopStates
         /\ StopGone(s) => stop' \in [Stops -> StopStates]
         /\ stop[s].pc = "none" /\ StopGo(s, "read") => stop' \in [Stops -> StopStates]
         /\ StopGo(s, "remove") => stop' \in [Stops -> StopStates]
         /\ \A where \in {"term", "hup"} :
              stop[s].pc \in {"term", "hup"} /\ StopGo(s, where) =>
                 stop' \in [Stops -> StopStates]
<1>1. stop \in [Stops -> StopStates] /\ stop[s] \in StopStates
  BY DEF TypeOK, StopStates, StopReads, Signals
<1>2. [pc |-> "gone", pid |-> None] \in StopStates
  BY DEF StopStates, StopReads
<1>3. stop[s].pc = "none" => [stop[s] EXCEPT !.pc = "read"] \in StopStates
  BY <1>1 DEF StopStates, StopReads, Signals
<1>4. [stop[s] EXCEPT !.pc = "remove"] \in StopStates
  BY <1>1 DEF StopStates, StopReads, Signals
<1>5. ASSUME NEW where \in {"term", "hup"}, stop[s].pc \in {"term", "hup"}
      PROVE  [stop[s] EXCEPT !.pc = where] \in StopStates
  BY <1>1, <1>5 DEF StopStates, StopReads, Signals
<1> QED BY <1>1, <1>2, <1>3, <1>4, <1>5 DEF StopGone, StopGo

\* A stop that signals has a pid.
LEMMA StopPid ==
  ASSUME TypeOK, NEW s \in Stops, stop[s].pc \in {"term", "hup"}
  PROVE  stop[s].pid \in Procs
  BY DEF TypeOK, StopStates, StopReads, Signals

LEMMA TypeStep ==
  ASSUME TypeOK, [Next]_vars
  PROVE  TypeOK'
<1>0. /\ kind \in Kinds /\ name \in Inodes \cup {NoFile}
      /\ content \in Procs \cup {None}
      /\ holder \in [Inodes -> Procs \cup {None}]
      /\ pc \in [Procs -> Pcs] /\ fd \in [Procs -> Inodes \cup {NoFile}]
      /\ stop \in [Stops -> StopStates] /\ kills \in Nat
  BY DEF TypeOK, StopStates, StopReads, Signals
<1> DEFINE Typed == /\ kind' \in Kinds /\ name' \in Inodes \cup {NoFile}
                    /\ content' \in Procs \cup {None}
                    /\ holder' \in [Inodes -> Procs \cup {None}]
                    /\ pc' \in [Procs -> Pcs] /\ fd' \in [Procs -> Inodes \cup {NoFile}]
                    /\ stop' \in [Stops -> StopStates] /\ kills' \in Nat
<1>00. Typed => TypeOK'
  BY HistoryTypes DEF TypeOK, StopStates, StopReads, Signals
<1>1. ASSUME NEW p \in Procs, Start(p)
      PROVE  Typed
  BY <1>0, <1>1, Places, MoveTypes DEF Start
<1>2. ASSUME NEW p \in Procs, Check(p)
      PROVE  Typed
  BY <1>0, <1>2, Places, MoveTypes DEF Check
<1>3. ASSUME NEW p \in Procs, OpenPid(p)
      PROVE  Typed
  <2>1. fd' = [fd EXCEPT ![p] = name'] /\ name' \in Inodes
    BY <1>3, OpenTypes DEF OpenPid
  <2> QED BY <1>0, <1>3, <2>1, Places, MoveTypes DEF OpenPid
<1>4. ASSUME NEW p \in Procs, WritePid(p)
      PROVE  Typed
  BY <1>0, <1>4, Places, MoveTypes, WriteTypes DEF WritePid
<1>5. ASSUME NEW p \in Procs, OpenLock(p)
      PROVE  Typed
  <2>1. fd' = [fd EXCEPT ![p] = name'] /\ name' \in Inodes
    BY <1>5, OpenTypes DEF OpenLock
  <2> QED BY <1>0, <1>5, <2>1, Places, MoveTypes DEF OpenLock
<1>6. ASSUME NEW p \in Procs, Lock(p)
      PROVE  Typed
  BY <1>0, <1>6, Places, MoveTypes DEF Lock
<1>7. ASSUME NEW p \in Procs, Truncate(p) \/ Stamp(p)
      PROVE  Typed
  BY <1>0, <1>7, Places, MoveTypes, WriteTypes DEF Truncate, Stamp
<1>8. ASSUME NEW p \in Procs, Return(p) \/ Raise(p)
      PROVE  Typed
  BY <1>0, <1>8, Places, MoveTypes DEF Return, Raise
<1>9. ASSUME NEW p \in Procs, Close(p)
      PROVE  Typed
  <2>1. Released(p) \in [Inodes -> Procs \cup {None}]
    BY <1>0 DEF Released
  <2> QED BY <1>0, <1>9, <2>1, Places, MoveTypes DEF Close
<1>10. ASSUME NEW p \in Procs, Remove(p) \/ AtExit(p) \/ DelPid(p)
       PROVE  Typed
  BY <1>0, <1>10, Places, MoveTypes DEF Remove, AtExit, DelPid, RemoveFile
<1>11. ASSUME NEW p \in Procs, Kill(p)
       PROVE  Typed
  BY <1>0, <1>11, MoveTypes DEF Kill
<1>12. ASSUME NEW s \in Stops, Stop(s)
       PROVE  Typed
  <2>1. stop' \in [Stops -> StopStates]
    BY <1>12, StopTypes DEF Stop
  <2> QED BY <1>0, <1>12, <2>1 DEF Stop
<1>13. ASSUME NEW s \in Stops, StopRead(s)
       PROVE  Typed
  <2>1. stop' \in [Stops -> StopStates]
    <3>1. CASE StopGo(s, "remove") \/ StopGone(s)
      BY <3>1, StopTypes
    <3>2. CASE /\ name # NoFile /\ content # None
               /\ stop' = [stop EXCEPT ![s] = [pc |-> "term", pid |-> content]]
      <4>1. content \in Procs
        BY <1>0, <3>2
      <4>2. [pc |-> "term", pid |-> content] \in StopStates
        BY <4>1 DEF StopStates, Signals
      <4> QED BY <1>0, <3>2, <4>2
    <3> QED BY <1>13, <3>1, <3>2 DEF StopRead
  <2> QED BY <1>0, <1>13, <2>1 DEF StopRead
<1>14. ASSUME NEW s \in Stops, StopTerm(s)
       PROVE  Typed
  <2>1. stop' \in [Stops -> StopStates]
    BY <1>14, StopTypes DEF StopTerm
  <2> QED BY <1>0, <1>14, <2>1 DEF StopTerm
<1>15. ASSUME NEW s \in Stops, StopHup(s)
       PROVE  Typed
  <2>1. stop' \in [Stops -> StopStates]
    BY <1>15, StopTypes DEF StopHup
  <2>2. stop[s].pid \in Procs
    BY <1>15, StopPid DEF StopHup
  <2> QED BY <1>0, <1>15, <2>1, <2>2, MoveTypes DEF StopHup
<1>16. ASSUME NEW s \in Stops, StopRemove(s)
       PROVE  Typed
  <2>1. stop' \in [Stops -> StopStates]
    BY <1>16, StopTypes DEF StopRemove
  <2> QED BY <1>0, <1>16, <2>1 DEF StopRemove, RemoveFile
<1>17. CASE UNCHANGED vars
  BY <1>0, <1>00, <1>17 DEF vars
<1> HIDE DEF Typed
<1> QED BY <1>00, <1>1, <1>2, <1>3, <1>4, <1>5, <1>6, <1>7, <1>8, <1>9, <1>10, <1>11,
        <1>12, <1>13, <1>14, <1>15, <1>16, <1>17 DEF Next, Process, Stopper

\* The variables have their types, for any number of processes and stops; a stop
\* that signals has the pid of a process.
THEOREM TypeCorrect == Spec => []TypeOK
<1> QED BY TypeStart, TypeStep, PTL DEF Spec

-----------------------------------------------------------------------------
(* The invariant.                                                            *)

\* Who uses the file: a program with the lock alone opens it at "open_lock".
Uses(p) == pc[p] \in Relying /\ ~ (kind = "lock" /\ pc[p] = "open_lock")

\* Who has got the lock.
Guards(p) == pc[p] \in {"truncate", "stamp"} \/ (pc[p] = "run" /\ kind # "daemon")

Underway(p) == pc[p] \in Relying \cup {"open"}

\* Who guards holds the lock of its inode, come what may.  Without a robbery,
\* that inode is the one the name leads to, and so it is for all who use the
\* file.  Without a start too many, nobody else writes to it.
ProcInv(p) ==
    /\ kind = "lock" => pc[p] \notin {"check", "open", "write", "atexit", "del"}
    /\ Guards(p) \/ pc[p] = "lock" => fd[p] \in Inodes
    /\ Guards(p) => holder[fd[p]] = p
    /\ ~ robbed /\ Uses(p) => name \in Inodes /\ fd[p] = name
    /\ ~ robbed /\ ~ doubled /\ pc[p] = "run" => content = p

\* With the check of start(), one daemon at most is on its way or in its function.
Single ==
    ~ robbed /\ ~ doubled /\ kind # "lock" =>
        \A p, q \in Procs : Underway(p) /\ Underway(q) => p = q

FileInv == Single /\ \A p \in Procs : ProcInv(p)

LEMMA FileStart == Init => FileInv
  BY DEF Init, FileInv, Single, ProcInv, Uses, Guards, Underway, Relying

\* What a move and an end change.
LEMMA Moves ==
  ASSUME TypeOK, NEW p \in Procs
  PROVE  /\ \A where : Go(p, where) => /\ pc'[p] = where
                                     /\ \A q \in Procs \ {p} : pc'[q] = pc[q]
         /\ Ends(p) => /\ pc'[p] = "gone" /\ fd'[p] = NoFile
                       /\ \A q \in Procs \ {p} : pc'[q] = pc[q] /\ fd'[q] = fd[q]
                       /\ \A i \in Inodes, q \in Procs \ {p} :
                            holder[i] = q => holder'[i] = q
  BY DEF TypeOK, Go, Ends, Released

\* A process that stands still keeps its part of the invariant when its locks
\* stay, the name stays unless nobody is robbed of it, and the pid stays too.
LEMMA StandsStill ==
  ASSUME TypeOK, NEW q \in Procs, ProcInv(q), kind' = kind,
         pc'[q] = pc[q], fd'[q] = fd[q],
         \A i \in Inodes : holder[i] = q => holder'[i] = q,
         robbed => robbed', doubled => doubled',
         ~ robbed' /\ Uses(q) => name' = name,
         ~ robbed' /\ ~ doubled' /\ pc[q] = "run" => content' = content
  PROVE  ProcInv(q)'
<1>1. (Uses(q)' <=> Uses(q)) /\ (Guards(q)' <=> Guards(q))
  BY DEF Uses, Guards
<1>2. /\ kind' = "lock" => pc'[q] \notin {"check", "open", "write", "atexit", "del"}
      /\ Guards(q)' \/ pc'[q] = "lock" => fd'[q] \in Inodes
      /\ Guards(q)' => holder'[fd'[q]] = q
  BY <1>1 DEF ProcInv
<1>3. ~ robbed' /\ Uses(q)' => name' \in Inodes /\ fd'[q] = name'
  BY <1>1 DEF ProcInv
<1>4. ~ robbed' /\ ~ doubled' /\ pc'[q] = "run" => content' = q
  BY DEF ProcInv
<1> QED BY <1>2, <1>3, <1>4 DEF ProcInv

\* Nobody new is on the way.
LEMMA SingleKept ==
  ASSUME Single, NEW p \in Procs, kind' = kind, \A q \in Procs \ {p} : pc'[q] = pc[q],
         Underway(p)' => Underway(p), robbed => robbed', doubled => doubled'
  PROVE  Single'
  BY DEF Single, Underway

\* Who writes to the file that has the name is the only one to use it.
LEMMA OneWriter ==
  ASSUME TypeOK, FileInv, NEW p \in Procs, NEW q \in Procs, ~ robbed, ~ doubled,
         pc[p] \in {"write", "truncate", "stamp"}, pc[q] = "run"
  PROVE  FALSE
<1>1. ProcInv(p) /\ ProcInv(q) /\ Single
  BY DEF FileInv
<1>2. CASE kind = "lock"
  <2>1. Guards(p) /\ Guards(q) /\ Uses(p) /\ Uses(q)
    BY <1>1, <1>2 DEF ProcInv, Guards, Uses, Relying
  <2> QED BY <1>1, <2>1 DEF ProcInv
<1>3. CASE kind # "lock"
  <2>1. Underway(p) /\ Underway(q)
    BY DEF Underway, Relying
  <2> QED BY <1>1, <1>3, <2>1 DEF Single
<1> QED BY <1>2, <1>3

\* When a file is made anew nobody uses one.
LEMMA NobodyUses ==
  ASSUME TypeOK, FileInv, NEW q \in Procs, ~ robbed, name = NoFile
  PROVE  ~ Uses(q)
  BY InodesAssumption DEF FileInv, ProcInv, NoFile

\* A removal robs everybody who uses the file.
LEMMA NobodyRobbed ==
  ASSUME TypeOK, FileInv, NEW q \in Procs, RemoveFile, ~ robbed'
  PROVE  ~ robbed /\ ~ Uses(q)
<1>1. ~ robbed /\ ~ (fd[q] = name /\ pc[q] \in Relying)
  BY DEF RemoveFile
<1> QED BY <1>1 DEF FileInv, ProcInv, Uses

\* A process that is on its way out, or has not begun, has only the places.
LEMMA Outside ==
  ASSUME NEW p \in Procs, pc'[p] \in {"close", "remove", "gone"}
                        \/ (pc'[p] \in {"atexit", "del", "check"} /\ kind' # "lock")
                        \/ (pc'[p] = "open_lock" /\ kind' = "lock")
  PROVE  ProcInv(p)'
  BY DEF ProcInv, Guards, Uses, Relying

-----------------------------------------------------------------------------
(* The steps.                                                                *)

LEMMA FileStep ==
  ASSUME TypeOK, FileInv, [Next]_vars
  PROVE  FileInv'
<1>1. Single /\ \A p \in Procs : ProcInv(p)
  BY DEF FileInv
<1>2. /\ kind' = kind /\ NoFile \notin Inodes
      /\ name \in Inodes \cup {NoFile} /\ fd \in [Procs -> Inodes \cup {NoFile}]
      /\ holder \in [Inodes -> Procs \cup {None}]
      /\ pc \in [Procs -> Pcs]
  BY InodesAssumption DEF TypeOK, NoFile, Next, Process, Stopper, Start, Check, OpenPid,
     WritePid, OpenLock, Lock, Truncate, Stamp, Return, Raise, Close, Remove, AtExit,
     DelPid, Kill, Stop, StopRead, StopTerm, StopHup, StopRemove, vars
<1>3. ASSUME NEW p \in Procs, Start(p)
      PROVE  FileInv'
  <2>1. UNCHANGED <<name, content, holder, fd, doubled, robbed>>
    BY <1>3 DEF Start, history
  <2>2. /\ pc'[p] = IF kind = "lock" THEN "open_lock" ELSE "check"
        /\ \A q \in Procs \ {p} : pc'[q] = pc[q]
    BY <1>3, Moves DEF Start
  <2>3. ProcInv(p)'
    BY <1>2, <2>2, Outside
  <2>4. \A q \in Procs \ {p} : ProcInv(q)'
    BY <1>1, <1>2, <2>1, <2>2, StandsStill
  <2>5. ~ (kind = "lock") => Single'
    <3>1. kind # "lock" => ~ Underway(p)'
      BY <2>2 DEF Underway, Relying
    <3> QED BY <1>1, <1>2, <2>1, <2>2, <3>1, SingleKept
  <2>6. kind = "lock" => Single'
    BY <1>2 DEF Single
  <2> QED BY <2>3, <2>4, <2>5, <2>6 DEF FileInv
<1>4. ASSUME NEW p \in Procs, Check(p)
      PROVE  FileInv'
  <2>0. pc[p] = "check" /\ kind # "lock" /\ UNCHANGED <<name, content, robbed>>
    BY <1>1, <1>4 DEF Check, ProcInv
  <2>1. CASE name = NoFile /\ Go(p, "open")
    <3>1. /\ pc'[p] = "open" /\ \A q \in Procs \ {p} : pc'[q] = pc[q]
          /\ UNCHANGED <<holder, fd>>
      BY <1>2, <1>4, <2>1, Moves DEF Check
    <3>2. doubled' = (doubled \/ \E q \in Procs : pc[q] = "open")
      BY <1>2, <1>4, <2>0, <2>1, Moves DEF Check, Ends, Go
    <3>3. ProcInv(p)'
      BY <1>2, <2>0, <3>1 DEF ProcInv, Guards, Uses, Relying
    <3>4. \A q \in Procs \ {p} : ProcInv(q)'
      BY <1>1, <1>2, <2>0, <3>1, <3>2, StandsStill
    <3>5. ASSUME ~ robbed', ~ doubled', NEW q \in Procs
          PROVE  ~ Underway(q)
      <4>1. pc[q] # "open" /\ ~ robbed
        BY <2>0, <3>2, <3>5
      <4>2. ~ Uses(q)
        BY <2>1, <4>1, NobodyUses
      <4> QED BY <2>0, <4>1, <4>2 DEF Uses, Underway
    <3>6. Single'
      BY <3>1, <3>5 DEF Single, Underway
    <3> QED BY <3>3, <3>4, <3>6 DEF FileInv
  <2>2. CASE Ends(p) /\ UNCHANGED doubled
    <3>1. /\ pc'[p] = "gone" /\ \A q \in Procs \ {p} : pc'[q] = pc[q] /\ fd'[q] = fd[q]
          /\ \A i \in Inodes, q \in Procs \ {p} : holder[i] = q => holder'[i] = q
      BY <2>2, Moves
    <3>2. ProcInv(p)'
      BY <3>1, Outside
    <3>3. \A q \in Procs \ {p} : ProcInv(q)'
      BY <1>1, <1>2, <2>0, <2>2, <3>1, StandsStill
    <3>4. Single'
      <4>1. ~ Underway(p)'
        BY <3>1 DEF Underway, Relying
      <4> QED BY <1>1, <1>2, <2>0, <2>2, <3>1, <4>1, SingleKept
    <3> QED BY <3>2, <3>3, <3>4 DEF FileInv
  <2> QED BY <1>4, <2>1, <2>2 DEF Check
<1>5. ASSUME NEW p \in Procs, OpenPid(p)
      PROVE  FileInv'
  <2>0. pc[p] = "open" /\ kind # "lock" /\ UNCHANGED <<holder, doubled, robbed>>
    BY <1>1, <1>5 DEF OpenPid, ProcInv, history
  <2>1. /\ pc'[p] = "write" /\ \A q \in Procs \ {p} : pc'[q] = pc[q]
    BY <1>5, Moves DEF OpenPid
  <2>2. /\ name' \in Inodes /\ fd' = [fd EXCEPT ![p] = name']
        /\ name # NoFile => name' = name
    BY <1>5, OpenTypes DEF OpenPid
  <2>3. fd'[p] = name' /\ \A q \in Procs \ {p} : fd'[q] = fd[q]
    BY <1>2, <2>2
  <2>4. ProcInv(p)'
    BY <1>2, <2>0, <2>1, <2>2, <2>3 DEF ProcInv, Guards, Uses, Relying
  <2>5. ASSUME NEW q \in Procs \ {p}
        PROVE  ProcInv(q)'
    <3>1. ~ robbed' /\ Uses(q) => name' = name
      BY <2>0, <2>2, NobodyUses
    <3>2. ~ robbed' /\ ~ doubled' => pc[q] # "run"
      BY <1>1, <2>0 DEF Single, Underway, Relying
    <3> QED BY <1>1, <1>2, <2>0, <2>1, <2>3, <3>1, <3>2, StandsStill
  <2>6. Single'
    BY <1>1, <1>2, <2>0, <2>1, SingleKept DEF Underway
  <2> QED BY <2>4, <2>5, <2>6 DEF FileInv
<1>6. ASSUME NEW p \in Procs, WritePid(p) \/ Truncate(p) \/ Stamp(p)
      PROVE  FileInv'
  <2>0. pc[p] \in {"write", "truncate", "stamp"} /\ UNCHANGED <<name, holder, fd, doubled, robbed>>
    BY <1>6 DEF WritePid, Truncate, Stamp, history
  <2>1. /\ \/ pc[p] = "write" /\ kind = "daemon" /\ pc'[p] = "run"
           \/ pc[p] = "write" /\ kind # "daemon" /\ pc'[p] = "open_lock"
           \/ pc[p] = "truncate" /\ pc'[p] = "stamp"
           \/ pc[p] = "stamp" /\ pc'[p] = "run"
        /\ \A q \in Procs \ {p} : pc'[q] = pc[q]
    BY <1>6, Moves DEF WritePid, Truncate, Stamp
  <2>2. ProcInv(p) /\ (Uses(p)' => Uses(p)) /\ (Guards(p)' => Guards(p))
    BY <1>1, <1>2, <2>1 DEF Uses, Guards, Relying
  <2>3. ~ robbed => fd[p] = name
    <3>1. Uses(p)
      BY <2>0 DEF Uses, Relying
    <3> QED BY <2>2, <3>1 DEF ProcInv
  <2>4. pc'[p] = "run" => Writes(p, p)
    BY <1>6, <2>1, Moves DEF WritePid, Truncate, Stamp
  <2>5. ~ robbed /\ pc'[p] = "run" => content' = p
    BY <2>3, <2>4 DEF Writes
  <2>6. ProcInv(p)'
    <3>1. kind = "lock" => pc'[p] \in {"stamp", "run"}
      BY <2>1, <2>2 DEF ProcInv
    <3>2. Guards(p)' \/ pc'[p] = "lock" => Guards(p)
      BY <2>1, <2>2
    <3> QED BY <1>2, <2>0, <2>2, <2>5, <3>1, <3>2 DEF ProcInv
  <2>7. ASSUME NEW q \in Procs \ {p}
        PROVE  ProcInv(q)'
    <3>1. ~ robbed' /\ ~ doubled' => pc[q] # "run"
      BY <2>0, OneWriter
    <3> QED BY <1>1, <1>2, <2>0, <2>1, <3>1, StandsStill
  <2>8. Single'
    <3>1. Underway(p)
      BY <2>0 DEF Underway, Relying
    <3> QED BY <1>1, <1>2, <2>0, <2>1, <3>1, SingleKept
  <2> QED BY <2>6, <2>7, <2>8 DEF FileInv
<1>7. ASSUME NEW p \in Procs, OpenLock(p)
      PROVE  FileInv'
  <2>0. pc[p] = "open_lock" /\ UNCHANGED <<content, holder, doubled, robbed>>
    BY <1>7 DEF OpenLock, history
  <2>1. /\ pc'[p] = "lock" /\ \A q \in Procs \ {p} : pc'[q] = pc[q]
    BY <1>7, Moves DEF OpenLock
  <2>2. /\ name' \in Inodes /\ fd' = [fd EXCEPT ![p] = name']
        /\ name # NoFile => name' = name
    BY <1>7, OpenTypes DEF OpenLock
  <2>3. fd'[p] = name' /\ \A q \in Procs \ {p} : fd'[q] = fd[q]
    BY <1>2, <2>2
  <2>4. ProcInv(p)'
    BY <1>2, <2>1, <2>2, <2>3 DEF ProcInv, Guards, Uses, Relying
  <2>5. ASSUME NEW q \in Procs \ {p}
        PROVE  ProcInv(q)'
    <3>1. ~ robbed' /\ Uses(q) => name' = name
      BY <2>0, <2>2, NobodyUses
    <3> QED BY <1>1, <1>2, <2>0, <2>1, <2>3, <3>1, StandsStill
  <2>6. Single'
    <3>1. Underway(p)
      BY <2>0 DEF Underway, Relying
    <3> QED BY <1>1, <1>2, <2>0, <2>1, <3>1, SingleKept
  <2> QED BY <2>4, <2>5, <2>6 DEF FileInv
<1>8. ASSUME NEW p \in Procs, Lock(p)
      PROVE  FileInv'
  <2>0. pc[p] = "lock" /\ fd[p] \in Inodes /\ UNCHANGED <<name, content, doubled, robbed>>
    BY <1>1, <1>8 DEF Lock, ProcInv, history
  <2>01. Underway(p)
    BY <2>0 DEF Underway, Relying
  <2>1. CASE /\ holder[fd[p]] = None /\ holder' = [holder EXCEPT ![fd[p]] = p]
             /\ Go(p, "truncate") /\ UNCHANGED fd
    <3>1. pc'[p] = "truncate" /\ \A q \in Procs \ {p} : pc'[q] = pc[q]
      BY <2>1, Moves
    <3>2. /\ holder'[fd[p]] = p
          /\ \A i \in Inodes, q \in Procs : holder[i] = q => holder'[i] = q
      BY <1>2, <2>0, <2>1, NoneAssumption
    <3>3. ProcInv(p)'
      <4>1. Uses(p) /\ ProcInv(p)
        BY <1>1, <2>0 DEF Uses, Relying
      <4> QED BY <1>2, <2>0, <2>1, <3>1, <3>2, <4>1 DEF ProcInv, Guards
    <3>4. \A q \in Procs \ {p} : ProcInv(q)'
      BY <1>1, <1>2, <2>0, <2>1, <3>1, <3>2, StandsStill
    <3>5. Single'
      BY <1>1, <1>2, <2>0, <2>01, <3>1, SingleKept
    <3> QED BY <3>3, <3>4, <3>5 DEF FileInv
  <2>2. CASE Exit(p)
    <3>1. /\ pc'[p] = IF kind = "lock" THEN "gone" ELSE "atexit"
          /\ \A q \in Procs \ {p} : pc'[q] = pc[q] /\ fd'[q] = fd[q]
          /\ \A i \in Inodes, q \in Procs \ {p} : holder[i] = q => holder'[i] = q
      BY <2>2, Moves DEF Exit
    <3>2. ProcInv(p)'
      BY <1>2, <3>1, Outside
    <3>3. \A q \in Procs \ {p} : ProcInv(q)'
      BY <1>1, <1>2, <2>0, <3>1, StandsStill
    <3>4. Single'
      BY <1>1, <1>2, <2>0, <2>01, <3>1, SingleKept
    <3> QED BY <3>2, <3>3, <3>4 DEF FileInv
  <2> QED BY <1>8, <2>1, <2>2 DEF Lock
<1>9. ASSUME NEW p \in Procs, Return(p) \/ Raise(p) \/ Close(p) \/ AtExit(p) \/ Kill(p)
      PROVE  FileInv'
  <2>0. UNCHANGED <<name, content, doubled, robbed>>
    BY <1>9 DEF Return, Raise, Close, AtExit, Kill, history
  <2>1. /\ \/ pc'[p] \in {"close", "remove", "gone"}
           \/ pc'[p] \in {"atexit", "del"} /\ kind' # "lock"
        /\ \A q \in Procs \ {p} : pc'[q] = pc[q] /\ fd'[q] = fd[q]
        /\ \A i \in Inodes, q \in Procs \ {p} : holder[i] = q => holder'[i] = q
    <3>1. CASE Return(p) \/ Raise(p) \/ Kill(p)
      BY <1>2, <3>1, Moves DEF Return, Raise, Exit, Kill
    <3>2. CASE Close(p)
      BY <1>2, <3>2, Moves DEF Close, Released
    <3>3. CASE AtExit(p)
      <4>1. kind # "lock"
        BY <1>1, <3>3 DEF AtExit, ProcInv
      <4> QED BY <1>2, <3>3, <4>1, Moves DEF AtExit
    <3> QED BY <1>9, <3>1, <3>2, <3>3
  <2>2. ProcInv(p)'
    BY <2>1, Outside
  <2>3. \A q \in Procs \ {p} : ProcInv(q)'
    BY <1>1, <1>2, <2>0, <2>1, StandsStill
  <2>4. Single'
    <3>1. ~ Underway(p)'
      BY <2>1 DEF Underway, Relying
    <3> QED BY <1>1, <1>2, <2>0, <2>1, <3>1, SingleKept
  <2> QED BY <2>2, <2>3, <2>4 DEF FileInv
<1>10. ASSUME NEW p \in Procs, Remove(p) \/ DelPid(p)
       PROVE  FileInv'
  <2>0. RemoveFile /\ doubled' = doubled /\ (robbed => robbed')
    BY <1>10 DEF Remove, DelPid, RemoveFile
  <2>1. /\ \/ pc'[p] = "gone"
           \/ pc'[p] = "atexit" /\ kind' # "lock"
        /\ \A q \in Procs \ {p} : pc'[q] = pc[q] /\ fd'[q] = fd[q]
        /\ \A i \in Inodes, q \in Procs \ {p} : holder[i] = q => holder'[i] = q
    BY <1>2, <1>10, Moves DEF Remove, DelPid, Exit
  <2>2. ProcInv(p)'
    BY <2>1, Outside
  <2>3. ASSUME NEW q \in Procs \ {p}
        PROVE  ProcInv(q)'
    <3>1. ~ robbed' => ~ Uses(q)
      BY <2>0, NobodyRobbed
    <3>2. pc[q] = "run" => Uses(q)
      BY DEF Uses, Relying
    <3> QED BY <1>1, <1>2, <2>0, <2>1, <3>1, <3>2, StandsStill
  <2>4. Single'
    <3>1. ~ Underway(p)'
      BY <2>1 DEF Underway, Relying
    <3> QED BY <1>1, <1>2, <2>0, <2>1, <3>1, SingleKept
  <2> QED BY <2>2, <2>3, <2>4 DEF FileInv
<1>11. ASSUME NEW s \in Stops, Stop(s) \/ StopRead(s) \/ StopTerm(s)
       PROVE  FileInv'
  <2>1. UNCHANGED <<name, content, holder, pc, fd, doubled, robbed>>
    BY <1>11 DEF Stop, StopRead, StopTerm, history
  <2>2. \A q \in Procs : ProcInv(q)'
    BY <1>1, <1>2, <2>1, StandsStill
  <2> QED BY <1>1, <1>2, <2>1, <2>2 DEF FileInv, Single, Underway
<1>12. ASSUME NEW s \in Stops, StopHup(s)
       PROVE  FileInv'
  <2>0. UNCHANGED <<name, content, doubled, robbed>>
    BY <1>12 DEF StopHup, history
  <2>00. PICK p \in Procs : p = stop[s].pid
    BY <1>12, StopPid DEF StopHup
  <2>1. CASE Ends(p)
    <3>1. /\ pc'[p] = "gone"
          /\ \A q \in Procs \ {p} : pc'[q] = pc[q] /\ fd'[q] = fd[q]
          /\ \A i \in Inodes, q \in Procs \ {p} : holder[i] = q => holder'[i] = q
      BY <2>0, <2>1, Moves
    <3>2. ProcInv(p)'
      BY <2>0, <3>1, Outside
    <3>3. \A q \in Procs \ {p} : ProcInv(q)'
      BY <1>1, <1>2, <2>0, <3>1, StandsStill
    <3>4. Single'
      <4>1. ~ Underway(p)'
        BY <3>1 DEF Underway, Relying
      <4> QED BY <1>1, <1>2, <2>0, <3>1, <4>1, SingleKept
    <3> QED BY <3>2, <3>3, <3>4 DEF FileInv
  <2>2. CASE UNCHANGED <<pc, holder, fd>>
    <3>1. \A q \in Procs : ProcInv(q)'
      BY <1>1, <1>2, <2>0, <2>2, StandsStill
    <3> QED BY <1>1, <1>2, <2>0, <2>2, <3>1 DEF FileInv, Single, Underway
  <2> QED BY <1>12, <2>00, <2>1, <2>2 DEF StopHup
<1>13. ASSUME NEW s \in Stops, StopRemove(s)
       PROVE  FileInv'
  <2>0. RemoveFile /\ doubled' = doubled /\ (robbed => robbed') /\ UNCHANGED <<holder, pc, fd>>
    BY <1>13 DEF StopRemove, RemoveFile
  <2>1. ASSUME NEW q \in Procs
        PROVE  ProcInv(q)'
    <3>1. ~ robbed' => ~ Uses(q)
      BY <2>0, NobodyRobbed
    <3>2. pc[q] = "run" => Uses(q)
      BY DEF Uses, Relying
    <3> QED BY <1>1, <1>2, <2>0, <3>1, <3>2, StandsStill
  <2> QED BY <1>1, <1>2, <2>0, <2>1 DEF FileInv, Single, Underway
<1>14. CASE UNCHANGED vars
  <2>1. UNCHANGED <<name, content, holder, pc, fd, doubled, robbed>>
    BY <1>14 DEF vars
  <2>2. \A q \in Procs : ProcInv(q)'
    BY <1>1, <1>2, <2>1, StandsStill
  <2> QED BY <1>1, <1>2, <2>1, <2>2 DEF FileInv, Single, Underway
<1> QED BY <1>3, <1>4, <1>5, <1>6, <1>7, <1>8, <1>9, <1>10, <1>11, <1>12, <1>13, <1>14
        DEF Next, Process, Stopper

LEMMA FileHolds == Spec => [](TypeOK /\ FileInv)
<1>1. Init => TypeOK /\ FileInv
  BY TypeStart, FileStart
<1>2. TypeOK /\ FileInv /\ [Next]_vars => (TypeOK /\ FileInv)'
  BY TypeStep, FileStep
<1> QED BY <1>1, <1>2, PTL DEF Spec

\* A program that takes the lock is in its function at most once as long as no
\* removal has taken a file from under a process that had it open, however the
\* commands overlap and whoever is killed, returns or raises.
THEOREM OneInstanceAtMost == Spec => []OneInstance
<1>1. FileInv => OneInstance
  <2> SUFFICES ASSUME FileInv, kind # "daemon", ~ robbed, NEW p \in Procs, NEW q \in Procs,
                      pc[p] = "run", pc[q] = "run"
               PROVE  p = q
    BY DEF OneInstance, Running
  <2>1. Guards(p) /\ Guards(q) /\ Uses(p) /\ Uses(q)
    BY DEF Guards, Uses, Relying
  <2> QED BY <2>1 DEF FileInv, ProcInv
<1> QED BY <1>1, FileHolds, PTL

\* The file leads to every process in the function and holds its pid, so that stop
\* finds it, unless there was such a removal or a start whose check fell between
\* the check of another and the opening of its file.
THEOREM PidFileNamesDaemon == Spec => []PidNamesDaemon
<1>1. FileInv => PidNamesDaemon
  <2> SUFFICES ASSUME FileInv, ~ doubled, ~ robbed, NEW p \in Procs, pc[p] = "run"
               PROVE  name # NoFile /\ content = p
    BY DEF PidNamesDaemon, Running
  <2>1. Uses(p)
    BY DEF Uses, Relying
  <2> QED BY <2>1, InodesAssumption DEF FileInv, ProcInv, NoFile
<1> QED BY <1>1, FileHolds, PTL
=============================================================================
