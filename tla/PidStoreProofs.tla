--------------------------- MODULE PidStoreProofs ---------------------------
(***************************************************************************)
(* Proofs about PidStore, for any number of sidecars and pids, whatever    *)
(* file names their processes show.  What the file says follows from what  *)
(* the entries say, because whoever writes holds the mutex and writes the  *)
(* entries of that moment; and what the next run finds follows from what   *)
(* the file says.                                                          *)
(***************************************************************************)
EXTENDS PidStore, TLAPS

(* Supervisors work only while the app is up. *)
QuietInv ==
  /\ app # "up" => \A n \in Sidecar : stage[n] = "down"
  /\ app = "cleaned" => entries = Empty

(* The writer is the one that holds the mutex. *)
WriteInv ==
  /\ \A w \in Writers : json[w] # NoJson =>
       locked = w /\ json[w] = entries /\ Flushes(w)
  /\ locked # Nobody => json[locked] # NoJson

EntryInv ==
  app = "up" => \A n \in Sidecar :
    stage[n] \in {"down", "up", "inserted", "removed"} => entries[n] = pid[n]

(* What the operating system may show of a process of sidecar n *)
ProgramsOf(n) == [exe : Image[n], of : {n}]

(* A sidecar process is the one its supervisor holds, or an orphan. *)
ProcessInv ==
  /\ \A n \in Sidecar : pid[n] # NoPid =>
       process[pid[n]] \in ProgramsOf(n) /\ pid[n] \notin orphans
  /\ \A p \in Pid : process[p] # Vacant /\ process[p].of \in Sidecar =>
       p \in orphans \/ p = pid[process[p].of]

(* The cleanup looks for what the file names. *)
CleanInv ==
  app = "clean" => \A n \in Sidecar :
    entries[n] # NoPid => file # NoJson /\ file[n] = entries[n]

(* An orphan that can be found is named in the file until the cleanup,     *)
(* also if the cleanup is cut short, and in the entries meanwhile.         *)
OrphanInv ==
  \A p \in orphans \ (early \cup torn) : process[p].exe = Exe[process[p].of] =>
    /\ app \in {"down", "clean"}
    /\ file # NoJson /\ file[process[p].of] = p
    /\ app = "clean" => entries[process[p].of] = p

IInv ==
  /\ TypeOK /\ QuietInv /\ WriteInv /\ EntryInv /\ FileTracks
  /\ ProcessInv /\ CleanInv /\ OrphanInv

USE ExeAssumption, NoPidAssumption, NoJsonAssumption, LauncherAssumption

(* A program is not the absence of one. *)
LEMMA ProgramIsNotVacant == \A x \in Program : x # Vacant
  BY DEF Program, Vacant

(* What a sidecar runs is a program of that sidecar. *)
LEMMA ProgramsOfSidecar ==
  ASSUME NEW n \in Sidecar, NEW x \in ProgramsOf(n)
  PROVE  x \in Program /\ x # Vacant /\ x.of = n
<1>1. Image[n] \subseteq Shown
  BY DEF Shown, Range
<1>2. x \in Program /\ x.of = n
  BY <1>1 DEF ProgramsOf, Program
<1> QED
  BY <1>2, ProgramIsNotVacant

(* Initially nothing is recorded and nothing runs. *)
LEMMA InitInv == Init => IInv
  BY DEF Init, IInv, TypeOK, QuietInv, WriteInv, EntryInv, FileTracks,
         ProcessInv, CleanInv, OrphanInv, Empty, Silent, Entries, Writers, Vacant

-----------------------------------------------------------------------------
(* Every step preserves the types. *)
LEMMA TypeStep ==
  TypeOK /\ QuietInv /\ WriteInv /\ ProcessInv /\ [Next]_vars => TypeOK'
<1> SUFFICES ASSUME TypeOK, QuietInv, WriteInv, ProcessInv, [Next]_vars
             PROVE TypeOK'
  OBVIOUS
<1> USE DEF TypeOK, vars, store, past, Entries, Writers
<1>1. CASE Launch
  BY <1>1 DEF Launch, Empty
<1>2. ASSUME NEW n \in Sidecar, KillStale(n) PROVE TypeOK'
  BY <1>2 DEF KillStale, Dies
<1>3. CASE CleanupEnds
  BY <1>3 DEF CleanupEnds
<1>4. ASSUME NEW w \in Writers, BeginFlush(w) PROVE TypeOK'
  BY <1>4 DEF BeginFlush
<1>5. ASSUME NEW w \in Writers, Truncate(w) PROVE TypeOK'
  BY <1>5 DEF Truncate
<1>6. ASSUME NEW w \in Writers, Write(w) PROVE TypeOK'
  <2>1. Flushes(w)
    BY <1>6 DEF Write, WriteInv
  <2> QED
    BY <1>6, <2>1 DEF Write, Flushed, Flushes
<1>7. ASSUME NEW n \in Sidecar, NEW p \in Pid, Spawn(n, p) PROVE TypeOK'
  <2>1. PICK x \in ProgramsOf(n) : Starts(p, x)
    BY <1>7 DEF Spawn, ProgramsOf
  <2>2. process' \in [Pid -> Program \cup {Vacant}]
    BY <2>1, ProgramsOfSidecar DEF Starts
  <2>3. orphans' \subseteq {q \in Pid : process'[q] # Vacant /\ process'[q].of \in Sidecar}
    BY <1>7, <2>1 DEF Spawn, Starts
  <2> QED
    BY <1>7, <2>2, <2>3 DEF Spawn, Step
<1>8. ASSUME NEW n \in Sidecar, Insert(n) PROVE TypeOK'
  BY <1>8 DEF Insert, Step
<1>9. ASSUME NEW n \in Sidecar, End(n) PROVE TypeOK'
  BY <1>9 DEF End, Step, Dies
<1>10. ASSUME NEW n \in Sidecar, Remove(n) PROVE TypeOK'
  BY <1>10 DEF Remove, Step
<1>11. CASE Crash
  <2>1. early' \subseteq orphans' /\ torn' \subseteq orphans'
    <3>1. orphans \subseteq orphans'
      BY <1>11 DEF Crash
    <3>2. ASSUME NEW m \in Sidecar, stage[m] \in {"spawned", "inserted"}
          PROVE pid[m] \in orphans'
      <4>1. pid[m] \in Pid /\ process[pid[m]] \in ProgramsOf(m)
        BY <3>2 DEF ProcessInv
      <4>2. process[pid[m]] # Vacant /\ process[pid[m]].of = m
        BY <4>1, ProgramsOfSidecar
      <4> QED
        BY <1>11, <4>1, <4>2 DEF Crash
    <3> QED
      BY <1>11, <3>1, <3>2 DEF Crash
  <2> QED
    BY <1>11, <2>1 DEF Crash, Empty, Silent
<1>12. ASSUME NEW p \in Pid, OrphanExits(p) PROVE TypeOK'
  BY <1>12 DEF OrphanExits, Dies
<1>13. ASSUME NEW p \in Pid, NEW e \in Shown, OtherStarts(p, e)
       PROVE TypeOK'
  BY <1>13 DEF OtherStarts, Starts, Program, Vacant
<1>14. ASSUME NEW p \in Pid, OtherExits(p) PROVE TypeOK'
  BY <1>14 DEF OtherExits, Dies
<1>15. CASE UNCHANGED vars
  BY <1>15
<1> QED
  BY <1>1, <1>2, <1>3, <1>4, <1>5, <1>6, <1>7, <1>8, <1>9, <1>10, <1>11,
     <1>12, <1>13, <1>14, <1>15 DEF Next

-----------------------------------------------------------------------------
(* Supervisors idle while the app is not up, and nobody writes but under   *)
(* the mutex.                                                              *)
LEMMA WriteStep ==
  TypeOK /\ QuietInv /\ WriteInv /\ [Next]_vars => QuietInv' /\ WriteInv'
<1> SUFFICES ASSUME TypeOK, QuietInv, WriteInv, [Next]_vars
             PROVE QuietInv' /\ WriteInv'
  OBVIOUS
<1> USE DEF TypeOK, QuietInv, WriteInv, Flushes, vars, store, past, Entries,
            Writers
<1>1. CASE Launch
  BY <1>1 DEF Launch, Empty
<1>2. ASSUME NEW n \in Sidecar, KillStale(n) PROVE QuietInv' /\ WriteInv'
  BY <1>2 DEF KillStale
<1>3. CASE CleanupEnds
  BY <1>3 DEF CleanupEnds
<1>4. ASSUME NEW w \in Writers, BeginFlush(w) PROVE QuietInv' /\ WriteInv'
  BY <1>4 DEF BeginFlush
<1>5. ASSUME NEW w \in Writers, Truncate(w) PROVE QuietInv' /\ WriteInv'
  BY <1>5 DEF Truncate
<1>6. ASSUME NEW w \in Writers, Write(w) PROVE QuietInv' /\ WriteInv'
  BY <1>6 DEF Write, Flushed
<1>7. ASSUME NEW n \in Sidecar, NEW p \in Pid, Spawn(n, p)
      PROVE QuietInv' /\ WriteInv'
  BY <1>7 DEF Spawn, Step
<1>8. ASSUME NEW n \in Sidecar, Insert(n) PROVE QuietInv' /\ WriteInv'
  BY <1>8 DEF Insert, Step
<1>9. ASSUME NEW n \in Sidecar, End(n) PROVE QuietInv' /\ WriteInv'
  BY <1>9 DEF End, Step
<1>10. ASSUME NEW n \in Sidecar, Remove(n) PROVE QuietInv' /\ WriteInv'
  BY <1>10 DEF Remove, Step
<1>11. CASE Crash
  BY <1>11 DEF Crash, Empty, Silent
<1>12. ASSUME NEW p \in Pid,
              \/ OrphanExits(p) \/ OtherExits(p)
              \/ \E e \in Shown : OtherStarts(p, e)
       PROVE QuietInv' /\ WriteInv'
  BY <1>12 DEF OrphanExits, OtherExits, OtherStarts
<1>13. CASE UNCHANGED vars
  BY <1>13
<1> QED
  BY <1>1, <1>2, <1>3, <1>4, <1>5, <1>6, <1>7, <1>8, <1>9, <1>10, <1>11,
     <1>12, <1>13 DEF Next

(* The entries follow the supervisors, and the file the entries. *)
LEMMA FileStep ==
  TypeOK /\ QuietInv /\ WriteInv /\ EntryInv /\ FileTracks /\ [Next]_vars
    => EntryInv' /\ FileTracks'
<1> SUFFICES ASSUME TypeOK, QuietInv, WriteInv, EntryInv, FileTracks, [Next]_vars
             PROVE EntryInv' /\ FileTracks'
  OBVIOUS
<1> USE DEF TypeOK, EntryInv, FileTracks, vars, store, past, Entries, Writers
<1>1. CASE Launch
  BY <1>1 DEF Launch
<1>2. ASSUME NEW n \in Sidecar, KillStale(n) PROVE EntryInv' /\ FileTracks'
  BY <1>2 DEF KillStale
<1>3. CASE CleanupEnds
  BY <1>3 DEF CleanupEnds
<1>4. ASSUME NEW w \in Writers, BeginFlush(w) PROVE EntryInv' /\ FileTracks'
  BY <1>4 DEF BeginFlush
<1>5. ASSUME NEW w \in Writers, Truncate(w) PROVE EntryInv' /\ FileTracks'
  BY <1>5 DEF Truncate, WriteInv
<1>6. ASSUME NEW w \in Writers, Write(w) PROVE EntryInv' /\ FileTracks'
  <2>1. json[w] = entries /\ Flushes(w) /\ file' = entries
    BY <1>6 DEF Write, WriteInv
  <2>2. CASE w = Launcher
    <3>1. entries = Empty /\ \A n \in Sidecar : stage[n] = "down"
      BY <2>1, <2>2 DEF Flushes, QuietInv
    <3> QED
      BY <1>6, <2>1, <2>2, <3>1 DEF Write, Flushed, Empty
  <2>3. CASE w \in Sidecar
    BY <1>6, <2>1, <2>3 DEF Write, Flushed, Flushes
  <2> QED
    BY <2>2, <2>3
<1>7. ASSUME NEW n \in Sidecar, NEW p \in Pid, Spawn(n, p)
      PROVE EntryInv' /\ FileTracks'
  BY <1>7 DEF Spawn, Step
<1>8. ASSUME NEW n \in Sidecar, Insert(n) PROVE EntryInv' /\ FileTracks'
  BY <1>8 DEF Insert, Step
<1>9. ASSUME NEW n \in Sidecar, End(n) PROVE EntryInv' /\ FileTracks'
  BY <1>9 DEF End, Step
<1>10. ASSUME NEW n \in Sidecar, Remove(n) PROVE EntryInv' /\ FileTracks'
  BY <1>10 DEF Remove, Step
<1>11. CASE Crash
  BY <1>11 DEF Crash
<1>12. ASSUME NEW p \in Pid,
              \/ OrphanExits(p) \/ OtherExits(p)
              \/ \E e \in Shown : OtherStarts(p, e)
       PROVE EntryInv' /\ FileTracks'
  BY <1>12 DEF OrphanExits, OtherExits, OtherStarts
<1>13. CASE UNCHANGED vars
  BY <1>13
<1> QED
  BY <1>1, <1>2, <1>3, <1>4, <1>5, <1>6, <1>7, <1>8, <1>9, <1>10, <1>11,
     <1>12, <1>13 DEF Next

(* What a supervisor holds is a process of its sidecar. *)
LEMMA Held ==
  ASSUME TypeOK, ProcessInv, NEW n \in Sidecar, pid[n] # NoPid
  PROVE  pid[n] \in Pid /\ process[pid[n]].of = n /\ pid[n] \notin orphans
<1>1. pid[n] \in Pid
  BY DEF TypeOK, Entries
<1>2. process[pid[n]] \in ProgramsOf(n) /\ pid[n] \notin orphans
  BY DEF ProcessInv
<1> QED
  BY <1>1, <1>2, ProgramsOfSidecar

(* No process of a sidecar is unaccounted for. *)
LEMMA ProcessStep ==
  TypeOK /\ QuietInv /\ ProcessInv /\ [Next]_vars => ProcessInv'
<1> SUFFICES ASSUME TypeOK, QuietInv, ProcessInv, [Next]_vars PROVE ProcessInv'
  OBVIOUS
<1> USE DEF TypeOK, ProcessInv, vars, store, past, Entries, Writers
<1>1. CASE Launch \/ CleanupEnds \/ UNCHANGED vars
  BY <1>1 DEF Launch, CleanupEnds
<1>2. ASSUME NEW n \in Sidecar, KillStale(n) PROVE ProcessInv'
  <2>1. \A m \in Sidecar : pid[m] = NoPid
    BY <1>2 DEF KillStale, QuietInv
  <2> QED
    BY <1>2, <2>1 DEF KillStale, Dies
<1>3. ASSUME NEW w \in Writers, BeginFlush(w) \/ Truncate(w) \/ Write(w)
      PROVE ProcessInv'
  BY <1>3 DEF BeginFlush, Truncate, Write
<1>4. ASSUME NEW n \in Sidecar, NEW p \in Pid, Spawn(n, p) PROVE ProcessInv'
  <2>1. PICK x \in ProgramsOf(n) : process' = [process EXCEPT ![p] = x]
    BY <1>4 DEF Spawn, Starts, ProgramsOf
  <2>2. x.of = n
    BY ProgramsOfSidecar
  <2>3. /\ pid' = [pid EXCEPT ![n] = p] /\ pid[n] = NoPid
        /\ orphans' = orphans /\ p \notin orphans
    BY <1>4 DEF Spawn, Step, Starts
  <2>4. \A m \in Sidecar : pid[m] # p
    <3> SUFFICES ASSUME NEW m \in Sidecar, pid[m] = p PROVE FALSE
      OBVIOUS
    <3>1. process[p] \in ProgramsOf(m) /\ process[p] = Vacant
      BY <1>4 DEF Spawn, Starts
    <3> QED
      BY <3>1, ProgramsOfSidecar
  <2> QED
    BY <2>1, <2>2, <2>3, <2>4
<1>5. ASSUME NEW n \in Sidecar, Insert(n) \/ Remove(n) PROVE ProcessInv'
  BY <1>5 DEF Insert, Remove, Step
<1>6. ASSUME NEW n \in Sidecar, End(n) PROVE ProcessInv'
  <2>1. pid[n] # NoPid
    BY <1>6 DEF End, Step
  <2>2. /\ process' = [process EXCEPT ![pid[n]] = Vacant]
        /\ pid' = [pid EXCEPT ![n] = NoPid] /\ orphans' = orphans \ {pid[n]}
    BY <1>6 DEF End, Dies
  <2>3. \A m \in Sidecar \ {n} : pid[m] # NoPid => pid[m] # pid[n]
    BY ONLY <2>1, Held, TypeOK, ProcessInv
  <2>4. pid[n] \in Pid /\ process[pid[n]].of = n
    BY ONLY <2>1, Held, TypeOK, ProcessInv
  <2> QED
    BY <2>1, <2>2, <2>3, <2>4
<1>7. CASE Crash
  BY <1>7 DEF Crash, Empty
<1>8. ASSUME NEW p \in Pid, OrphanExits(p) PROVE ProcessInv'
  BY <1>8 DEF OrphanExits, Dies
<1>9. ASSUME NEW p \in Pid, NEW e \in Shown, OtherStarts(p, e)
      PROVE ProcessInv'
  <2>1. \A m \in Sidecar : pid[m] # NoPid => pid[m] # p
    <3> SUFFICES ASSUME NEW m \in Sidecar, pid[m] = p PROVE FALSE
      OBVIOUS
    <3>1. process[p] \in ProgramsOf(m) /\ process[p] = Vacant
      BY <1>9 DEF OtherStarts, Starts
    <3> QED
      BY <3>1, ProgramsOfSidecar
  <2>2. /\ process' = [process EXCEPT ![p] = [exe |-> e, of |-> Nobody]]
        /\ pid' = pid /\ orphans' = orphans
    BY <1>9 DEF OtherStarts, Starts
  <2> QED
    BY <2>1, <2>2
<1>10. ASSUME NEW p \in Pid, OtherExits(p) PROVE ProcessInv'
  <2>1. \A m \in Sidecar : pid[m] # NoPid => pid[m] # p
    <3>1. process[p].of = Nobody
      BY <1>10 DEF OtherExits
    <3> QED
      BY <3>1, Held
  <2>2. p \notin orphans
    BY <1>10 DEF OtherExits
  <2> QED
    BY <1>10, <2>1, <2>2 DEF OtherExits, Dies
<1> QED
  BY <1>1, <1>2, <1>3, <1>4, <1>5, <1>6, <1>7, <1>8, <1>9, <1>10 DEF Next

(* An orphan stays named until the cleanup has killed it. *)
LEMMA OrphanStep == IInv /\ [Next]_vars => OrphanInv'
<1> SUFFICES ASSUME IInv, [Next]_vars PROVE OrphanInv'
  OBVIOUS
<1> USE DEF IInv, TypeOK, OrphanInv, vars, store, past, Entries, Writers
<1>1. CASE Launch
  BY <1>1 DEF Launch
<1>2. ASSUME NEW n \in Sidecar, KillStale(n) PROVE OrphanInv'
  <2>1. entries[n] \in Pid /\ app = "clean" /\ app' = "clean" /\ file' = file
    BY <1>2 DEF KillStale
  <2>2. CASE process[entries[n]].exe = Exe[n]
    BY <1>2, <2>1, <2>2 DEF KillStale, Dies
  <2>3. CASE process[entries[n]].exe # Exe[n]
    <3>1. \A p \in orphans \ (early \cup torn) :
            process[p].exe = Exe[process[p].of] => process[p].of # n
      BY <2>1, <2>3
    <3> QED
      BY <1>2, <2>1, <2>3, <3>1 DEF KillStale
  <2> QED
    BY <2>2, <2>3
<1>3. CASE CleanupEnds
  <2>1. \A p \in orphans \ (early \cup torn) : process[p].exe # Exe[process[p].of]
    BY <1>3 DEF CleanupEnds, Empty
  <2> QED
    BY <1>3, <2>1 DEF CleanupEnds
<1>4. ASSUME NEW w \in Writers, BeginFlush(w) \/ Truncate(w) \/ Write(w)
      PROVE OrphanInv'
  <2>1. app \in {"cleaned", "up"}
    BY <1>4 DEF BeginFlush, Truncate, Write, WriteInv, Flushes
  <2> QED
    BY <1>4, <2>1 DEF BeginFlush, Truncate, Write, Flushed
<1>5. ASSUME NEW n \in Sidecar,
             (\E p \in Pid : Spawn(n, p)) \/ Insert(n) \/ End(n) \/ Remove(n)
      PROVE OrphanInv'
  <2>1. app = "up" /\ orphans' \ (early' \cup torn') \subseteq orphans \ (early \cup torn)
    BY <1>5 DEF Spawn, Insert, End, Remove, Step, Dies
  <2>2. \A p \in orphans' : process'[p] = process[p]
    BY <1>5 DEF Spawn, Insert, End, Remove, Starts, Dies
  <2> QED
    BY <2>1, <2>2
<1>6. CASE Crash
  <2> SUFFICES ASSUME NEW p \in orphans' \ (early' \cup torn')
               PROVE file # NoJson /\
                     (process[p].exe = Exe[process[p].of] => file[process[p].of] = p)
    BY <1>6 DEF Crash
  <2>1. file # NoJson /\ p \notin early \cup torn
    BY <1>6 DEF Crash
  <2>2. CASE p \in orphans
    BY <2>1, <2>2
  <2>3. CASE p \notin orphans
    <3> DEFINE n == process[p].of
    <3>1. n \in Sidecar /\ p \in Pid /\ pid[n] = p
      BY <1>6, <2>3 DEF Crash, ProcessInv
    <3>2. stage[n] = "up"
      <4>1. stage[n] \notin {"spawned", "inserted"}
        BY <1>6, <3>1 DEF Crash
      <4> QED
        BY <3>1, <4>1
    <3>3. app = "up"
      BY <3>1, <3>2 DEF QuietInv
    <3> QED
      BY <2>1, <3>1, <3>2, <3>3 DEF FileTracks
  <2> QED
    BY <2>2, <2>3
<1>7. ASSUME NEW p \in Pid, OrphanExits(p) PROVE OrphanInv'
  BY <1>7 DEF OrphanExits, Dies
<1>8. ASSUME NEW p \in Pid, NEW e \in Shown, OtherStarts(p, e)
      PROVE OrphanInv'
  <2>1. p \notin orphans
    BY <1>8 DEF OtherStarts, Starts
  <2> QED
    BY <1>8, <2>1 DEF OtherStarts, Starts
<1>9. ASSUME NEW p \in Pid, OtherExits(p) PROVE OrphanInv'
  <2>1. p \notin orphans
    BY <1>9 DEF OtherExits
  <2> QED
    BY <1>9, <2>1 DEF OtherExits, Dies
<1>10. CASE UNCHANGED vars
  BY <1>10
<1> QED
  BY <1>1, <1>2, <1>3, <1>4, <1>5, <1>6, <1>7, <1>8, <1>9, <1>10 DEF Next

-----------------------------------------------------------------------------
(* The cleanup takes its entries from the file, which it leaves alone. *)
LEMMA CleanStep ==
  TypeOK /\ QuietInv /\ WriteInv /\ CleanInv /\ [Next]_vars => CleanInv'
<1> SUFFICES ASSUME TypeOK, QuietInv, WriteInv, CleanInv, [Next]_vars
             PROVE CleanInv'
  OBVIOUS
<1> USE DEF TypeOK, CleanInv, vars, store, past, Entries, Writers
<1>1. CASE Launch
  BY <1>1 DEF Launch, Empty
<1>2. ASSUME NEW n \in Sidecar, KillStale(n) PROVE CleanInv'
  BY <1>2 DEF KillStale
<1>3. CASE CleanupEnds \/ Crash \/ UNCHANGED vars
  BY <1>3 DEF CleanupEnds, Crash
<1>4. ASSUME NEW w \in Writers, BeginFlush(w) \/ Truncate(w) \/ Write(w)
      PROVE CleanInv'
  <2>1. app # "clean"
    BY <1>4 DEF BeginFlush, Truncate, Write, WriteInv, Flushes
  <2> QED
    BY <1>4, <2>1 DEF BeginFlush, Truncate, Write, Flushed
<1>5. ASSUME NEW n \in Sidecar,
             (\E p \in Pid : Spawn(n, p)) \/ Insert(n) \/ End(n) \/ Remove(n)
      PROVE CleanInv'
  BY <1>5 DEF Spawn, Insert, End, Remove, Step
<1>6. ASSUME NEW p \in Pid,
             \/ OrphanExits(p) \/ OtherExits(p)
             \/ \E e \in Shown : OtherStarts(p, e)
      PROVE CleanInv'
  BY <1>6 DEF OrphanExits, OtherExits, OtherStarts
<1> QED
  BY <1>1, <1>2, <1>3, <1>4, <1>5, <1>6 DEF Next

(* The conjunction is inductive. *)
LEMMA Inductive == Spec => []IInv
<1>1. IInv /\ [Next]_vars => IInv'
  <2> SUFFICES ASSUME IInv, [Next]_vars PROVE IInv'
    OBVIOUS
  <2>1. TypeOK' BY TypeStep DEF IInv
  <2>2. QuietInv' /\ WriteInv' BY WriteStep DEF IInv
  <2>3. EntryInv' /\ FileTracks' BY FileStep DEF IInv
  <2>4. ProcessInv' BY ProcessStep DEF IInv
  <2>5. CleanInv' BY CleanStep DEF IInv
  <2>6. OrphanInv' BY OrphanStep
  <2> QED BY <2>1, <2>2, <2>3, <2>4, <2>5, <2>6 DEF IInv
<1> QED
  BY InitInv, <1>1, PTL DEF Spec

(* The variables keep their types; a supervisor holds a pid exactly while  *)
(* its process is there (`spawned` of active_loop).                        *)
THEOREM TypeCorrect == Spec => []TypeOK
<1>1. IInv => TypeOK
  BY DEF IInv
<1> QED
  BY Inductive, <1>1, PTL

(* The pid file follows the supervisors however their record and clear     *)
(* interleave, for any number of sidecars.                                 *)
THEOREM FileCorrect == Spec => []FileTracks
<1>1. IInv => FileTracks
  BY DEF IInv
<1> QED
  BY Inductive, <1>1, PTL

(* cleanup_stale misses no orphan that the file of a crashed run named and *)
(* that shows the recorded name, however often the cleanup itself crashes. *)
(* An orphan that shows another name, as one started through a link does,  *)
(* is spared: nothing is claimed for it.                                   *)
THEOREM CleanupCorrect == Spec => []CleanupComplete
<1>1. IInv => CleanupComplete
  BY DEF IInv, OrphanInv, CleanupComplete
<1> QED
  BY Inductive, <1>1, PTL

(* What the app ends and no sidecar has started is what the file names,    *)
(* by pid and by name: kill_stale spares whatever else has got the pid.    *)
THEOREM OthersCorrect == Spec => OthersSpared
<1>1. ASSUME IInv, [Next]_vars, NEW p \in Pid,
             process[p] # Vacant, process'[p] = Vacant,
             process[p].of = Nobody,
             <<entries, pid>>' # <<entries, pid>>
      PROVE  /\ file # NoJson
             /\ \E n \in Sidecar : file[n] = p /\ process[p].exe = Exe[n]
  <2> USE <1>1 DEF IInv, TypeOK, vars, store, past, Entries, Writers
  <2>1. ASSUME NEW n \in Sidecar, KillStale(n)
        PROVE  /\ file # NoJson
               /\ \E m \in Sidecar : file[m] = p /\ process[p].exe = Exe[m]
    <3>1. entries[n] = p /\ process[p].exe = Exe[n]
      BY <2>1 DEF KillStale, Dies
    <3> QED
      BY <2>1, <3>1 DEF KillStale, CleanInv
  <2>2. ASSUME NEW n \in Sidecar, End(n) PROVE FALSE
    <3>1. pid[n] = p /\ pid[n] # NoPid
      BY <2>2 DEF End, Step, Dies
    <3> QED
      BY <3>1, Held
  <2>3. ASSUME NEW n \in Sidecar, NEW q \in Pid, Spawn(n, q) PROVE FALSE
    BY <2>3 DEF Spawn, Starts
  <2>4. CASE \/ Launch \/ CleanupEnds \/ Crash \/ UNCHANGED vars
             \/ \E w \in Writers : BeginFlush(w) \/ Truncate(w) \/ Write(w)
             \/ \E n \in Sidecar : Insert(n) \/ Remove(n)
    BY <2>4 DEF Launch, CleanupEnds, Crash, BeginFlush, Truncate, Write,
                Insert, Remove
  <2>5. CASE \E q \in Pid : \/ OrphanExits(q) \/ OtherExits(q)
                           \/ \E e \in Shown : OtherStarts(q, e)
    BY <2>5 DEF OrphanExits, OtherExits, OtherStarts
  <2> QED
    BY <2>1, <2>2, <2>3, <2>4, <2>5 DEF Next
<1>2. IInv /\ [Next]_vars =>
        [\A p \in Pid :
           /\ process[p] # Vacant /\ process'[p] = Vacant
           /\ process[p].of = Nobody
           /\ <<entries, pid>>' # <<entries, pid>>
           => /\ file # NoJson
              /\ \E n \in Sidecar :
                   file[n] = p /\ process[p].exe = Exe[n]]_vars
  BY <1>1
<1> QED
  BY Inductive, <1>2, PTL DEF Spec, OthersSpared
=============================================================================
