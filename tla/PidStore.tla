------------------------------ MODULE PidStore ------------------------------
(***************************************************************************)
(* The pid file (infra/pid_store.rs) across runs of the app.  Supervisors  *)
(* record the process they have spawned and clear it when it is gone; the  *)
(* next run kills what the file names (kill_stale, platform/process.rs).   *)
(* The app may crash between any two steps, also inside fs::write, and     *)
(* what it has spawned then lives on.  The name that is recorded is that   *)
(* of the path in the configuration; the name it is compared with is that  *)
(* of the file the operating system says it runs, which for a link, a      *)
(* script or a name looked up in the PATH may be another one.              *)
(***************************************************************************)
EXTENDS Naturals, Functions

CONSTANTS
  Sidecar,
  Exe,        \* of each sidecar, the file name of its configured binary
  Image,      \* of each sidecar, the file names its process may show
  Pid,        \* reused by the operating system
  OtherExe,   \* file names of programs that are not sidecars
  NoPid, Launcher, Nobody,
  NoJson       \* the content of a file that cannot be parsed

ASSUME ExeAssumption == DOMAIN Exe = Sidecar /\ DOMAIN Image = Sidecar
ASSUME NoPidAssumption == NoPid \notin Pid
ASSUME NoJsonAssumption == NoJson \notin [Sidecar -> Pid \cup {NoPid}]
ASSUME LauncherAssumption ==
  Launcher \notin Sidecar /\ Nobody \notin Sidecar \cup {Launcher}

VARIABLES
  app,       \* where the app stands
  stage,     \* of each supervisor, in record and clear
  pid,       \* of each supervisor, its `spawned`
  entries,   \* PidFile of the running app, behind the mutex `state`
  locked,    \* who holds that mutex over a write of the file
  json,      \* of each writer, the text it is about to write
  file,      \* sidecar-pids.json
  process,   \* of each pid, the program that runs and who started it
  orphans,   \* history: living processes of sidecars of earlier runs
  early,     \* history: those whose record had not returned at the crash
  torn       \* history: those that lived when a crash tore the file

store == <<entries, locked, json, file>>
past  == <<orphans, early, torn>>
vars  == <<app, stage, pid, store, process, past>>

Writers == Sidecar \cup {Launcher}
Entries == [Sidecar -> Pid \cup {NoPid}]
Shown   == UNION Range(Image) \cup Range(Exe) \cup OtherExe
Program == [exe : Shown, of : Sidecar \cup {Nobody}]

Empty  == [n \in Sidecar |-> NoPid]
Silent == [w \in Writers |-> NoJson]
Vacant == [exe |-> "none"]

TypeOK ==
  /\ app \in {"down", "clean", "cleaned", "up"}
  /\ stage \in [Sidecar ->
                 {"down", "spawned", "inserted", "up", "gone", "removed"}]
  /\ pid \in Entries /\ entries \in Entries
  /\ locked \in Writers \cup {Nobody}
  /\ json \in [Writers -> Entries \cup {NoJson}]
  /\ file \in Entries \cup {NoJson}
  /\ process \in [Pid -> Program \cup {Vacant}]
  /\ orphans \subseteq {p \in Pid : process[p] # Vacant /\ process[p].of \in Sidecar}
  /\ early \subseteq orphans /\ torn \subseteq orphans
  /\ \A n \in Sidecar :
       pid[n] # NoPid <=> stage[n] \in {"spawned", "inserted", "up"}

Init ==
  /\ app = "down"
  /\ stage = [n \in Sidecar |-> "down"] /\ pid = Empty
  /\ entries = Empty /\ json = Silent /\ file = Empty /\ locked = Nobody
  /\ process = [p \in Pid |-> Vacant]
  /\ orphans = {} /\ early = {} /\ torn = {}

Step(n, from, to) ==
  app = "up" /\ stage[n] = from /\ stage' = [stage EXCEPT ![n] = to]

Starts(p, x) == process[p] = Vacant /\ process' = [process EXCEPT ![p] = x]

Dies(p) ==
  /\ process' = [process EXCEPT ![p] = Vacant]
  /\ orphans' = orphans \ {p} /\ early' = early \ {p} /\ torn' = torn \ {p}

-----------------------------------------------------------------------------
(* A new run of the app: PidStore::open and cleanup_stale.                 *)

Launch ==
  /\ app = "down" /\ app' = "clean"
  /\ entries' = IF file = NoJson THEN Empty ELSE file
  /\ UNCHANGED <<stage, pid, locked, json, file, process, past>>

(* Defect: the name is not compared. *)
KillStaleByPid(n) ==
  /\ app = "clean" /\ entries[n] # NoPid
  /\ entries' = [entries EXCEPT ![n] = NoPid]
  /\ Dies(entries[n])
  /\ UNCHANGED <<app, stage, pid, locked, json, file>>

(* kill_stale: a process that has the pid but does not show the recorded   *)
(* name (but for the case of its letters) is spared, be it another program *)
(* or the orphan under another name; its entry goes all the same.          *)
KillStale(n) ==
  /\ app = "clean" /\ entries[n] # NoPid
  /\ entries' = [entries EXCEPT ![n] = NoPid]
  /\ IF process[entries[n]].exe = Exe[n]
       THEN Dies(entries[n]) ELSE UNCHANGED <<process, past>>
  /\ UNCHANGED <<app, stage, pid, locked, json, file>>

(* Defect: the loop over the entries ends at the first one. *)
CleanupEndsEarly ==
  /\ app = "clean" /\ app' = "cleaned"
  /\ UNCHANGED <<stage, pid, store, process, past>>

CleanupEnds ==
  /\ app = "clean" /\ app' = "cleaned"
  /\ entries = Empty
  /\ UNCHANGED <<stage, pid, store, process, past>>

-----------------------------------------------------------------------------
(* flush                                                                   *)

Flushes(w) ==
  IF w = Launcher THEN app = "cleaned"
  ELSE app = "up" /\ stage[w] \in {"inserted", "removed"}

(* Defect: the mutex is released before the file is written. *)
BeginFlushUnlocked(w) ==
  /\ Flushes(w) /\ json[w] = NoJson
  /\ json' = [json EXCEPT ![w] = entries]
  /\ UNCHANGED <<app, stage, pid, entries, locked, file, process, past>>

BeginFlush(w) ==
  /\ Flushes(w) /\ json[w] = NoJson
  /\ locked = Nobody /\ locked' = w
  /\ json' = [json EXCEPT ![w] = entries]
  /\ UNCHANGED <<app, stage, pid, entries, file, process, past>>

(* fs::write truncates the file before it writes it. *)
Truncate(w) ==
  /\ json[w] # NoJson
  /\ file' = NoJson
  /\ UNCHANGED <<app, stage, pid, entries, locked, json, process, past>>

(* Defect: clear goes on as record does. *)
FlushedAlwaysUp(w) ==
  IF w = Launcher THEN app' = "up" /\ UNCHANGED stage
  ELSE stage' = [stage EXCEPT ![w] = "up"] /\ UNCHANGED app

(* Where the task goes on when its write is complete. *)
Flushed(w) ==
  IF w = Launcher THEN app' = "up" /\ UNCHANGED stage
  ELSE /\ stage' = [stage EXCEPT ![w] = IF @ = "inserted" THEN "up" ELSE "down"]
       /\ UNCHANGED app

Write(w) ==
  /\ json[w] # NoJson /\ file = NoJson
  /\ file' = json[w]
  /\ json' = [json EXCEPT ![w] = NoJson]
  /\ locked' = Nobody
  /\ Flushed(w)
  /\ UNCHANGED <<pid, entries, process, past>>

-----------------------------------------------------------------------------
(* The supervisors: spawn, record, end of the process, clear.              *)

(* The operating system decides which file the configured path leads to.   *)
Spawn(n, p) ==
  /\ Step(n, "down", "spawned")
  /\ \E e \in Image[n] : Starts(p, [exe |-> e, of |-> n])
  /\ pid' = [pid EXCEPT ![n] = p]
  /\ UNCHANGED <<app, store, past>>

Insert(n) ==
  /\ Step(n, "spawned", "inserted")
  /\ locked = Nobody
  /\ entries' = [entries EXCEPT ![n] = pid[n]]
  /\ UNCHANGED <<app, pid, locked, json, file, process, past>>

(* It exits or is killed; its pid is free once it has been reaped. *)
End(n) ==
  /\ Step(n, "up", "gone")
  /\ Dies(pid[n])
  /\ pid' = [pid EXCEPT ![n] = NoPid]
  /\ UNCHANGED <<app, store>>

Remove(n) ==
  /\ Step(n, "gone", "removed")
  /\ locked = Nobody
  /\ entries' = [entries EXCEPT ![n] = NoPid]
  /\ UNCHANGED <<app, pid, locked, json, file, process, past>>

-----------------------------------------------------------------------------
(* The world outside.                                                      *)

(* The app ends, cleanly or not: what it has spawned and not ended lives.  *)
Crash ==
  /\ app # "down" /\ app' = "down"
  /\ orphans' = {p \in Pid : process[p] # Vacant /\ process[p].of \in Sidecar}
  /\ early' = early \cup
       {pid[n] : n \in {m \in Sidecar : stage[m] \in {"spawned", "inserted"}}}
  /\ torn' = IF file = NoJson THEN orphans' ELSE torn
  /\ stage' = [n \in Sidecar |-> "down"]
  /\ pid' = Empty /\ entries' = Empty /\ json' = Silent /\ locked' = Nobody
  /\ UNCHANGED <<file, process>>

OrphanExits(p) ==
  /\ p \in orphans
  /\ Dies(p)
  /\ UNCHANGED <<app, stage, pid, store>>

(* Some other program gets a pid, perhaps one that a sidecar has had. *)
OtherStarts(p, e) ==
  /\ Starts(p, [exe |-> e, of |-> Nobody])
  /\ UNCHANGED <<app, stage, pid, store, past>>

OtherExits(p) ==
  /\ process[p] # Vacant /\ process[p].of = Nobody
  /\ Dies(p)
  /\ UNCHANGED <<app, stage, pid, store>>

-----------------------------------------------------------------------------
Next ==
  \/ Launch \/ CleanupEnds \/ Crash
  \/ \E w \in Writers : BeginFlush(w) \/ Truncate(w) \/ Write(w)
  \/ \E n \in Sidecar : \/ KillStale(n) \/ Insert(n) \/ End(n) \/ Remove(n)
                        \/ \E p \in Pid : Spawn(n, p)
  \/ \E p \in Pid : \/ OrphanExits(p) \/ OtherExits(p)
                    \/ \E e \in Shown : OtherStarts(p, e)

Spec == Init /\ [][Next]_vars

-----------------------------------------------------------------------------
(* While the app is up the file is whole unless it is being written, it    *)
(* names every process whose record has returned, and nothing whose clear  *)
(* has: whichever way the inserts, removals and writes of the supervisors  *)
(* interleave.                                                             *)
FileTracks ==
  app = "up" =>
    /\ file = NoJson => locked # Nobody
    /\ file # NoJson => \A n \in Sidecar :
         stage[n] \in {"up", "down"} => file[n] = pid[n]

(* After cleanup_stale, what is left of earlier runs shows another name    *)
(* than the recorded one, was not yet recorded when its app crashed, or a  *)
(* crash tore the file: also when the cleanup itself was cut short and     *)
(* done again, and when pids were reused.                                  *)
CleanupComplete ==
  app = "up" => \A p \in orphans \ (early \cup torn) :
                  process[p].exe # Exe[process[p].of]

(* What the app ends (a step in which its entries or pids change) is a     *)
(* process of a sidecar, or one that the file takes for such a process by  *)
(* pid and name: a program that has got the pid of a sidecar since lives.  *)
OthersSpared ==
  [][\A p \in Pid :
       /\ process[p] # Vacant /\ process'[p] = Vacant
       /\ process[p].of = Nobody
       /\ <<entries, pid>>' # <<entries, pid>>
       => /\ file # NoJson
          /\ \E n \in Sidecar : file[n] = p /\ process[p].exe = Exe[n]]_vars
=============================================================================
