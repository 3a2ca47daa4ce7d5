------------------------------- MODULE Output -------------------------------
(***************************************************************************)
(* What becomes of the output of one sidecar (runtime/supervisor.rs,       *)
(* attach_readers and read_lines; logs of manager.rs).  Each spawn has two *)
(* readers, one for each stream, which match lines against the marker,     *)
(* emit them as events and push them into one ring.  The readers are       *)
(* tasks of their own: those of an earlier spawn live on for as long as    *)
(* anything of its process tree holds the pipes.                           *)
(***************************************************************************)
EXTENDS Naturals, Sequences, SequencesExt, Lists

CONSTANTS
  Capacity,   \* LOG_RING_CAPACITY
  MaxSpawns,  \* bound: spawns in a behaviour
  MaxLines,   \* bound: lines written in a behaviour
  PipeSize,   \* lines a pipe holds
  EmitLogs    \* SidecarConfig.emit_logs: lines are emitted as events

ASSUME OutputAssumption ==
  /\ Capacity \in Nat \ {0} /\ PipeSize \in Nat \ {0}
  /\ MaxSpawns \in Nat /\ MaxLines \in Nat /\ EmitLogs \in BOOLEAN

(* A line that matches the marker, any other, and bytes that are not UTF-8. *)
Kinds == {"marker", "text", "undecodable"}

Spawns == 1 .. MaxSpawns
Reader == Spawns \X {"stdout", "stderr"}
Line   == [from : Reader, no : Nat, kind : Kinds]

ReaderOf(r) == r[1]
StreamOf(r) == r[2]

VARIABLES
  spawned,    \* number of spawns so far
  alive,      \* spawns whose process tree holds the pipes
  written,    \* history: of each pipe, the lines that went into it
  pipe,       \* of each pipe, the lines that nobody has read
  reader,     \* where each reader stands
  hand,       \* of each reader, the line it last read
  marker,     \* the flag the StdoutMarker probe waits for
  events,     \* history: of each reader, the lines it emitted
  ring,       \* SupervisorHandle.logs
  log         \* history: the lines pushed

shown == <<marker, events, ring, log>>
vars  == <<spawned, alive, written, pipe, reader, hand, marker,
           events, ring, log>>

NoLine == [kind |-> "none"]

TypeOK ==
  /\ marker \in BOOLEAN
  /\ spawned \in 0 .. MaxSpawns /\ alive \subseteq 1 .. spawned
  /\ written \in [Reader -> Seq(Line)] /\ pipe \in [Reader -> Seq(Line)]
  /\ \A r \in Reader : Len(pipe[r]) <= PipeSize
  /\ reader \in [Reader -> {"none", "reading", "emit", "push", "ended"}]
  /\ \A r \in Reader : IF reader[r] \in {"emit", "push"}
                         THEN hand[r] \in Line ELSE hand[r] = NoLine
  /\ DOMAIN hand = Reader
  /\ events \in [Reader -> Seq(Line)] /\ log \in Seq(Line)
  /\ ring \in Seq(Line) /\ Len(ring) <= Capacity

Init ==
  /\ spawned = 0 /\ alive = {}
  /\ written = [r \in Reader |-> <<>>] /\ pipe = [r \in Reader |-> <<>>]
  /\ reader = [r \in Reader |-> "none"] /\ hand = [r \in Reader |-> NoLine]
  /\ marker = FALSE
  /\ events = [r \in Reader |-> <<>>] /\ ring = <<>> /\ log = <<>>

-----------------------------------------------------------------------------
(* The process tree of a spawn.                                            *)

Total == FoldSet(LAMBDA r, n : n + Len(written[r]), 0, Reader)

(* A reader that has ended has closed its end of the pipe. *)
Writes(r, kind) ==
  /\ ReaderOf(r) \in alive /\ reader[r] # "ended"
  /\ Len(pipe[r]) < PipeSize
  /\ Total < MaxLines
  /\ LET line == [from |-> r, no |-> Len(written[r]) + 1, kind |-> kind]
     IN /\ written' = [written EXCEPT ![r] = Append(@, line)]
        /\ pipe' = [pipe EXCEPT ![r] = Append(@, line)]
  /\ UNCHANGED <<spawned, alive, reader, hand, shown>>

(* All of it is gone, and what it has written is still in the pipes. *)
TreeEnds(p) ==
  /\ p \in alive /\ alive' = alive \ {p}
  /\ UNCHANGED <<spawned, written, pipe, reader, hand, shown>>

-----------------------------------------------------------------------------
(* The supervisor.                                                         *)

(* attach_readers *)
Spawn ==
  /\ spawned < MaxSpawns /\ spawned' = spawned + 1
  /\ alive' = alive \cup {spawned'}
  /\ marker' = FALSE
  /\ reader' = [r \in Reader |->
                  IF ReaderOf(r) = spawned' THEN "reading" ELSE reader[r]]
  /\ UNCHANGED <<written, pipe, hand, events, ring, log>>

-----------------------------------------------------------------------------
(* A reader (read_lines).                                                  *)

Goto(r, from, to) ==
  reader[r] = from /\ reader' = [reader EXCEPT ![r] = to]

(* Of each line, only stdout is searched for the marker. *)
Matches(line) == StreamOf(line.from) = "stdout" /\ line.kind = "marker"

(* Defect: only the first line of a stream is searched for the marker. *)
TakeMatchesFirst(r) ==
  /\ Goto(r, "reading", "emit")
  /\ pipe[r] # <<>> /\ Head(pipe[r]).kind # "undecodable"
  /\ hand' = [hand EXCEPT ![r] = Head(pipe[r])]
  /\ pipe' = [pipe EXCEPT ![r] = Tail(@)]
  /\ marker' = (marker \/ (Matches(Head(pipe[r])) /\ Head(pipe[r]).no = 1))
  /\ UNCHANGED <<spawned, alive, written, events, ring, log>>

(* next_line, and the search for the marker in the line *)
Take(r) ==
  /\ Goto(r, "reading", "emit")
  /\ pipe[r] # <<>> /\ Head(pipe[r]).kind # "undecodable"
  /\ hand' = [hand EXCEPT ![r] = Head(pipe[r])]
  /\ pipe' = [pipe EXCEPT ![r] = Tail(@)]
  /\ marker' = (marker \/ Matches(Head(pipe[r])))
  /\ UNCHANGED <<spawned, alive, written, events, ring, log>>

(* The error ends the loop, which drops the reader and closes the pipe. *)
FailToDecode(r) ==
  /\ Goto(r, "reading", "ended")
  /\ pipe[r] # <<>> /\ Head(pipe[r]).kind = "undecodable"
  /\ pipe' = [pipe EXCEPT ![r] = <<>>]
  /\ UNCHANGED <<spawned, alive, written, hand, shown>>

(* Defect: a reader ends with its process, whatever the pipe still holds. *)
EndWithTree(r) ==
  /\ Goto(r, "reading", "ended")
  /\ ReaderOf(r) \notin alive
  /\ pipe' = [pipe EXCEPT ![r] = <<>>]
  /\ UNCHANGED <<spawned, alive, written, hand, shown>>

(* Defect: a reader of an earlier spawn waits for ever. *)
EndOfLastSpawn(r) ==
  /\ Goto(r, "reading", "ended")
  /\ pipe[r] = <<>> /\ ReaderOf(r) \notin alive
  /\ ReaderOf(r) = spawned
  /\ UNCHANGED <<spawned, alive, written, pipe, hand, shown>>

EndOfFile(r) ==
  /\ Goto(r, "reading", "ended")
  /\ pipe[r] = <<>> /\ ReaderOf(r) \notin alive
  /\ UNCHANGED <<spawned, alive, written, pipe, hand, shown>>

(* Defect: the line that makes the sidecar healthy is no event. *)
EmitOthers(r) ==
  /\ Goto(r, "emit", "push")
  /\ events' = IF EmitLogs /\ ~Matches(hand[r])
                 THEN [events EXCEPT ![r] = Append(@, hand[r])] ELSE events
  /\ UNCHANGED <<spawned, alive, written, pipe, hand, marker, ring, log>>

Emit(r) ==
  /\ Goto(r, "emit", "push")
  /\ events' = IF EmitLogs THEN [events EXCEPT ![r] = Append(@, hand[r])]
                            ELSE events
  /\ UNCHANGED <<spawned, alive, written, pipe, hand, marker, ring, log>>

(* Defect: the ring is full one line too late. *)
MakeRoomLate == IF Len(ring) > Capacity THEN Tail(ring) ELSE ring

(* Defect: a full ring drops its newest line. *)
MakeRoomAtBack == IF Len(ring) = Capacity THEN Front(ring) ELSE ring

MakeRoom == IF Len(ring) = Capacity THEN Tail(ring) ELSE ring

(* Defect: a full ring is waited for. *)
PushWaits(r) ==
  /\ Goto(r, "push", "reading")
  /\ Len(ring) < Capacity
  /\ ring' = Append(ring, hand[r])
  /\ log' = Append(log, hand[r])
  /\ hand' = [hand EXCEPT ![r] = NoLine]
  /\ UNCHANGED <<spawned, alive, written, pipe, marker, events>>

(* Under the lock. *)
Push(r) ==
  /\ Goto(r, "push", "reading")
  /\ ring' = Append(MakeRoom, hand[r])
  /\ log' = Append(log, hand[r])
  /\ hand' = [hand EXCEPT ![r] = NoLine]
  /\ UNCHANGED <<spawned, alive, written, pipe, marker, events>>

Read(r) ==
  Take(r) \/ FailToDecode(r) \/ EndOfFile(r) \/ Emit(r) \/ Push(r)

-----------------------------------------------------------------------------
(* What logs(name, lines) returns: rev, take, rev. *)
Taken(s, lines) == SubSeq(s, 1, Min({lines, Len(s)}))
Logs(lines)     == Reverse(Taken(Reverse(ring), lines))

-----------------------------------------------------------------------------
Next ==
  \/ Spawn
  \/ \E p \in Spawns : TreeEnds(p)
  \/ \E r \in Reader : Read(r) \/ \E kind \in Kinds : Writes(r, kind)

Spec == Init /\ [][Next]_vars

(* The readers are tasks, and each of their steps is enabled until it is   *)
(* taken.  A process need not write, nor end.                              *)
FairSpec == Spec /\ \A r \in Reader : WF_vars(Read(r))

-----------------------------------------------------------------------------
(* "Tails the last lines captured output lines" (guest-js/index.ts): logs  *)
(* answers with the newest lines in the order they came, as many as were   *)
(* asked for unless the ring is too short or there are fewer, whatever     *)
(* readers of this and earlier spawns filled it.                           *)
LogsShowNewest ==
  \A lines \in 0 .. Capacity + 1 :
    LET m == Min({lines, Len(log), Capacity})
    IN  Logs(lines) = SubSeq(log, Len(log) - m + 1, Len(log))

(* No line of a stream is lost, doubled or overtaken between the process   *)
(* and the log, also when the process has died, its successor runs, and    *)
(* four readers push; only a reader that could not decode one loses some.  *)
Decodable(r, n) == \A i \in 1 .. n : written[r][i].kind # "undecodable"

LinesOf(s, r) == Select(s, {line \in Line : line.from = r})
Held(r) == IF hand[r] = NoLine THEN <<>> ELSE <<hand[r]>>

StreamsInOrder ==
  \A r \in Reader :
    LET known == LinesOf(log, r) \o Held(r) \o pipe[r]
    IN  /\ IsPrefix(known, written[r])
        /\ known # written[r] =>
             reader[r] = "ended" /\ ~Decodable(r, Len(written[r]))

(* The events of a stream are the lines logs shows of it, in their order,  *)
(* and at most one that logs will show next: what a frontend puts together *)
(* from either is the same text.                                           *)
EventsMatchLogs ==
  EmitLogs => \A r \in Reader :
    events[r] =
      LinesOf(log, r) \o (IF reader[r] = "push" THEN Held(r) ELSE <<>>)

-----------------------------------------------------------------------------
(* Each stream is read to its end again and again: no process blocks for   *)
(* ever on what it has to say, and with StreamsInOrder every line that can *)
(* be decoded is logged, the last words of a crash included.               *)
EveryLineRead ==
  \A r \in Reader : []<>(pipe[r] = <<>> /\ hand[r] = NoLine)

(* A sidecar that prints the marker on stdout gets the flag set, whatever  *)
(* was seen of an earlier spawn and whether or not lines are emitted.      *)
Announced(p) ==
  LET r == <<p, "stdout">>
  IN  \E n \in DOMAIN written[r] :
        written[r][n].kind = "marker" /\ Decodable(r, n)

MarkerIsSeen == \A p \in Spawns : Announced(p) ~> marker \/ spawned > p

(* No reader outlives its process tree for ever.                           *)
ReadersEnd ==
  \A r \in Reader :
    ReaderOf(r) \in 1 .. spawned /\ ReaderOf(r) \notin alive
      ~> reader[r] = "ended"

-----------------------------------------------------------------------------
(* config.rs, emit_logs: "Lines always go to `tracing` regardless", which  *)
(* is where a reader sends each line it takes: when a reader ends it has   *)
(* taken every line of text in its pipe.                                   *)
AllTextTaken ==
  \A r \in Reader : reader[r] = "ended" =>
    \A i \in DOMAIN written[r] :
      written[r][i].kind = "undecodable" \/ written[r][i] \in Range(log)
=============================================================================
