---------------------------- MODULE OutputProofs ----------------------------
(* Proofs about Output: its types, that logs shows the newest lines, and   *)
(* that what each stream writes arrives in its order, in logs and events.  *)
EXTENDS Output, ListProofs, SequenceTheorems, TLAPS

(* A reader that is not yet spawned has done nothing. *)
Unspawned == \A r \in Reader : ReaderOf(r) > spawned => reader[r] = "none"

(* The ring is the tail of all that was pushed. *)
RingInv ==
  /\ Len(ring) <= Len(log)
  /\ Len(ring) < Capacity => Len(ring) = Len(log)
  /\ \A i \in 1 .. Len(ring) : ring[i] = log[Len(log) - Len(ring) + i]

IInv == TypeOK /\ Unspawned /\ RingInv

LEMMA InitEstablishes == Init => IInv
<1>. SUFFICES ASSUME Init PROVE IInv
  OBVIOUS
<1>. USE OutputAssumption DEF Init
<1>1. TypeOK
  <2>1. <<>> \in Seq(Line) /\ Len(<<>>) = 0
    BY EmptySeq
  <2>2. /\ written \in [Reader -> Seq(Line)] /\ pipe \in [Reader -> Seq(Line)]
        /\ events \in [Reader -> Seq(Line)]
        /\ \A r \in Reader : Len(pipe[r]) <= PipeSize
    BY <2>1
  <2>3. /\ reader \in [Reader -> {"none", "reading", "emit", "push", "ended"}]
        /\ DOMAIN hand = Reader
        /\ \A r \in Reader : reader[r] = "none" /\ hand[r] = NoLine
    OBVIOUS
  <2>4. ring \in Seq(Line) /\ log \in Seq(Line) /\ Len(ring) <= Capacity
    BY <2>1
  <2>5. marker \in BOOLEAN
    BY Zenon
  <2>6. spawned \in 0 .. MaxSpawns
    OBVIOUS
  <2>7. alive \subseteq 1 .. spawned
    OBVIOUS
  <2>. QED
    BY <2>2, <2>3, <2>4, <2>5, <2>6, <2>7 DEF TypeOK
<1>2. RingInv
  <2>1. ring = <<>> /\ log = <<>> /\ Len(<<>>) = 0
    OBVIOUS
  <2>. QED
    BY <2>1 DEF RingInv
<1>. QED
  BY <1>1, <1>2 DEF IInv, Unspawned

-----------------------------------------------------------------------------
(* One step of the process, the supervisor or a reader.                    *)

LEMMA ProcessSteps ==
  ASSUME IInv, \/ \E p \in Spawns : TreeEnds(p)
               \/ \E r \in Reader, kind \in Kinds : Writes(r, kind)
  PROVE  IInv'
<1>. USE DEF IInv, Unspawned, RingInv, shown
<1>1. ASSUME NEW p \in Spawns, TreeEnds(p) PROVE IInv'
  BY <1>1 DEF TreeEnds, TypeOK
<1>2. ASSUME NEW r \in Reader, NEW kind \in Kinds, Writes(r, kind) PROVE IInv'
  <2>. DEFINE line == [from |-> r, no |-> Len(written[r]) + 1, kind |-> kind]
  <2>1. line \in Line
    BY DEF TypeOK, Line
  <2>2. /\ written' = [written EXCEPT ![r] = Append(@, line)]
        /\ pipe' = [pipe EXCEPT ![r] = Append(@, line)]
        /\ Len(pipe[r]) < PipeSize
    BY <1>2 DEF Writes
  <2>. HIDE DEF line
  <2>3. /\ written' \in [Reader -> Seq(Line)]
        /\ pipe' \in [Reader -> Seq(Line)]
        /\ \A q \in Reader : Len(pipe'[q]) <= PipeSize
    BY <2>1, <2>2, OutputAssumption DEF TypeOK
  <2>. QED
    BY <1>2, <2>3 DEF Writes, TypeOK
<1>. QED
  BY <1>1, <1>2

LEMMA SpawnStep == ASSUME IInv, Spawn PROVE IInv'
<1>. USE OutputAssumption DEF Spawn
<1>1. /\ spawned \in Nat /\ spawned' = spawned + 1
      /\ spawned' \in 0 .. MaxSpawns /\ alive' \subseteq 1 .. spawned'
  BY DEF IInv, TypeOK
<1>2. \A r \in Reader :
        \/ /\ ReaderOf(r) = spawned'
           /\ reader'[r] = "reading" /\ reader[r] = "none"
        \/ ReaderOf(r) # spawned' /\ reader'[r] = reader[r]
  BY <1>1 DEF IInv, Unspawned
<1>3. reader' \in [Reader -> {"none", "reading", "emit", "push", "ended"}]
  BY DEF IInv, TypeOK
<1>4. TypeOK'
  BY <1>1, <1>2, <1>3 DEF IInv, TypeOK
<1>5. Unspawned'
  <2>1. \A r \in Reader : ReaderOf(r) \in Nat
    BY DEF Reader, Spawns, ReaderOf
  <2>. QED
    BY <1>1, <1>2, <2>1 DEF IInv, Unspawned
<1>6. RingInv'
  BY DEF IInv, RingInv
<1>. QED
  BY <1>4, <1>5, <1>6 DEF IInv

(* A step that takes one reader to another place. *)
LEMMA MovedReader ==
  ASSUME IInv, NEW r \in Reader, NEW from, NEW to, Goto(r, from, to),
         from # "none", UNCHANGED spawned,
         to \in {"none", "reading", "emit", "push", "ended"},
         DOMAIN hand' = Reader,
         \A q \in Reader : q # r => hand'[q] = hand[q],
         IF to \in {"emit", "push"} THEN hand'[r] \in Line
                                    ELSE hand'[r] = NoLine
  PROVE  /\ reader' \in [Reader -> {"none", "reading", "emit", "push", "ended"}]
         /\ \A q \in Reader : IF reader'[q] \in {"emit", "push"}
                                THEN hand'[q] \in Line ELSE hand'[q] = NoLine
         /\ Unspawned'
<1>1. /\ reader[r] = from /\ reader' = [reader EXCEPT ![r] = to]
      /\ reader \in [Reader -> {"none", "reading", "emit", "push", "ended"}]
  BY DEF Goto, IInv, TypeOK
<1>2. reader'[r] = to /\ \A q \in Reader : q # r => reader'[q] = reader[q]
  BY <1>1
<1>3. \A q \in Reader : IF reader'[q] \in {"emit", "push"}
                          THEN hand'[q] \in Line ELSE hand'[q] = NoLine
  <2>. SUFFICES ASSUME NEW q \in Reader
                PROVE  IF reader'[q] \in {"emit", "push"}
                         THEN hand'[q] \in Line ELSE hand'[q] = NoLine
    OBVIOUS
  <2>1. CASE q = r
    BY <1>2, <2>1
  <2>2. CASE q # r
    BY <1>2, <2>2 DEF IInv, TypeOK
  <2>. QED
    BY <2>1, <2>2
<1>4. Unspawned'
  BY <1>1, <1>2 DEF IInv, Unspawned
<1>. QED
  BY <1>1, <1>3, <1>4

LEMMA TakeStep == ASSUME IInv, NEW r \in Reader, Take(r) PROVE IInv'
<1>1. pipe[r] \in Seq(Line) /\ pipe[r] # <<>> /\ Len(pipe[r]) <= PipeSize
  BY DEF IInv, TypeOK, Take
<1>2. /\ Head(pipe[r]) \in Line /\ Tail(pipe[r]) \in Seq(Line)
      /\ Len(Tail(pipe[r])) <= PipeSize
  BY <1>1, HeadTailProperties, LenProperties, OutputAssumption
<1>3. /\ pipe' \in [Reader -> Seq(Line)]
      /\ \A q \in Reader : Len(pipe'[q]) <= PipeSize
  BY <1>2 DEF Take, IInv, TypeOK
<1>4. /\ DOMAIN hand' = Reader /\ hand'[r] = Head(pipe[r])
      /\ \A q \in Reader : q # r => hand'[q] = hand[q]
  BY DEF Take, IInv, TypeOK
<1>5. /\ reader' \in [Reader -> {"none", "reading", "emit", "push", "ended"}]
      /\ \A q \in Reader : IF reader'[q] \in {"emit", "push"}
                             THEN hand'[q] \in Line ELSE hand'[q] = NoLine
      /\ Unspawned'
  BY <1>2, <1>4, MovedReader DEF Take
<1>6. marker' \in BOOLEAN
  BY DEF Take, IInv, TypeOK
<1>7. TypeOK'
  BY <1>3, <1>4, <1>5, <1>6 DEF Take, IInv, TypeOK
<1>8. RingInv'
  BY DEF Take, IInv, RingInv
<1>. QED
  BY <1>5, <1>7, <1>8 DEF IInv

LEMMA EndSteps ==
  ASSUME IInv, NEW r \in Reader, FailToDecode(r) \/ EndOfFile(r) PROVE IInv'
<1>1. /\ Goto(r, "reading", "ended") /\ UNCHANGED <<spawned, alive, written>>
      /\ UNCHANGED <<hand, shown>>
      /\ pipe' = [pipe EXCEPT ![r] = <<>>] \/ pipe' = pipe
  BY DEF FailToDecode, EndOfFile
<1>2. <<>> \in Seq(Line) /\ Len(<<>>) = 0
  BY EmptySeq
<1>3. /\ pipe' \in [Reader -> Seq(Line)]
      /\ \A q \in Reader : Len(pipe'[q]) <= PipeSize
  <2>1. /\ pipe \in [Reader -> Seq(Line)] /\ PipeSize \in Nat
        /\ \A q \in Reader : Len(pipe[q]) <= PipeSize
    BY OutputAssumption DEF IInv, TypeOK
  <2>2. CASE pipe' = pipe
    BY <2>1, <2>2
  <2>3. CASE pipe' = [pipe EXCEPT ![r] = <<>>]
    <3>1. pipe' \in [Reader -> Seq(Line)]
      BY <1>2, <2>1, <2>3
    <3>2. \A q \in Reader : pipe'[q] = <<>> \/ pipe'[q] = pipe[q]
      BY <2>1, <2>3
    <3>3. 0 <= PipeSize
      BY <2>1
    <3>. QED
      BY <1>2, <2>1, <3>1, <3>2, <3>3
  <2>. QED
    BY <1>1, <2>2, <2>3
<1>4. DOMAIN hand' = Reader /\ hand'[r] = NoLine
  BY <1>1 DEF IInv, TypeOK, Goto
<1>5. /\ reader' \in [Reader -> {"none", "reading", "emit", "push", "ended"}]
      /\ \A q \in Reader : IF reader'[q] \in {"emit", "push"}
                             THEN hand'[q] \in Line ELSE hand'[q] = NoLine
      /\ Unspawned'
  BY <1>1, <1>4, MovedReader
<1>6. TypeOK'
  BY <1>1, <1>3, <1>4, <1>5 DEF IInv, TypeOK, shown
<1>7. RingInv'
  BY <1>1 DEF IInv, RingInv, shown
<1>. QED
  BY <1>5, <1>6, <1>7 DEF IInv

LEMMA EmitStep == ASSUME IInv, NEW r \in Reader, Emit(r) PROVE IInv'
<1>1. hand[r] \in Line /\ hand' = hand /\ DOMAIN hand' = Reader
  BY DEF Emit, Goto, IInv, TypeOK
<1>2. events' \in [Reader -> Seq(Line)]
  <2>1. Append(events[r], hand[r]) \in Seq(Line)
    BY <1>1, AppendProperties DEF IInv, TypeOK
  <2>. QED
    BY <2>1 DEF Emit, IInv, TypeOK
<1>3. /\ reader' \in [Reader -> {"none", "reading", "emit", "push", "ended"}]
      /\ \A q \in Reader : IF reader'[q] \in {"emit", "push"}
                             THEN hand'[q] \in Line ELSE hand'[q] = NoLine
      /\ Unspawned'
  BY <1>1, MovedReader DEF Emit
<1>4. TypeOK'
  BY <1>1, <1>2, <1>3 DEF Emit, IInv, TypeOK
<1>5. RingInv'
  BY DEF Emit, IInv, RingInv
<1>. QED
  BY <1>3, <1>4, <1>5 DEF IInv

(* What the ring holds after room was made. *)
LEMMA RoomMade ==
  ASSUME IInv
  PROVE  /\ MakeRoom \in Seq(Line) /\ Len(MakeRoom) < Capacity
         /\ Len(MakeRoom) < Capacity - 1 => Len(MakeRoom) = Len(log)
         /\ Len(MakeRoom) <= Len(log)
         /\ \A i \in 1 .. Len(MakeRoom) :
              MakeRoom[i] = log[Len(log) - Len(MakeRoom) + i]
<1>. USE OutputAssumption
<1>1. /\ ring \in Seq(Line) /\ log \in Seq(Line) /\ Len(ring) <= Capacity
      /\ Len(ring) \in Nat /\ Len(log) \in Nat /\ Capacity \in Nat \ {0}
  BY LenProperties DEF IInv, TypeOK
<1>2. /\ Len(ring) <= Len(log)
      /\ Len(ring) < Capacity => Len(ring) = Len(log)
      /\ \A i \in 1 .. Len(ring) : ring[i] = log[Len(log) - Len(ring) + i]
  BY DEF IInv, RingInv
<1>3. CASE Len(ring) = Capacity
  <2>1. MakeRoom = Tail(ring) /\ ring # <<>>
    BY <1>1, <1>3, EmptySeq DEF MakeRoom
  <2>2. /\ MakeRoom \in Seq(Line) /\ Len(MakeRoom) = Len(ring) - 1
        /\ \A i \in 1 .. Len(MakeRoom) : MakeRoom[i] = ring[i + 1]
    BY <1>1, <2>1, HeadTailProperties
  <2>. HIDE DEF MakeRoom
  <2>3. ASSUME NEW i \in 1 .. Len(MakeRoom)
        PROVE  MakeRoom[i] = log[Len(log) - Len(MakeRoom) + i]
    <3>1. i + 1 \in 1 .. Len(ring) /\ MakeRoom[i] = ring[i + 1]
      BY <1>1, <2>2
    <3>2. MakeRoom[i] = log[Len(log) - Len(ring) + (i + 1)]
      BY <1>2, <3>1
    <3>3. Len(log) - Len(ring) + (i + 1) = Len(log) - Len(MakeRoom) + i
      BY <1>1, <2>2
    <3>. QED
      BY <3>2, <3>3
  <2>. QED
    BY <1>1, <1>2, <1>3, <2>2, <2>3
<1>4. CASE Len(ring) # Capacity
  <2>1. MakeRoom = ring /\ Len(ring) < Capacity
    BY <1>1, <1>4 DEF MakeRoom
  <2>. QED
    BY <1>1, <1>2, <2>1
<1>. QED
  BY <1>3, <1>4

LEMMA PushStep == ASSUME IInv, NEW r \in Reader, Push(r) PROVE IInv'
<1>. USE OutputAssumption
<1>1. hand[r] \in Line /\ log \in Seq(Line)
  BY DEF Push, Goto, IInv, TypeOK
<1>2. ring' = Append(MakeRoom, hand[r]) /\ log' = Append(log, hand[r])
  BY DEF Push
<1>. DEFINE room == MakeRoom
<1>3. /\ room \in Seq(Line) /\ Len(room) < Capacity
      /\ Len(room) < Capacity - 1 => Len(room) = Len(log)
      /\ Len(room) <= Len(log)
      /\ \A i \in 1 .. Len(room) : room[i] = log[Len(log) - Len(room) + i]
  BY RoomMade
<1>4. ring' = Append(room, hand[r])
  BY <1>2
<1>. HIDE DEF room
<1>5. /\ ring' \in Seq(Line) /\ Len(ring') = Len(room) + 1
      /\ \A i \in 1 .. Len(room) : ring'[i] = room[i]
      /\ ring'[Len(room) + 1] = hand[r]
  BY <1>1, <1>3, <1>4, AppendProperties
<1>6. /\ log' \in Seq(Line) /\ Len(log') = Len(log) + 1
      /\ \A i \in 1 .. Len(log) : log'[i] = log[i]
      /\ log'[Len(log) + 1] = hand[r]
  BY <1>1, <1>2, AppendProperties
<1>7. Len(room) \in Nat /\ Len(log) \in Nat /\ Capacity \in Nat
  BY <1>1, <1>3, LenProperties
<1>8. RingInv'
  <2>1. ASSUME NEW i \in 1 .. Len(ring')
        PROVE  ring'[i] = log'[Len(log') - Len(ring') + i]
    <3>1. Len(log') - Len(ring') + i = Len(log) - Len(room) + i
      BY <1>5, <1>6, <1>7
    <3>2. CASE i = Len(room) + 1
      BY <1>5, <1>6, <1>7, <3>1, <3>2
    <3>3. CASE i # Len(room) + 1
      <4>1. i \in 1 .. Len(room) /\ Len(log) - Len(room) + i \in 1 .. Len(log)
        BY <1>3, <1>5, <1>7, <3>3
      <4>. QED
        BY <1>3, <1>5, <1>6, <3>1, <4>1
    <3>. QED
      BY <3>2, <3>3
  <2>2. /\ Len(ring') <= Len(log')
        /\ Len(ring') < Capacity => Len(ring') = Len(log')
    BY <1>3, <1>5, <1>6, <1>7
  <2>. QED
    BY <2>1, <2>2 DEF RingInv
<1>9. Len(ring') <= Capacity
  BY <1>3, <1>5, <1>7
<1>10. /\ DOMAIN hand' = Reader /\ hand'[r] = NoLine
       /\ \A q \in Reader : q # r => hand'[q] = hand[q]
  BY DEF Push, IInv, TypeOK
<1>11. /\ reader' \in [Reader -> {"none", "reading", "emit", "push", "ended"}]
       /\ \A q \in Reader : IF reader'[q] \in {"emit", "push"}
                              THEN hand'[q] \in Line ELSE hand'[q] = NoLine
       /\ Unspawned'
  BY <1>10, MovedReader DEF Push
<1>12. TypeOK'
  BY <1>5, <1>6, <1>9, <1>10, <1>11 DEF Push, IInv, TypeOK
<1>. QED
  BY <1>8, <1>11, <1>12 DEF IInv

(* Every behaviour keeps the ring the tail of what was pushed. *)
THEOREM Inductive == Spec => []IInv
<1>1. IInv /\ [Next]_vars => IInv'
  <2>. SUFFICES ASSUME IInv, [Next]_vars PROVE IInv'
    OBVIOUS
  <2>1. CASE UNCHANGED vars
    BY <2>1 DEF vars, IInv, TypeOK, Unspawned, RingInv
  <2>2. ASSUME NEW r \in Reader, Read(r) PROVE IInv'
    BY <2>2, TakeStep, EndSteps, EmitStep, PushStep DEF Read
  <2>. QED
    BY <2>1, <2>2, ProcessSteps, SpawnStep DEF Next
<1>. QED
  BY InitEstablishes, <1>1, PTL DEF Spec

-----------------------------------------------------------------------------
(* What logs answers with, from the ring.                                  *)

LEMMA MinOfThree ==
  ASSUME NEW a \in Nat, NEW b \in Nat, NEW c \in Nat
  PROVE  /\ Min({a, b, c}) \in {a, b, c}
         /\ Min({a, b, c}) <= a /\ Min({a, b, c}) <= b /\ Min({a, b, c}) <= c
<1>1. \E x \in {a, b, c} : \A y \in {a, b, c} : x <= y
  <2>1. CASE a <= b /\ a <= c
    BY <2>1
  <2>2. CASE b <= a /\ b <= c
    BY <2>2
  <2>3. CASE c <= a /\ c <= b
    BY <2>3
  <2>. QED
    BY <2>1, <2>2, <2>3
<1>. QED
  BY <1>1 DEF Min

LEMMA ReverseOfSeq ==
  ASSUME NEW S, NEW s \in Seq(S)
  PROVE  /\ Reverse(s) \in Seq(S) /\ Len(Reverse(s)) = Len(s)
         /\ \A i \in 1 .. Len(s) : Reverse(s)[i] = s[Len(s) - i + 1]
<1>1. Reverse(s) \in [1 .. Len(s) -> S]
  BY DEF Reverse
<1>2. Reverse(s) \in Seq(S) /\ Len(Reverse(s)) = Len(s)
  BY <1>1, SeqDef
<1>. QED
  BY <1>2 DEF Reverse

LEMMA NewestFromRing == IInv => LogsShowNewest
<1>. SUFFICES
       ASSUME IInv, NEW lines \in 0 .. Capacity + 1
       PROVE  LET m == Min({lines, Len(log), Capacity})
              IN  Logs(lines) = SubSeq(log, Len(log) - m + 1, Len(log))
  BY DEF LogsShowNewest
<1>. DEFINE m == Min({lines, Len(log), Capacity})
<1>. USE OutputAssumption
<1>1. ring \in Seq(Line) /\ log \in Seq(Line) /\ Len(ring) <= Capacity
  BY DEF IInv, TypeOK
<1>2. /\ Len(ring) \in Nat /\ Len(log) \in Nat /\ lines \in Nat
      /\ Len(ring) <= Len(log)
      /\ Len(ring) < Capacity => Len(ring) = Len(log)
  BY <1>1, LenProperties DEF IInv, RingInv
<1>3. \A i \in 1 .. Len(ring) : ring[i] = log[Len(log) - Len(ring) + i]
  BY DEF IInv, RingInv
<1>4. /\ m \in Nat /\ m <= lines /\ m <= Len(log) /\ m <= Capacity
      /\ m = lines \/ m = Len(log) \/ m = Capacity
  BY <1>1, MinOfThree
<1>. HIDE DEF m
<1>5. m = Min({lines, Len(ring)}) /\ m <= Len(ring)
  <2>1. /\ Min({lines, Len(ring), Len(ring)}) \in {lines, Len(ring)}
        /\ Min({lines, Len(ring), Len(ring)}) <= lines
        /\ Min({lines, Len(ring), Len(ring)}) <= Len(ring)
    BY <1>1, MinOfThree
  <2>2. {lines, Len(ring), Len(ring)} = {lines, Len(ring)}
    OBVIOUS
  <2>. DEFINE k == Min({lines, Len(ring)})
  <2>3. k = lines \/ k = Len(ring)
    BY <2>1, <2>2
  <2>4. k <= lines /\ k <= Len(ring)
    BY <2>1, <2>2
  <2>. HIDE DEF k
  <2>5. m <= Len(ring) /\ Capacity \in Nat
    BY <1>1, <1>4, <1>2
  <2>6. m = k
    <3>1. Len(ring) <= Capacity
      BY <1>1
    <3>2. CASE m = lines
      BY <1>2, <2>3, <2>4, <2>5, <3>2
    <3>3. CASE m = Len(log) \/ m = Capacity
      BY <1>2, <1>4, <2>3, <2>4, <2>5, <3>1, <3>3
    <3>. QED
      BY <1>4, <3>2, <3>3
  <2>. QED
    BY <2>5, <2>6 DEF k
<1>. DEFINE back == Reverse(ring)
            cut  == SubSeq(back, 1, m)
<1>6. /\ back \in Seq(Line) /\ Len(back) = Len(ring)
      /\ \A i \in 1 .. Len(ring) : back[i] = ring[Len(ring) - i + 1]
  BY <1>1, ReverseOfSeq
<1>. HIDE DEF back
<1>7. /\ cut \in Seq(Line) /\ Len(cut) = m
      /\ \A i \in 1 .. m : cut[i] = back[i]
  <2>1. \A i \in 1 .. m : back[i] \in Line
    BY <1>1, <1>4, <1>5, <1>6, ElementOfSeq
  <2>2. /\ cut \in Seq(Line) /\ Len(cut) = IF 1 <= m THEN m - 1 + 1 ELSE 0
        /\ \A i \in 1 .. m - 1 + 1 : cut[i] = back[1 + i - 1]
    BY <1>4, <2>1, SubSeqProperties
  <2>. HIDE DEF cut
  <2>3. /\ m - 1 + 1 = m /\ m \in Nat
        /\ \A i \in 1 .. m : 1 + i - 1 = i
    BY <1>4
  <2>. QED
    BY <1>4, <2>2, <2>3
<1>. HIDE DEF cut
<1>8. /\ Reverse(cut) \in Seq(Line) /\ Len(Reverse(cut)) = m
      /\ \A i \in 1 .. m : Reverse(cut)[i] = cut[m - i + 1]
  <2>1. /\ Reverse(cut) \in Seq(Line) /\ Len(Reverse(cut)) = Len(cut)
        /\ \A i \in 1 .. Len(cut) : Reverse(cut)[i] = cut[Len(cut) - i + 1]
    BY <1>7, ReverseOfSeq
  <2>. QED
    BY <1>7, <2>1
<1>9. Logs(lines) = Reverse(cut)
  BY <1>5, <1>6 DEF Logs, Taken, cut, back
<1>10. \A i \in 1 .. m : Reverse(cut)[i] = log[Len(log) - m + i]
  <2>. SUFFICES ASSUME NEW i \in 1 .. m
                PROVE  Reverse(cut)[i] = log[Len(log) - m + i]
    OBVIOUS
  <2>1. m - i + 1 \in 1 .. m /\ m - i + 1 \in 1 .. Len(ring)
    BY <1>4, <1>5, <1>1
  <2>2. Reverse(cut)[i] = ring[Len(ring) - (m - i + 1) + 1]
    BY <1>6, <1>7, <1>8, <2>1
  <2>3. /\ Len(ring) - (m - i + 1) + 1 = Len(ring) - m + i
        /\ Len(ring) - m + i \in 1 .. Len(ring)
    BY <1>1, <1>4, <1>5
  <2>4. Reverse(cut)[i] = log[Len(log) - Len(ring) + (Len(ring) - m + i)]
    <3>. DEFINE j == Len(ring) - m + i
    <3>1. j \in 1 .. Len(ring) /\ Reverse(cut)[i] = ring[j]
      BY <2>2, <2>3
    <3>. HIDE DEF j
    <3>2. Reverse(cut)[i] = log[Len(log) - Len(ring) + j]
      BY <1>3, <3>1
    <3>. QED
      BY <3>2 DEF j
  <2>5. Len(log) - Len(ring) + (Len(ring) - m + i) = Len(log) - m + i
    BY <1>2, <1>4
  <2>. QED
    BY <2>4, <2>5
<1>. DEFINE tail == SubSeq(log, Len(log) - m + 1, Len(log))
<1>11. /\ tail \in Seq(Line) /\ Len(tail) = m
       /\ \A i \in 1 .. m : tail[i] = log[Len(log) - m + i]
  <2>. DEFINE first == Len(log) - m + 1
  <2>1. /\ first \in Int /\ Len(log) \in Int
        /\ \A i \in first .. Len(log) : i \in 1 .. Len(log)
    BY <1>2, <1>4
  <2>2. \A i \in first .. Len(log) : log[i] \in Line
    BY <1>1, <2>1, ElementOfSeq
  <2>. HIDE DEF first
  <2>3. /\ SubSeq(log, first, Len(log)) \in Seq(Line)
        /\ Len(SubSeq(log, first, Len(log))) =
             IF first <= Len(log) THEN Len(log) - first + 1 ELSE 0
        /\ \A i \in 1 .. Len(log) - first + 1 :
             SubSeq(log, first, Len(log))[i] = log[first + i - 1]
    BY <2>1, <2>2, SubSeqProperties
  <2>4. Len(log) - first + 1 = m /\ (first <= Len(log) <=> 1 <= m)
    BY <1>2, <1>4 DEF first
  <2>5. \A i \in 1 .. m : first + i - 1 = Len(log) - m + i
    BY <1>2, <1>4 DEF first
  <2>6. tail = SubSeq(log, first, Len(log))
    BY DEF first
  <2>. HIDE DEF tail
  <2>. QED
    BY <1>4, <2>3, <2>4, <2>5, <2>6
<1>. HIDE DEF tail
<1>12. Reverse(cut) = tail
  BY <1>4, <1>8, <1>10, <1>11, SeqEqual
<1>. QED
  BY <1>9, <1>12 DEF tail, m

(* The types of the readers and the ring, for any number of spawns.        *)
THEOREM TypeCorrect == Spec => []TypeOK
<1>1. IInv => TypeOK
  BY DEF IInv
<1>. QED
  BY Inductive, <1>1, PTL

(* For a ring of any capacity, filled by the readers of any number of      *)
(* spawns, logs answers with the newest lines in the order they came.      *)
THEOREM LogsCorrect == Spec => []LogsShowNewest
BY Inductive, NewestFromRing, PTL

-----------------------------------------------------------------------------
(* What each stream writes arrives in its order.                           *)

LinesFrom(r) == {line \in Line : line.from = r}

(* What a stream wrote and nobody lost. *)
Known(r) == LinesOf(log, r) \o Held(r) \o pipe[r]

(* Until its reader has ended that is all; and a reader that ends before   *)
(* the end of the file has met a line it could not decode.                 *)
Stream(r) ==
  /\ pipe[r] \in Seq(LinesFrom(r))
  /\ hand[r] = NoLine \/ hand[r] \in LinesFrom(r)
  /\ reader[r] # "ended" => Known(r) = written[r]
  /\ reader[r] = "ended" =>
       /\ IsPrefix(Known(r), written[r])
       /\ Known(r) # written[r] => ~Decodable(r, Len(written[r]))

StreamInv == \A r \in Reader : Stream(r)

(* Only a reader that is to emit or push holds a line. *)
LEMMA HeldLine ==
  ASSUME TypeOK, NEW r \in Reader
  PROVE  /\ reader[r] \in {"emit", "push"} =>
              hand[r] \in Line /\ hand[r] # NoLine /\ Held(r) = <<hand[r]>>
         /\ reader[r] \notin {"emit", "push"} =>
              hand[r] = NoLine /\ Held(r) = <<>>
<1>1. \A line \in Line : line # NoLine
  BY DEF Line, NoLine, Kinds
<1>. QED  BY <1>1 DEF TypeOK, Held

(* The lines of a stream in a log are lines. *)
LEMMA LogTypes ==
  ASSUME NEW s \in Seq(Line), NEW r
  PROVE  LinesOf(s, r) \in Seq(Line)
BY SelectType DEF LinesOf

(* A line that is pushed is one more of its own stream only. *)
LEMMA LogOneMore ==
  ASSUME TypeOK, NEW x \in Line, log' = Append(log, x)
  PROVE  \A r : LinesOf(log', r) =
                  IF x.from = r THEN Append(LinesOf(log, r), x)
                  ELSE LinesOf(log, r)
BY SelectAppend DEF LinesOf, TypeOK

(* All of a list but its end is a prefix of it. *)
LEMMA PrefixOfConcat ==
  ASSUME NEW S, NEW s \in Seq(S), NEW t \in Seq(S)
  PROVE  IsPrefix(s, s \o t) /\ (t # <<>> => s # s \o t)
<1>1. /\ s \o t \in Seq(S) /\ Len(s \o t) = Len(s) + Len(t)
      /\ Len(s) \in Nat /\ Len(t) \in Nat
      /\ \A i \in 1 .. Len(s) : (s \o t)[i] = s[i]
  BY ConcatProperties
<1>2. SubSeq(s, 1, Len(s)) = SubSeq(s \o t, 1, Len(s))
  <2>. DEFINE r == s \o t
              n == Len(s)
  <2>1. r \in Seq(S) /\ n \in Nat /\ n <= Len(r)
        /\ \A i \in 1 .. n : r[i] = s[i] /\ s[i] \in S
    BY <1>1
  <2>. HIDE DEF r
  <2>2. \A i \in 1 .. n : r[i] \in S
    BY <2>1
  <2>3. /\ SubSeq(r, 1, n) \in Seq(S) /\ SubSeq(s, 1, n) \in Seq(S)
        /\ Len(SubSeq(r, 1, n)) = n /\ Len(SubSeq(s, 1, n)) = n
        /\ \A i \in 1 .. n : SubSeq(r, 1, n)[i] = r[i]
        /\ \A i \in 1 .. n : SubSeq(s, 1, n)[i] = s[i]
    BY <2>1, <2>2
  <2>. HIDE DEF n
  <2>4. SubSeq(s, 1, n) = SubSeq(r, 1, n)
    BY <2>1, <2>3, SeqEqual
  <2>. QED  BY <2>4 DEF r, n
<1>3. t # <<>> => s # s \o t
  BY ConcatEqualIffEmpty
<1>. QED  BY <1>1, <1>2, <1>3 DEF IsPrefix

(* A step that concerns one reader. *)
LEMMA OtherStreams ==
  ASSUME StreamInv, NEW r \in Reader, Stream(r)',
         \A q \in Reader \ {r} :
           /\ pipe'[q] = pipe[q] /\ hand'[q] = hand[q]
           /\ written'[q] = written[q] /\ reader'[q] = reader[q]
           /\ LinesOf(log', q) = LinesOf(log, q)
  PROVE  StreamInv'
<1>. SUFFICES ASSUME NEW q \in Reader \ {r}  PROVE Stream(q)'
  BY DEF StreamInv
<1>1. Known(q)' = Known(q)
  BY DEF Known, Held
<1>. QED  BY <1>1 DEF StreamInv, Stream, Decodable

(* A process writes one more line. *)
LEMMA StreamWrites ==
  ASSUME TypeOK, TypeOK', StreamInv,
         NEW r \in Reader, NEW kind \in Kinds, Writes(r, kind)
  PROVE  StreamInv'
<1>. DEFINE line == [from |-> r, no |-> Len(written[r]) + 1, kind |-> kind]
<1>1. /\ written' = [written EXCEPT ![r] = Append(@, line)]
      /\ pipe' = [pipe EXCEPT ![r] = Append(@, line)]
      /\ reader[r] # "ended" /\ UNCHANGED <<reader, hand, log>>
  BY DEF Writes, shown
<1>2. line \in LinesFrom(r)
  BY DEF TypeOK, Line, LinesFrom
<1>. HIDE DEF line
<1>3. /\ written'[r] = Append(written[r], line)
      /\ pipe'[r] = Append(pipe[r], line)
  BY <1>1 DEF TypeOK
<1>. DEFINE s == LinesOf(log, r) \o Held(r)
<1>4. s \in Seq(Line) /\ pipe[r] \in Seq(Line)
  <2>1. Held(r) \in Seq(Line)
    <3>1. \A x \in Line : <<x>> \in Seq(Line)
      OBVIOUS
    <3>. QED  BY <3>1, HeldLine, EmptySeq
  <2>. QED  BY <2>1, LogTypes, ConcatProperties DEF TypeOK
<1>5. s \o Append(pipe[r], line) = Append(s \o pipe[r], line)
  <2>. HIDE DEF s
  <2>1. line \in Line /\ <<line>> \in Seq(Line)
    BY <1>2 DEF LinesFrom
  <2>2. s \o pipe[r] \in Seq(Line)
    BY <1>4, ConcatProperties
  <2>3. Append(pipe[r], line) = pipe[r] \o <<line>>
        /\ Append(s \o pipe[r], line) = (s \o pipe[r]) \o <<line>>
    BY <1>4, <2>1, <2>2, AppendIsConcat
  <2>4. (s \o pipe[r]) \o <<line>> = s \o (pipe[r] \o <<line>>)
    <3>. DEFINE p == pipe[r]
    <3>1. p \in Seq(Line)
      BY <1>4
    <3>. HIDE DEF p
    <3>2. (s \o p) \o <<line>> = s \o (p \o <<line>>)
      BY <1>4, <2>1, <3>1, ConcatAssociative
    <3>. QED  BY <3>2 DEF p
  <2>. QED  BY <2>3, <2>4
<1>6. Known(r)' = written'[r]
  <2>1. Known(r)' = s \o Append(pipe[r], line)
    BY <1>1, <1>3 DEF Known, Held, LinesOf
  <2>2. Known(r) = s \o pipe[r] /\ Known(r) = written[r]
    BY <1>1 DEF Known, StreamInv, Stream
  <2>. QED  BY <1>3, <1>5, <2>1, <2>2
<1>7. Stream(r)'
  BY <1>1, <1>2, <1>3, <1>6 DEF Stream, StreamInv
<1>. QED  BY <1>1, <1>7, OtherStreams DEF TypeOK, LinesOf

(* A reader takes the first line of its pipe. *)
LEMMA StreamTake ==
  ASSUME TypeOK, TypeOK', StreamInv, NEW r \in Reader, Take(r)
  PROVE  StreamInv'
<1>1. /\ reader[r] = "reading" /\ reader'[r] = "emit"
      /\ hand'[r] = Head(pipe[r]) /\ pipe'[r] = Tail(pipe[r])
      /\ pipe[r] # <<>> /\ UNCHANGED <<written, log>>
      /\ \A q \in Reader \ {r} : /\ reader'[q] = reader[q]
                                 /\ hand'[q] = hand[q] /\ pipe'[q] = pipe[q]
  BY DEF Take, Goto, TypeOK
<1>. DEFINE s == LinesOf(log, r)
            p == pipe[r]
<1>2. /\ p \in Seq(LinesFrom(r)) /\ p \in Seq(Line) /\ p # <<>>
      /\ s \in Seq(Line)
  BY <1>1, LogTypes DEF StreamInv, Stream, TypeOK
<1>3. /\ Head(p) \in LinesFrom(r) /\ Tail(p) \in Seq(LinesFrom(r))
      /\ Head(p) \in Line /\ Tail(p) \in Seq(Line)
  BY <1>2, HeadTailProperties
<1>4. p = <<Head(p)>> \o Tail(p)
  BY <1>2, <1>3
<1>5. Known(r) = s \o p
  <2>1. Known(r) = s \o <<>> \o p
    BY <1>1, HeldLine DEF Known
  <2>. QED  BY <1>2, <2>1, ConcatEmptySeq
<1>6. Known(r)' = s \o <<Head(p)>> \o Tail(p)
  <2>1. Held(r)' = <<Head(p)>>
    <3>1. hand'[r] # NoLine
      BY <1>1, <1>3 DEF Line, NoLine, Kinds
    <3>. QED  BY <1>1, <3>1 DEF Held
  <2>. QED  BY <1>1, <2>1 DEF Known, LinesOf
<1>7. Known(r)' = Known(r)
  <2>. HIDE DEF s, p
  <2>1. <<Head(p)>> \in Seq(Line)
    BY <1>3
  <2>2. (s \o <<Head(p)>>) \o Tail(p) = s \o (<<Head(p)>> \o Tail(p))
    BY <1>2, <1>3, <2>1, ConcatAssociative
  <2>. QED  BY <1>4, <1>5, <1>6, <2>2
<1>8. Stream(r)'
  BY <1>1, <1>3, <1>7 DEF Stream, StreamInv
<1>. QED  BY <1>1, <1>8, OtherStreams DEF LinesOf

(* A reader ends at the end of the file, or at a line it cannot decode:    *)
(* what it knew is a part of what was written, which has that line.        *)
LEMMA StreamEnds ==
  ASSUME TypeOK, TypeOK', StreamInv, NEW r \in Reader,
         FailToDecode(r) \/ EndOfFile(r)
  PROVE  StreamInv'
<1>1. /\ reader[r] = "reading" /\ reader'[r] = "ended"
      /\ pipe'[r] = <<>> /\ UNCHANGED <<written, log, hand>>
      /\ pipe[r] # <<>> => Head(pipe[r]).kind = "undecodable"
      /\ \A q \in Reader \ {r} : reader'[q] = reader[q] /\ pipe'[q] = pipe[q]
  BY DEF FailToDecode, EndOfFile, Goto, TypeOK, shown
<1>. DEFINE s == LinesOf(log, r)
            p == pipe[r]
<1>2. s \in Seq(Line) /\ p \in Seq(Line)
  BY LogTypes DEF TypeOK
<1>3. hand[r] = NoLine /\ Held(r) = <<>> /\ Held(r)' = <<>>
  BY <1>1, HeldLine DEF Held
<1>4. Known(r) = s \o p /\ Known(r)' = s
  <2>1. Known(r) = s \o <<>> \o p /\ Known(r)' = s \o <<>> \o <<>>
    BY <1>1, <1>3 DEF Known, LinesOf
  <2>. QED  BY <1>2, <2>1, ConcatEmptySeq
<1>5. written[r] = s \o p
  BY <1>1, <1>4 DEF StreamInv, Stream
<1>6. IsPrefix(Known(r)', written'[r])
  BY <1>1, <1>2, <1>4, <1>5, PrefixOfConcat
<1>7. Known(r)' # written'[r] => ~Decodable(r, Len(written[r]))'
  <2>. SUFFICES ASSUME Known(r)' # written'[r]
                PROVE  ~Decodable(r, Len(written[r]))'
    OBVIOUS
  <2>. HIDE DEF s, p
  <2>1. p # <<>>
    BY <1>1, <1>2, <1>4, <1>5, ConcatEmptySeq
  <2>2. /\ Len(s) + 1 \in 1 .. Len(s \o p)
        /\ (s \o p)[Len(s) + 1] = Head(p)
    BY <1>2, <2>1
  <2>3. Head(p).kind = "undecodable"
    BY <1>1, <2>1 DEF p
  <2>. QED  BY <1>1, <1>5, <2>2, <2>3 DEF Decodable
<1>8. Stream(r)'
  BY <1>1, <1>3, <1>6, <1>7 DEF Stream
<1>. QED  BY <1>1, <1>8, OtherStreams DEF LinesOf

(* The line in hand goes into the log. *)
LEMMA StreamPush ==
  ASSUME TypeOK, TypeOK', StreamInv, NEW r \in Reader, Push(r)
  PROVE  StreamInv' /\ \A q \in Reader :
           LinesOf(log', q) = LinesOf(log, q)
                                \o (IF q = r THEN Held(r) ELSE <<>>)
<1>1. /\ reader[r] = "push" /\ reader'[r] = "reading"
      /\ hand'[r] = NoLine /\ log' = Append(log, hand[r])
      /\ UNCHANGED <<written, pipe>>
      /\ \A q \in Reader \ {r} : reader'[q] = reader[q] /\ hand'[q] = hand[q]
  BY DEF Push, Goto, TypeOK
<1>2. hand[r] \in Line /\ hand[r].from = r /\ Held(r) = <<hand[r]>>
  BY <1>1, HeldLine DEF StreamInv, Stream, LinesFrom
<1>3. \A q \in Reader : LinesOf(log, q) \in Seq(Line)
  BY LogTypes DEF TypeOK
<1>4. \A q \in Reader : LinesOf(log', q) =
        IF q = r THEN Append(LinesOf(log, q), hand[r]) ELSE LinesOf(log, q)
  BY <1>1, <1>2, LogOneMore
<1>5. \A q \in Reader :
        LinesOf(log', q) = LinesOf(log, q)
                             \o (IF q = r THEN Held(r) ELSE <<>>)
  BY <1>2, <1>3, <1>4, AppendIsConcat, ConcatEmptySeq
<1>6. Known(r)' = Known(r)
  <2>1. Known(r)' = LinesOf(log', r) \o <<>> \o pipe[r]
    BY <1>1 DEF Known, Held, LinesOf
  <2>2. LinesOf(log', r) = LinesOf(log, r) \o Held(r)
        /\ LinesOf(log', r) \in Seq(Line)
    <3>1. log' \in Seq(Line)
      BY DEF TypeOK
    <3>. QED  BY <1>5, <3>1, LogTypes
  <2>. QED  BY <2>1, <2>2, ConcatEmptySeq DEF Known
<1>7. Stream(r)'
  BY <1>1, <1>6 DEF Stream, StreamInv
<1>. QED  BY <1>1, <1>4, <1>5, <1>7, OtherStreams

(* Every step keeps the streams in order. *)
LEMMA StreamStep ==
  ASSUME TypeOK, TypeOK', Unspawned, StreamInv, [Next]_vars
  PROVE  StreamInv'
<1>1. CASE UNCHANGED vars
  BY <1>1 DEF vars, StreamInv, Stream, Known, Held, LinesOf, Decodable
<1>2. CASE Spawn
  <2>1. \A r \in Reader : (reader[r] = "ended") <=> (reader'[r] = "ended")
    <3>1. \A r \in Reader :
            ReaderOf(r) = spawned' => reader[r] = "none"
      BY <1>2 DEF Spawn, Unspawned, TypeOK
    <3>2. \A r \in Reader :
            reader'[r] = IF ReaderOf(r) = spawned' THEN "reading"
                         ELSE reader[r]
      BY <1>2 DEF Spawn
    <3>. QED  BY <3>1, <3>2
  <2>2. UNCHANGED <<written, pipe, hand, log>>
    BY <1>2 DEF Spawn
  <2>3. \A r \in Reader : Known(r)' = Known(r)
    BY <2>2 DEF Known, Held, LinesOf
  <2>. QED  BY <2>1, <2>2, <2>3 DEF StreamInv, Stream, Decodable
<1>3. CASE \E p \in Spawns : TreeEnds(p)
  BY <1>3 DEF TreeEnds, shown, StreamInv, Stream, Known, Held, LinesOf,
              Decodable
<1>4. CASE \E r \in Reader, kind \in Kinds : Writes(r, kind)
  BY <1>4, StreamWrites
<1>5. ASSUME NEW r \in Reader, Read(r)  PROVE StreamInv'
  <2>1. CASE Emit(r)
    <3>1. /\ reader[r] = "emit" /\ reader'[r] = "push"
          /\ \A q \in Reader \ {r} : reader'[q] = reader[q]
          /\ UNCHANGED <<written, pipe, hand, log>>
      BY <2>1 DEF Emit, Goto, TypeOK
    <3>. QED  BY <3>1 DEF StreamInv, Stream, Known, Held, LinesOf, Decodable
  <2>. QED  BY <1>5, <2>1, StreamTake, StreamEnds, StreamPush DEF Read
<1>. QED  BY <1>1, <1>2, <1>3, <1>4, <1>5 DEF Next

(* Every step keeps events and logs the same. *)
LEMMA EventsStep ==
  ASSUME TypeOK, TypeOK', Unspawned, StreamInv, EventsMatchLogs, [Next]_vars
  PROVE  EventsMatchLogs'
<1>. SUFFICES ASSUME EmitLogs, NEW q \in Reader
              PROVE  events'[q] = LinesOf(log', q)
                       \o (IF reader'[q] = "push" THEN Held(q)' ELSE <<>>)
  BY DEF EventsMatchLogs, LinesOf
<1>0. events[q] = LinesOf(log, q)
                    \o (IF reader[q] = "push" THEN Held(q) ELSE <<>>)
  BY DEF EventsMatchLogs
<1>1. CASE UNCHANGED vars
  BY <1>0, <1>1 DEF vars, Held, LinesOf
<1>2. CASE \/ Spawn \/ \E p \in Spawns : TreeEnds(p)
           \/ \E r \in Reader, kind \in Kinds : Writes(r, kind)
           \/ \E r \in Reader :
                Take(r) \/ FailToDecode(r) \/ EndOfFile(r)
  <2>1. /\ UNCHANGED <<events, log>>
        /\ reader'[q] = "push" <=> reader[q] = "push"
        /\ reader[q] = "push" => hand'[q] = hand[q]
    <3>1. CASE Spawn
      <4>1. UNCHANGED <<events, log, hand>>
        BY <3>1 DEF Spawn
      <4>2. ReaderOf(q) = spawned' => reader[q] = "none"
        BY <3>1 DEF Spawn, Unspawned, TypeOK
      <4>3. reader'[q] = IF ReaderOf(q) = spawned' THEN "reading"
                         ELSE reader[q]
        BY <3>1 DEF Spawn
      <4>. QED  BY <4>1, <4>2, <4>3
    <3>2. CASE \E r \in Reader : Take(r)
      BY <3>2 DEF Take, Goto, TypeOK
    <3>. QED  BY <1>2, <3>1, <3>2
              DEF TreeEnds, Writes, FailToDecode, EndOfFile, Goto, TypeOK,
                  shown
  <2>. QED  BY <1>0, <2>1 DEF Held, LinesOf
<1>3. ASSUME NEW r \in Reader, Emit(r)
      PROVE  events'[q] = LinesOf(log', q)
                       \o (IF reader'[q] = "push" THEN Held(q)' ELSE <<>>)
  <2>1. /\ reader[r] = "emit" /\ reader'[r] = "push"
        /\ \A p \in Reader \ {r} : reader'[p] = reader[p]
        /\ UNCHANGED <<hand, log>>
        /\ events' = [events EXCEPT ![r] = Append(@, hand[r])]
    BY <1>3 DEF Emit, Goto, TypeOK
  <2>2. CASE q # r
    BY <1>0, <2>1, <2>2 DEF TypeOK, Held, LinesOf
  <2>3. CASE q = r
    <3>1. hand[r] \in Line /\ Held(r) = <<hand[r]>> /\ Held(r)' = Held(r)
      BY <2>1, HeldLine DEF Held
    <3>2. events[r] = LinesOf(log, r) /\ LinesOf(log, r) \in Seq(Line)
      BY <1>0, <2>1, <2>3, LogTypes, ConcatEmptySeq DEF TypeOK
    <3>3. events'[r] = Append(LinesOf(log, r), hand[r])
      BY <2>1, <3>2 DEF TypeOK
    <3>. QED  BY <2>1, <2>3, <3>1, <3>2, <3>3, AppendIsConcat DEF LinesOf
  <2>. QED  BY <2>2, <2>3
<1>4. ASSUME NEW r \in Reader, Push(r)
      PROVE  events'[q] = LinesOf(log', q)
                       \o (IF reader'[q] = "push" THEN Held(q)' ELSE <<>>)
  <2>1. /\ reader[r] = "push" /\ reader'[r] = "reading"
        /\ \A p \in Reader \ {r} : reader'[p] = reader[p] /\ hand'[p] = hand[p]
        /\ UNCHANGED events
    BY <1>4 DEF Push, Goto, TypeOK
  <2>2. LinesOf(log', q) = LinesOf(log, q)
                             \o (IF q = r THEN Held(r) ELSE <<>>)
    BY <1>4, StreamPush
  <2>3. LinesOf(log, q) \in Seq(Line) /\ LinesOf(log', q) \in Seq(Line)
    <3>1. log \in Seq(Line) /\ log' \in Seq(Line)
      BY DEF TypeOK
    <3>. QED  BY <3>1, LogTypes
  <2>4. CASE q = r
    BY <1>0, <2>1, <2>2, <2>3, <2>4, ConcatEmptySeq
  <2>5. CASE q # r
    BY <1>0, <2>1, <2>2, <2>3, <2>5, ConcatEmptySeq DEF Held
  <2>. QED  BY <2>4, <2>5
<1>. QED  BY <1>1, <1>2, <1>3, <1>4 DEF Next, Read

(* Before the first spawn nothing is written. *)
LEMMA InitStreams == Init => StreamInv /\ EventsMatchLogs
<1>. SUFFICES ASSUME Init  PROVE StreamInv /\ EventsMatchLogs
  OBVIOUS
<1>1. \A r : LinesOf(log, r) = <<>>
  BY SelectEmpty DEF Init, LinesOf
<1>2. \A r \in Reader :
        /\ pipe[r] = <<>> /\ written[r] = <<>> /\ events[r] = <<>>
        /\ hand[r] = NoLine /\ Held(r) = <<>> /\ reader[r] = "none"
  BY DEF Init, Held
<1>3. <<>> \o <<>> = <<>> /\ \A S : <<>> \in Seq(S)
  BY EmptySeq
<1>4. StreamInv
  BY <1>1, <1>2, <1>3 DEF StreamInv, Stream, Known
<1>5. EventsMatchLogs
  BY <1>1, <1>2, <1>3 DEF EventsMatchLogs
<1>. QED  BY <1>4, <1>5

(* So they always are, for any number of spawns and lines. *)
LEMMA StreamsInductive == Spec => [](IInv /\ StreamInv /\ EventsMatchLogs)
<1>. DEFINE SInv == StreamInv /\ EventsMatchLogs
<1>1. IInv /\ IInv' /\ SInv /\ [Next]_vars => SInv'
  BY StreamStep, EventsStep DEF IInv
<1>. QED  BY <1>1, InitStreams, Inductive, PTL DEF Spec

(* Between a process and the log no line of a stream is lost, doubled or   *)
(* overtaken, unless its reader met one it could not decode.               *)
THEOREM StreamsCorrect == Spec => []StreamsInOrder
<1>1. ASSUME IInv, StreamInv  PROVE StreamsInOrder
  <2>. SUFFICES ASSUME NEW r \in Reader
                PROVE  /\ IsPrefix(Known(r), written[r])
                       /\ Known(r) # written[r] =>
                            /\ reader[r] = "ended"
                            /\ ~Decodable(r, Len(written[r]))
    BY DEF StreamsInOrder, Known
  <2>1. Stream(r) /\ IsPrefix(written[r], written[r])
    BY <1>1 DEF StreamInv, IsPrefix, IInv, TypeOK
  <2>. QED  BY <2>1 DEF Stream
<1>. QED  BY <1>1, StreamsInductive, PTL

(* What is emitted of a stream is what logs shows of it, but for one line  *)
(* on its way.                                                             *)
THEOREM EventsCorrect == Spec => []EventsMatchLogs
BY StreamsInductive, PTL
=============================================================================
