----------------------------- MODULE CameraProofs -----------------------------
(* Types, buffers and mappings of Camera, for every value of its constants. *)
EXTENDS Camera, TLAPS, FiniteSetTheorems, SequenceTheorems

-----------------------------------------------------------------------------
(* What the buffers and mappings look like between the calls of a session   *)

\* The session whose descriptor owns the queue, and what its queue holds: the
\* buffers 1 .. k while it sets up, all of them once it streams.
OwnerOK ==
  /\ owner # NoWorker => pc[owner] \in {"map"} \cup FramePcs \cup EndPcs
  /\ \A w \in Workers : pc[w] \in FramePcs \cup EndPcs => owner = w

MapOK ==
  \A w \in Workers : owner = w /\ pc[w] = "map" =>
    ~streaming /\ \E k \in 0 .. NumBuffers : queued = 1 .. k /\ k <= maps

QueueOK ==
  /\ ~streaming => done = <<>>
  /\ owner = NoWorker => ~streaming /\ queued = {}
  /\ \A w \in Workers : pc[w] \in FramePcs \cup {"unmap"} => streaming /\ NumBuffers <= maps

\* A buffer is in a session's hands inside the loop only; the file number has been
\* reset between the naming of a file and the next count.
WorkOK ==
  \A w \in Workers :
    /\ frame[w] # 0 => pc[w] \in FramePcs \cup {"unmap"}
    /\ pc[w] \in {"write", "decode", "decoding", "requeue", "count"} => cnt <= FileLimit

BufferInv == OwnerOK /\ MapOK /\ QueueOK /\ WorkOK /\ BuffersAccounted

IInv == TypeOK /\ BufferInv

USE DEF SetupPcs, FramePcs, EndPcs

LEMMA InitIInv == Init => IInv
<1> SUFFICES ASSUME Init PROVE IInv
  OBVIOUS
<1>1. TypeOK
  <2>1. done \in Seq(Buffers)
    BY EmptySeq DEF Init
  <2>2. pc \in [Workers -> WorkerPcs] /\ frame \in [Workers -> {0} \cup Buffers]
    BY DEF Init, WorkerPcs
  <2>3. word \in 0 .. 1 /\ cnt \in 0 .. FileLimit + 1 /\ faults \in 0 .. MaxFaults
    BY NumbersAssumption DEF Init
  <2>4. owner \in Workers \cup {NoWorker} /\ fds \subseteq Workers /\ queued \subseteq Buffers
    BY DEF Init
  <2>5. loaded \in Screens /\ present \in Screens /\ pressed \in {"none", "start", "close"}
    BY DEF Init, Screens
  <2>6. tears \in Nat /\ kept \in Nat /\ maps \in Nat
    BY DEF Init
  <2>7. initFlag \in BOOLEAN /\ using \in BOOLEAN /\ streaming \in BOOLEAN
    BY DEF Init
  <2> QED
    BY <2>1, <2>2, <2>3, <2>4, <2>5, <2>6, <2>7 DEF TypeOK
<1>2. OwnerOK /\ MapOK /\ QueueOK /\ WorkOK /\ BuffersAccounted
  BY WorkersAssumption DEF Init, OwnerOK, MapOK, QueueOK, WorkOK, BuffersAccounted
<1> QED
  BY <1>1, <1>2 DEF IInv, BufferInv

-----------------------------------------------------------------------------
(* Types                                                                    *)

\* The next buffer the set-up of session w maps.
LEMMA NextBuffer ==
  ASSUME TypeOK, MapOK, NEW w \in Workers, owner = w, pc[w] = "map", Granted(w) # Buffers
  PROVE  \E k \in 1 .. NumBuffers :
           k = Cardinality(Granted(w)) + 1 /\ queued = 1 .. k - 1 /\ k - 1 <= maps
<1>1. PICK k \in 0 .. NumBuffers : queued = 1 .. k /\ k <= maps
  BY DEF MapOK
<1>2. Granted(w) = 1 .. k
  BY <1>1 DEF Granted
<1>3. Cardinality(1 .. k) = k
  BY FS_Interval, NumbersAssumption
<1>4. k # NumBuffers
  BY <1>2 DEF Buffers
<1>5. k + 1 \in 1 .. NumBuffers /\ (k + 1) - 1 = k
  BY <1>4, NumbersAssumption
<1> QED
  BY <1>1, <1>2, <1>3, <1>5

LEMMA Remainder == ASSUME NEW n \in Nat PROVE n % 256 \in 0 .. n
BY Z3

LEMMA BeginTypes == ASSUME IInv, NEW w \in Workers, BeginStep(w) PROVE TypeOK'
<1> USE DEF IInv, BufferInv, TypeOK, mutex, device, work, ui, WorkerPcs, Section, LivePcs, Goto,
            Fail, Return, CloseFd
<1>1. CASE StartUsing(w)
  BY <1>1, NumbersAssumption DEF StartUsing
<1>2. CASE StartLoad(w)
  BY <1>2, NumbersAssumption DEF StartLoad, Screens
<1>3. CASE InitCheck(w)
  BY <1>3, NumbersAssumption DEF InitCheck
<1>4. CASE InitMutex(w)
  BY <1>4, NumbersAssumption DEF InitMutex
<1>5. CASE InitFlag(w)
  BY <1>5, NumbersAssumption DEF InitFlag
<1> QED
  BY <1>1, <1>2, <1>3, <1>4, <1>5 DEF BeginStep

LEMMA SetupTypes == ASSUME IInv, NEW w \in Workers, SetupStep(w) PROVE TypeOK'
<1> USE DEF IInv, BufferInv, TypeOK, mutex, device, work, ui, WorkerPcs, Section, LivePcs, Goto,
            Fail, Return, CloseFd
<1>1. CASE LockCamera(w)
  BY <1>1, NumbersAssumption DEF LockCamera
<1>2. CASE Check(w)
  BY <1>2, NumbersAssumption DEF Check
<1>3. CASE Bail(w)
  BY <1>3, NumbersAssumption DEF Bail
<1>4. CASE Open(w)
  BY <1>4, NumbersAssumption DEF Open
<1>5. CASE OpenFails(w)
  BY <1>5, NumbersAssumption DEF OpenFails
<1>6. CASE Request(w)
  BY <1>6, NumbersAssumption DEF Request
<1>7. CASE RequestFails(w)
  BY <1>7, NumbersAssumption DEF RequestFails
<1>8. CASE MapBuffer(w)
  BY <1>8, NextBuffer, NumbersAssumption DEF MapBuffer, Buffers
<1>9. CASE StreamOn(w)
  BY <1>9, NumbersAssumption DEF StreamOn
<1>10. CASE SetupFails(w)
  BY <1>10, NumbersAssumption DEF SetupFails
<1> QED
  BY <1>1, <1>2, <1>3, <1>4, <1>5, <1>6, <1>7, <1>8, <1>9, <1>10 DEF SetupStep

LEMMA FrameTypes == ASSUME IInv, NEW w \in Workers, FrameStep(w) PROVE TypeOK'
<1> USE DEF IInv, BufferInv, TypeOK, mutex, device, work, ui, WorkerPcs, Section, LivePcs, Goto,
            Fail, Return, CloseFd
<1>1. CASE Test(w)
  BY <1>1, NumbersAssumption DEF Test
<1>2. CASE Dequeue(w)
  BY <1>2, NumbersAssumption DEF Dequeue
<1>3. CASE PictureFile(w)
  BY <1>3, NumbersAssumption DEF PictureFile
<1>4. CASE WritePicture(w)
  BY <1>4, NumbersAssumption DEF WritePicture
<1>5. CASE Decode(w)
  BY <1>5, NumbersAssumption DEF Decode
<1>6. CASE DecodeDone(w)
  BY <1>6, NumbersAssumption DEF DecodeDone
<1>7. CASE Requeue(w)
  BY <1>7, NumbersAssumption DEF Requeue, BuffersAccounted
<1>8. CASE Count(w)
  BY <1>8, Remainder, NumbersAssumption DEF Count, WorkOK
<1>9. CASE Timer(w)
  BY <1>9, NumbersAssumption DEF Timer
<1>10. CASE SetSource(w)
  BY <1>10, NumbersAssumption DEF SetSource
<1>11. CASE Break(w)
  BY <1>11, NumbersAssumption DEF Break
<1> QED
  BY <1>1, <1>2, <1>3, <1>4, <1>5, <1>6, <1>7, <1>8, <1>9, <1>10, <1>11 DEF FrameStep

LEMMA EndTypes == ASSUME IInv, NEW w \in Workers, EndStep(w) PROVE TypeOK'
<1> USE DEF IInv, BufferInv, TypeOK, mutex, device, work, ui, WorkerPcs, Section, LivePcs, Goto,
            Fail, Return, CloseFd
<1>1. CASE Unmap(w)
  BY <1>1, NumbersAssumption DEF Unmap, QueueOK
<1>2. CASE StreamOff(w)
  BY <1>2, EmptySeq, NumbersAssumption DEF StreamOff
<1>3. CASE StreamOffFails(w)
  BY <1>3, EmptySeq, NumbersAssumption DEF StreamOffFails
<1>4. CASE CloseCamera(w)
  BY <1>4, NumbersAssumption DEF CloseCamera
<1>5. CASE UnlockCamera(w)
  BY <1>5, NumbersAssumption DEF UnlockCamera
<1>6. CASE StartPresent(w)
  BY <1>6, NumbersAssumption DEF StartPresent, Screens
<1> QED
  BY <1>1, <1>2, <1>3, <1>4, <1>5, <1>6 DEF EndStep

LEMMA CloseTypes == ASSUME IInv, NEW w \in Workers, CloseStep(w) PROVE TypeOK'
<1> USE DEF IInv, BufferInv, TypeOK, mutex, device, work, ui, WorkerPcs, Section, LivePcs, Goto,
            Fail, Return, CloseFd
<1>1. CASE CloseUsing(w)
  BY <1>1, NumbersAssumption DEF CloseUsing
<1>2. CASE CloseLoad(w)
  BY <1>2, NumbersAssumption DEF CloseLoad, Screens
<1>3. CASE ClosePresent(w)
  BY <1>3, NumbersAssumption DEF ClosePresent, Screens
<1> QED
  BY <1>1, <1>2, <1>3 DEF CloseStep

\* Fill, Press and the release of a button.
LEMMA RestTypes ==
  ASSUME IInv, Fill \/ Press \/ (\E w \in Workers : Release(w)) \/ UNCHANGED vars
  PROVE  TypeOK'
<1> USE DEF IInv, BufferInv, TypeOK, mutex, device, work, ui, WorkerPcs, Goto
<1>1. CASE Fill
  BY <1>1 DEF Fill
<1>2. CASE Press
  BY <1>2 DEF Press
<1>3. CASE \E w \in Workers : Release(w)
  BY <1>3 DEF Release
<1>4. CASE UNCHANGED vars
  BY <1>4 DEF vars
<1> QED
  BY <1>1, <1>2, <1>3, <1>4

-----------------------------------------------------------------------------
(* Who owns the queue, and what is in it                                    *)

queue == <<owner, queued, done, streaming, maps>>
Holding == {"file", "write", "decode", "decoding", "requeue"}
Naming == {"write", "decode", "decoding", "requeue", "count"}

\* A move between two places that mean the same to the buffers.
Alike(from, to) ==
  /\ from = "map" <=> to = "map"
  /\ from = "unmap" <=> to = "unmap"
  /\ from \in FramePcs <=> to \in FramePcs
  /\ from \in EndPcs <=> to \in EndPcs
  /\ from \in Holding <=> to \in Holding
  /\ to \in Naming => from \in Naming

LEMMA QuietMove ==
  ASSUME IInv, NEW w \in Workers, NEW from, NEW to, Goto(w, from, to), Alike(from, to),
         UNCHANGED <<queue, work>>
  PROVE  BufferInv'
<1> USE DEF IInv, BufferInv, Goto, Alike, queue, work, TypeOK, Holding, Naming
<1>0. \A v \in Workers : Alike(pc[v], pc'[v])
  OBVIOUS
<1>1. OwnerOK' /\ QueueOK'
  BY <1>0 DEF OwnerOK, QueueOK
<1>2. MapOK' 
  BY <1>0 DEF MapOK
<1>3. WorkOK'
  BY <1>0 DEF WorkOK
<1>4. BuffersAccounted'
  BY <1>0 DEF BuffersAccounted
<1> QED
  BY <1>1, <1>2, <1>3, <1>4 DEF BufferInv

\* The set a sequence holds, and injectivity, when its first element is taken.
LEMMA TakeFirst ==
  ASSUME NEW S, NEW s \in Seq(S), s # <<>>, IsInjective(s)
  PROVE  /\ Head(s) \in S /\ Tail(s) \in Seq(S) /\ IsInjective(Tail(s))
         /\ Head(s) \notin ToSet(Tail(s)) /\ ToSet(s) = {Head(s)} \cup ToSet(Tail(s))
<1>1. /\ Len(s) \in Nat \ {0} /\ DOMAIN s = 1 .. Len(s) /\ Head(s) = s[1] /\ Head(s) \in S
      /\ Tail(s) \in Seq(S) /\ DOMAIN Tail(s) = 1 .. Len(s) - 1
      /\ \A i \in 1 .. Len(s) - 1 : Tail(s)[i] = s[i + 1]
  OBVIOUS
<1>2. IsInjective(Tail(s))
  BY <1>1 DEF IsInjective
<1>3. Head(s) \notin ToSet(Tail(s))
  BY <1>1 DEF IsInjective, ToSet
<1>4. \A x \in ToSet(s) : x = Head(s) \/ x \in ToSet(Tail(s))
  <2> SUFFICES ASSUME NEW i \in 1 .. Len(s), i # 1 PROVE s[i] \in ToSet(Tail(s))
    BY <1>1 DEF ToSet
  <2>1. i - 1 \in 1 .. Len(s) - 1 /\ s[i] = Tail(s)[i - 1]
    BY <1>1
  <2> QED
    BY <1>1, <2>1 DEF ToSet
<1>5. \A i \in 1 .. Len(s) - 1 : Tail(s)[i] \in ToSet(s)
  BY <1>1 DEF ToSet
<1> QED
  BY <1>1, <1>2, <1>3, <1>4, <1>5 DEF ToSet

\* ... and when one is appended.
LEMMA AddLast ==
  ASSUME NEW S, NEW s \in Seq(S), IsInjective(s), NEW x \in S, x \notin ToSet(s)
  PROVE  IsInjective(Append(s, x)) /\ ToSet(Append(s, x)) = ToSet(s) \cup {x}
<1>1. /\ Len(s) \in Nat /\ DOMAIN s = 1 .. Len(s) /\ DOMAIN Append(s, x) = 1 .. Len(s) + 1
      /\ Append(s, x)[Len(s) + 1] = x /\ \A i \in 1 .. Len(s) : Append(s, x)[i] = s[i]
  OBVIOUS
<1>2. IsInjective(Append(s, x))
  BY <1>1 DEF IsInjective, ToSet
<1>3. ToSet(Append(s, x)) = ToSet(s) \cup {x}
  BY <1>1 DEF ToSet
<1> QED
  BY <1>2, <1>3

LEMMA EmptyDone == IsInjective(<<>>) /\ ToSet(<<>>) = {}
BY DEF IsInjective, ToSet

LEMMA SetupBuffers == ASSUME IInv, NEW w \in Workers, SetupStep(w) PROVE BufferInv'
<1> USE DEF Goto, Alike, queue, work, device, Holding, Naming
<1>1. CASE LockCamera(w)
  BY <1>1, QuietMove DEF LockCamera, Return
<1>2. CASE Check(w)
  BY <1>2, QuietMove DEF Check, Return
<1>3. CASE Bail(w)
  BY <1>3, QuietMove DEF Bail, Return
<1>4. CASE Open(w)
  BY <1>4, QuietMove DEF Open, Return
<1>5. CASE OpenFails(w)
  BY <1>5, QuietMove DEF OpenFails, Return
<1>6. CASE Request(w)
  <2> USE <1>6, NumbersAssumption, WorkersAssumption DEF Request, IInv, BufferInv, TypeOK,
          Return, CloseFd
  <2>1. OwnerOK'
    BY DEF OwnerOK
  <2>2. MapOK'
    <3>1. owner = NoWorker => queued = {} /\ ~streaming /\ 1 .. 0 = {} /\ 0 <= maps
      BY DEF QueueOK
    <3>2. \A v \in Workers : pc'[v] = "map" /\ owner' = v /\ v # w => pc[v] = "map" /\ owner = v
      OBVIOUS
    <3>3. owner' = w => owner = NoWorker
      BY DEF OwnerOK
    <3>4. UNCHANGED <<queued, streaming, maps>>
      OBVIOUS
    <3> SUFFICES ASSUME NEW v \in Workers, owner' = v, pc'[v] = "map"
                 PROVE  ~streaming /\ \E k \in 0 .. NumBuffers : queued = 1 .. k /\ k <= maps
      BY <3>4 DEF MapOK
    <3>5. CASE v = w
      <4>1. ~streaming /\ queued = 1 .. 0 /\ 0 <= maps /\ 0 \in 0 .. NumBuffers
        BY <3>1, <3>3, <3>5
      <4> QED
        BY ONLY <4>1
    <3>6. CASE v # w
      BY <3>2, <3>6 DEF MapOK
    <3> QED
      BY <3>5, <3>6
  <2>3. QueueOK'
    BY DEF QueueOK, OwnerOK
  <2>4. WorkOK'
    BY DEF WorkOK, OwnerOK, QueueOK
  <2>5. BuffersAccounted'
    BY DEF BuffersAccounted, OwnerOK, QueueOK
  <2> QED
    BY <2>1, <2>2, <2>3, <2>4, <2>5
<1>7. CASE RequestFails(w)
  BY <1>7, NumbersAssumption, WorkersAssumption
     DEF RequestFails, IInv, TypeOK, BufferInv, OwnerOK, MapOK, QueueOK, WorkOK, BuffersAccounted
<1>8. CASE MapBuffer(w)
  <2> USE <1>8, NumbersAssumption, WorkersAssumption DEF MapBuffer, IInv, BufferInv, TypeOK,
          Return, CloseFd
  <2>1. OwnerOK'
    BY DEF OwnerOK
  <2>2. MapOK'
    <3>1. PICK k \in 1 .. NumBuffers :
            k = Cardinality(Granted(w)) + 1 /\ queued = 1 .. k - 1 /\ k - 1 <= maps
      BY NextBuffer
    <3>2. queued' = 1 .. k /\ k <= maps' /\ k \in 0 .. NumBuffers
      BY <3>1
    <3> QED
      BY <3>1, <3>2 DEF MapOK
  <2>3. QueueOK'
    BY DEF QueueOK, OwnerOK
  <2>4. WorkOK'
    BY DEF WorkOK, OwnerOK, QueueOK
  <2>5. BuffersAccounted'
    BY DEF BuffersAccounted, OwnerOK, QueueOK
  <2> QED
    BY <2>1, <2>2, <2>3, <2>4, <2>5
<1>9. CASE StreamOn(w)
  <2> USE <1>9, NumbersAssumption, WorkersAssumption DEF StreamOn, IInv, BufferInv, TypeOK,
          Return, CloseFd
  <2>1. OwnerOK'
    BY DEF OwnerOK
  <2>2. MapOK'
    BY DEF MapOK, OwnerOK, QueueOK
  <2>3. QueueOK'
    <3>1. PICK k \in 0 .. NumBuffers : queued = 1 .. k /\ k <= maps
      BY DEF MapOK
    <3>2. NumBuffers \in 1 .. NumBuffers
      OBVIOUS
    <3>3. k = NumBuffers
      BY <3>1, <3>2 DEF Granted, Buffers
    <3> QED
      BY <3>1, <3>3 DEF QueueOK, OwnerOK
  <2>4. WorkOK'
    BY DEF WorkOK, OwnerOK, QueueOK
  <2>5. BuffersAccounted'
    <3>1. done = <<>> /\ queued = Buffers /\ owner = w
      BY DEF MapOK, QueueOK, Granted
    <3>2. frame[w] = 0 /\ 0 \notin Buffers
      BY DEF WorkOK, Buffers
    <3>3. \A v \in Workers : pc'[v] \in FramePcs => v = w
      BY <3>1 DEF OwnerOK
    <3> QED
      BY <3>1, <3>2, <3>3, EmptyDone DEF BuffersAccounted
  <2> QED
    BY <2>1, <2>2, <2>3, <2>4, <2>5
<1>10. CASE SetupFails(w)
  <2> USE <1>10, NumbersAssumption, WorkersAssumption DEF SetupFails, IInv, BufferInv, TypeOK,
          Return, CloseFd
  <2>1. OwnerOK'
    BY DEF OwnerOK
  <2>2. MapOK'
    BY DEF MapOK, OwnerOK, QueueOK
  <2>3. QueueOK'
    <3>1. maps <= maps'
      OBVIOUS
    <3>2. \A v \in Workers : pc'[v] \in FramePcs \cup {"unmap"} => v # w /\ pc[v] = pc'[v] /\ owner = v
      BY DEF OwnerOK
    <3>3. CASE owner = w
      BY <3>2, <3>3 DEF QueueOK
    <3>4. CASE owner # w
      <4>1. UNCHANGED <<owner, queued, done, streaming>>
        BY <3>4
      <4>2. \A v \in Workers : pc'[v] \in FramePcs \cup {"unmap"} => streaming /\ NumBuffers <= maps'
        BY <3>1, <3>2 DEF QueueOK
      <4> QED
        BY <4>1, <4>2 DEF QueueOK
    <3> QED
      BY <3>3, <3>4
  <2>4. WorkOK'
    BY DEF WorkOK, OwnerOK, QueueOK
  <2>5. BuffersAccounted'
    BY DEF BuffersAccounted, OwnerOK, QueueOK
  <2> QED
    BY <2>1, <2>2, <2>3, <2>4, <2>5
<1> QED
  BY <1>1, <1>2, <1>3, <1>4, <1>5, <1>6, <1>7, <1>8, <1>9, <1>10 DEF SetupStep

LEMMA FrameBuffers == ASSUME IInv, NEW w \in Workers, FrameStep(w) PROVE BufferInv'
<1> USE DEF Goto, Alike, queue, work, device, Holding, Naming
<1>1. CASE Test(w)
  BY <1>1, NumbersAssumption, WorkersAssumption
     DEF Test, IInv, TypeOK, BufferInv, OwnerOK, MapOK, QueueOK, WorkOK, BuffersAccounted
<1>2. CASE Dequeue(w)
  <2> USE <1>2, NumbersAssumption, WorkersAssumption DEF Dequeue, IInv, BufferInv, TypeOK,
          Return, CloseFd
  <2>1. OwnerOK'
    BY DEF OwnerOK
  <2>2. MapOK'
    BY DEF MapOK, OwnerOK, QueueOK
  <2>3. QueueOK'
    BY DEF QueueOK, OwnerOK
  <2>4. WorkOK'
    BY DEF WorkOK, OwnerOK, QueueOK
  <2>5. BuffersAccounted'
    <3>1. /\ IsInjective(done) /\ queued \cap ToSet(done) = {} /\ owner = w /\ streaming
          /\ queued \cup ToSet(done) = Buffers
      <4>1. 0 \notin Buffers /\ frame[w] = 0
        BY DEF BuffersAccounted, Buffers
      <4> QED
        BY <4>1 DEF BuffersAccounted
    <3>2. /\ Head(done) \in Buffers /\ IsInjective(Tail(done))
          /\ Head(done) \notin ToSet(Tail(done)) /\ ToSet(done) = {Head(done)} \cup ToSet(Tail(done))
      BY <3>1, TakeFirst
    <3>3. Head(done) # 0
      BY <3>2 DEF Buffers
    <3>4. \A v \in Workers : pc'[v] \in FramePcs => v = w
      BY <3>1 DEF OwnerOK
    <3> QED
      BY <3>1, <3>2, <3>3, <3>4 DEF BuffersAccounted
  <2> QED
    BY <2>1, <2>2, <2>3, <2>4, <2>5
<1>3. CASE PictureFile(w)
  BY <1>3, NumbersAssumption, WorkersAssumption
     DEF PictureFile, IInv, TypeOK, BufferInv, OwnerOK, MapOK, QueueOK, WorkOK, BuffersAccounted
<1>4. CASE WritePicture(w)
  BY <1>4, QuietMove DEF WritePicture, Return
<1>5. CASE Decode(w)
  BY <1>5, QuietMove DEF Decode, Return
<1>6. CASE DecodeDone(w)
  BY <1>6, QuietMove DEF DecodeDone, Return
<1>7. CASE Requeue(w)
  <2> USE <1>7, NumbersAssumption, WorkersAssumption DEF Requeue, IInv, BufferInv, TypeOK,
          Return, CloseFd
  <2>1. OwnerOK'
    BY DEF OwnerOK
  <2>2. MapOK'
    BY DEF MapOK, OwnerOK, QueueOK
  <2>3. QueueOK'
    BY DEF QueueOK, OwnerOK
  <2>4. WorkOK'
    BY DEF WorkOK, OwnerOK, QueueOK
  <2>5. BuffersAccounted'
    <3>1. /\ IsInjective(done) /\ queued \cap ToSet(done) = {} /\ owner = w /\ streaming
          /\ frame[w] \in Buffers /\ frame[w] \notin ToSet(done)
          /\ queued \cup ToSet(done) \cup {frame[w]} = Buffers
      BY DEF BuffersAccounted
    <3>2. 0 \notin queued \cup {frame[w]} \cup ToSet(done)
      BY <3>1 DEF Buffers
    <3>3. \A v \in Workers : pc'[v] \in FramePcs => v = w
      BY <3>1 DEF OwnerOK
    <3> QED
      BY <3>1, <3>2, <3>3 DEF BuffersAccounted
  <2> QED
    BY <2>1, <2>2, <2>3, <2>4, <2>5
<1>8. CASE Count(w)
  BY <1>8, NumbersAssumption, WorkersAssumption
     DEF Count, IInv, TypeOK, BufferInv, OwnerOK, MapOK, QueueOK, WorkOK, BuffersAccounted
<1>9. CASE Timer(w)
  BY <1>9, QuietMove DEF Timer, Return
<1>10. CASE SetSource(w)
  BY <1>10, QuietMove DEF SetSource, Return
<1>11. CASE Break(w)
  BY <1>11, NumbersAssumption, WorkersAssumption
     DEF Break, IInv, TypeOK, BufferInv, OwnerOK, MapOK, QueueOK, WorkOK, BuffersAccounted
<1> QED
  BY <1>1, <1>2, <1>3, <1>4, <1>5, <1>6, <1>7, <1>8, <1>9, <1>10, <1>11 DEF FrameStep

LEMMA EndBuffers == ASSUME IInv, NEW w \in Workers, EndStep(w) PROVE BufferInv'
<1> USE DEF Goto, Alike, queue, work, device, Holding, Naming
<1>1. CASE Unmap(w)
  BY <1>1, NumbersAssumption, WorkersAssumption
     DEF Unmap, IInv, TypeOK, BufferInv, OwnerOK, MapOK, QueueOK, WorkOK, BuffersAccounted
<1>2. CASE StreamOff(w)
  BY <1>2, NumbersAssumption, WorkersAssumption
     DEF StreamOff, IInv, TypeOK, BufferInv, OwnerOK, MapOK, QueueOK, WorkOK, BuffersAccounted
<1>3. CASE StreamOffFails(w)
  BY <1>3, NumbersAssumption, WorkersAssumption
     DEF StreamOffFails, IInv, TypeOK, BufferInv, OwnerOK, MapOK, QueueOK, WorkOK, BuffersAccounted, Return, CloseFd
<1>4. CASE CloseCamera(w)
  BY <1>4, NumbersAssumption, WorkersAssumption
     DEF CloseCamera, IInv, TypeOK, BufferInv, OwnerOK, MapOK, QueueOK, WorkOK, BuffersAccounted, Return, CloseFd
<1>5. CASE UnlockCamera(w)
  BY <1>5, QuietMove DEF UnlockCamera, Return
<1>6. CASE StartPresent(w)
  BY <1>6, QuietMove DEF StartPresent, Return
<1> QED
  BY <1>1, <1>2, <1>3, <1>4, <1>5, <1>6 DEF EndStep

LEMMA EdgeBuffers ==
  ASSUME IInv, NEW w \in Workers, BeginStep(w) \/ CloseStep(w) \/ Release(w)
  PROVE  BufferInv'
<1> USE DEF Alike, queue, device, work, Holding, Naming
<1>1. CASE BeginStep(w)
  <2>1. PICK from, to : Goto(w, from, to) /\ Alike(from, to)
    BY <1>1 DEF BeginStep, StartUsing, StartLoad, InitCheck, InitMutex, InitFlag
  <2>2. UNCHANGED <<queue, work>>
    BY <1>1 DEF BeginStep, StartUsing, StartLoad, InitCheck, InitMutex, InitFlag
  <2> QED
    BY <2>1, <2>2, QuietMove
<1>2. CASE CloseStep(w)
  BY <1>2, QuietMove DEF CloseStep, CloseUsing, CloseLoad, ClosePresent
<1>3. CASE Release(w)
  <2>1. pressed \in {"start", "close"}
    BY <1>3 DEF Release, IInv, TypeOK
  <2> QED
    BY <1>3, <2>1, QuietMove DEF Release
<1> QED
  BY <1>1, <1>2, <1>3

\* The driver fills a buffer: it leaves the queue and becomes the last one filled.
LEMMA FillBuffers == ASSUME IInv, Fill PROVE BufferInv'
<1> USE DEF IInv, BufferInv, TypeOK
<1>1. PICK b \in queued : queued' = queued \ {b} /\ done' = Append(done, b)
  BY DEF Fill
<1>2. streaming /\ UNCHANGED <<pc, owner, streaming, maps, frame, cnt>>
  BY DEF Fill, work
<1>3. OwnerOK' /\ MapOK' /\ QueueOK' /\ WorkOK'
  BY <1>2 DEF OwnerOK, MapOK, QueueOK, WorkOK
<1>4. ASSUME NEW w \in Workers, pc[w] \in FramePcs
      PROVE  /\ IsInjective(done') /\ ToSet(done') = ToSet(done) \cup {b}
             /\ b \notin ToSet(done) /\ frame[w] # b
  <2>1. IsInjective(done) /\ b \notin ToSet(done) /\ frame[w] # b
    BY <1>4 DEF BuffersAccounted
  <2> QED
    BY <1>1, <2>1, AddLast
<1>5. BuffersAccounted'
  BY <1>1, <1>2, <1>4 DEF BuffersAccounted
<1> QED
  BY <1>3, <1>5

LEMMA StepIInv == IInv /\ [Next]_vars => IInv'
<1> SUFFICES ASSUME IInv, [Next]_vars PROVE IInv'
  OBVIOUS
<1>1. ASSUME NEW w \in Workers, HandlerStep(w) PROVE IInv'
  <2>1. TypeOK'
    BY <1>1, BeginTypes, SetupTypes, FrameTypes, EndTypes, CloseTypes DEF HandlerStep
  <2>2. BufferInv'
    BY <1>1, EdgeBuffers, SetupBuffers, FrameBuffers, EndBuffers DEF HandlerStep
  <2> QED
    BY <2>1, <2>2 DEF IInv
<1>2. ASSUME NEW w \in Workers, Release(w) PROVE IInv'
  BY <1>2, RestTypes, EdgeBuffers DEF IInv
<1>3. CASE Fill
  BY <1>3, RestTypes, FillBuffers DEF IInv
<1>4. CASE Press \/ UNCHANGED vars
  <2>1. UNCHANGED <<pc, queue, work>>
    BY <1>4 DEF Press, vars, device, queue
  <2>2. BufferInv'
    BY <2>1 DEF IInv, BufferInv, OwnerOK, MapOK, QueueOK, WorkOK, BuffersAccounted, queue, work
  <2> QED
    BY <1>4, <2>2, RestTypes DEF IInv
<1> QED
  BY <1>1, <1>2, <1>3, <1>4 DEF Next

LEMMA Invariant == Spec => []IInv
BY InitIInv, StepIInv, PTL DEF Spec

\* Types hold, and the file number stays in its range although sessions share it.
THEOREM TypeCorrect == Spec => []TypeOK
BY Invariant, PTL DEF IInv

\* While frames are taken every buffer is in exactly one place: queued, filled or
\* held by the session, for any number of buffers and of racing handlers.
THEOREM BuffersSafe == Spec => []BuffersAccounted
<1>1. IInv => BuffersAccounted
  BY DEF IInv, BufferInv
<1> QED
  BY <1>1, Invariant, PTL

-----------------------------------------------------------------------------
(* Mappings                                                                 *)

\* The mappings in use: all of a session that takes frames, those made so far of
\* one that sets up.  The rest are the leavings of error returns.
Mapped == \E w \in Workers : pc[w] \in FramePcs \cup {"unmap"}
InUse == IF Mapped THEN NumBuffers
         ELSE IF owner # NoWorker /\ pc[owner] = "map" THEN Cardinality(queued) ELSE 0
MappingsInv == maps <= NumBuffers * kept + InUse

LEMMA QueueCounts ==
  ASSUME IInv, owner # NoWorker, pc[owner] = "map"
  PROVE  /\ ~Mapped
         /\ \E k \in 0 .. NumBuffers : queued = 1 .. k /\ Cardinality(queued) = k
<1>1. ~Mapped
  BY DEF Mapped, IInv, BufferInv, OwnerOK
<1>2. PICK k \in 0 .. NumBuffers : queued = 1 .. k
  BY DEF IInv, TypeOK, BufferInv, MapOK
<1>3. Cardinality(1 .. k) = k
  BY FS_Interval, NumbersAssumption
<1> QED
  BY <1>1, <1>2, <1>3

LEMMA InUseType == IInv => InUse \in 0 .. NumBuffers
BY QueueCounts, NumbersAssumption DEF InUse

LEMMA KeptOnce == \A k \in Nat : NumBuffers * (k + 1) = NumBuffers * k + NumBuffers
                               /\ NumBuffers * k \in Nat
BY NumbersAssumption

LEMMA InUseNext == (IInv => InUse \in 0 .. NumBuffers)'
BY InUseType, PTL

LEMMA Sums ==
  ASSUME NEW m \in Nat, NEW n \in Nat, NEW i \in Nat, NEW j \in Nat, NEW p \in Nat, NEW q \in Nat,
         m <= p + i, n + i <= m + q + j
  PROVE  n <= (p + q) + j
OBVIOUS

LEMMA AddNat == \A m, j \in Nat : m <= m + j
OBVIOUS

LEMMA SumsSame ==
  ASSUME NEW m \in Nat, NEW n \in Nat, NEW i \in Nat, NEW j \in Nat, NEW p \in Nat,
         m <= p + i, n + i <= m + j
  PROVE  n <= p + j
OBVIOUS

\* An error return leaves at most the buffer at hand beside the i mapped before.
LEMMA SumsReturn ==
  ASSUME NEW m \in Nat, NEW n \in {m, m + 1}, NEW q \in Nat \ {0}, NEW i \in 0 .. q, NEW j \in Nat,
         i = q => n = m \/ j = i
  PROVE  n + i <= m + q + j
OBVIOUS

\* The account balances if what is added to maps is added to what is in use or
\* left behind by an error return, which may leave NumBuffers.
LEMMA Balance ==
  ASSUME IInv, IInv', MappingsInv,
         \/ kept' = kept /\ maps' + InUse <= maps + InUse'
         \/ kept' = kept + 1 /\ maps' + InUse <= maps + NumBuffers + InUse'
  PROVE  MappingsInv'
<1>1. /\ kept \in Nat /\ maps \in Nat /\ maps' \in Nat /\ NumBuffers \in Nat
      /\ InUse \in Nat /\ InUse' \in Nat
  BY InUseType, InUseNext, NumbersAssumption DEF IInv, TypeOK
<1> DEFINE left == NumBuffers * kept
<1>2. left \in Nat /\ NumBuffers * (kept + 1) = left + NumBuffers
  BY <1>1, KeptOnce
<1>3. maps <= left + InUse
  BY DEF MappingsInv
<1> HIDE DEF left
<1>4. CASE kept' = kept /\ maps' + InUse <= maps + InUse'
  <2>1. maps' <= left + InUse'
    <3>1. left \in Nat /\ maps' + InUse <= maps + InUse' /\ maps <= left + InUse
      BY <1>2, <1>3, <1>4
    <3> QED
      BY <1>1, <3>1, SumsSame, Zenon
  <2> QED
    BY <1>4, <2>1 DEF MappingsInv, left
<1>5. CASE kept' = kept + 1 /\ maps' + InUse <= maps + NumBuffers + InUse'
  <2>1. maps' <= (left + NumBuffers) + InUse'
    BY <1>1, <1>2, <1>3, <1>5, Sums, Zenon
  <2> QED
    BY <1>2, <1>5, <2>1 DEF MappingsInv
<1> QED
  BY <1>4, <1>5

\* A step that changes neither the mappings nor what is in use.
LEMMA SameUse ==
  ASSUME IInv, MappingsInv, NEW w \in Workers, NEW from, NEW to, Goto(w, from, to),
         from \in FramePcs \cup {"unmap"} <=> to \in FramePcs \cup {"unmap"},
         from = "map" <=> to = "map", UNCHANGED <<owner, queued, maps, kept>>
  PROVE  MappingsInv'
<1>1. Mapped' = Mapped /\ (owner # NoWorker => (pc'[owner] = "map" <=> pc[owner] = "map"))
  BY DEF Mapped, Goto, IInv, TypeOK
<1> QED
  BY <1>1 DEF MappingsInv, InUse

\* An error return: what the session has mapped, and the buffer at hand, is left.
LEMMA ReturnKeepsMaps ==
  ASSUME IInv, IInv', MappingsInv, NEW w \in Workers, SetupFails(w) PROVE MappingsInv'
<1> USE DEF IInv, TypeOK
<1>1. kept' = kept + 1 /\ pc[w] = "map" /\ maps' \in {maps, maps + 1}
  BY DEF SetupFails, Return, Goto
<1>2. NumBuffers \in Nat \ {0} /\ maps \in Nat
  BY NumbersAssumption
<1>3. InUse \in 0 .. NumBuffers /\ InUse' \in 0 .. NumBuffers
  BY InUseType, InUseNext
<1>4. CASE owner = w
  <2>1. PICK k \in 0 .. NumBuffers : queued = 1 .. k /\ Cardinality(queued) = k /\ InUse = k
    BY <1>1, <1>4, QueueCounts, WorkersAssumption DEF InUse
  <2>2. k = NumBuffers => maps' = maps
    BY <1>1, <1>4, <2>1 DEF SetupFails, Granted, Buffers
  <2>3. InUse' \in Nat /\ InUse \in 0 .. NumBuffers /\ (InUse = NumBuffers => maps' = maps)
    BY <1>2, <1>3, <2>1, <2>2
  <2> QED
    <3>1. maps' + InUse <= maps + NumBuffers + InUse'
      BY <1>1, <1>2, <2>3, SumsReturn, Zenon
    <3> QED
      BY <1>1, <3>1, Balance
<1>5. CASE owner # w
  <2>1. Mapped' = Mapped /\ UNCHANGED <<owner, queued>>
    BY <1>5 DEF SetupFails, Return, Goto, CloseFd, Mapped
  <2>2. owner # NoWorker => pc'[owner] = pc[owner]
    BY <1>5 DEF SetupFails, Return, Goto
  <2>3. InUse' = InUse
    BY <2>1, <2>2 DEF InUse
  <2>4. InUse' \in Nat /\ InUse \in 0 .. NumBuffers /\ InUse' = InUse
    BY <1>2, <1>3, <2>3
  <2> QED
    <3>1. maps' + InUse <= maps + NumBuffers + InUse'
      BY <1>1, <1>2, <2>4, SumsReturn, Zenon
    <3> QED
      BY <1>1, <3>1, Balance
<1> QED
  BY <1>4, <1>5

LEMMA StepMaps == IInv /\ IInv' /\ MappingsInv /\ [Next]_vars => MappingsInv'
<1> SUFFICES ASSUME IInv, IInv', MappingsInv, [Next]_vars PROVE MappingsInv'
  OBVIOUS
<1> USE DEF mutex, device
<1>1. ASSUME NEW w \in Workers, BeginStep(w) \/ CloseStep(w) PROVE MappingsInv'
  BY <1>1, SameUse DEF BeginStep, CloseStep, StartUsing, StartLoad, InitCheck, InitMutex, InitFlag,
                       CloseUsing, CloseLoad, ClosePresent
<1>2. ASSUME NEW w \in Workers, SetupStep(w) PROVE MappingsInv'
  <2>1. CASE LockCamera(w) \/ Check(w) \/ Bail(w) \/ Open(w)
    BY <2>1, SameUse DEF LockCamera, Check, Bail, Open
  <2>2. CASE OpenFails(w)
    <3>1. InUse' = InUse /\ maps' = maps /\ kept' = kept + 1
      BY <2>2 DEF OpenFails, Return, Goto, InUse, Mapped, IInv, TypeOK
    <3> QED
      BY <3>1, Balance, InUseType, NumbersAssumption DEF IInv, TypeOK
  <2>3. CASE Request(w) \/ RequestFails(w)
    <3>1. UNCHANGED <<queued, maps, kept>> /\ Mapped' = Mapped /\ pc[w] = "request"
      BY <2>3 DEF Request, RequestFails, Goto, Mapped, IInv, TypeOK
    <3>2. owner # NoWorker => owner # w /\ owner' = owner /\ pc'[owner] = pc[owner]
      BY <2>3, <3>1 DEF Request, RequestFails, Goto, IInv, BufferInv, OwnerOK, TypeOK
    <3>3. owner = NoWorker => Cardinality(queued) = 0
      BY FS_EmptySet DEF IInv, BufferInv, QueueOK
    <3>4. InUse' = InUse
      <4>1. CASE Mapped
        BY <3>1, <4>1 DEF InUse
      <4>2. CASE ~Mapped /\ owner = NoWorker
        BY <3>1, <3>3, <4>2 DEF InUse
      <4>3. CASE ~Mapped /\ owner # NoWorker
        BY <3>1, <3>2, <4>3 DEF InUse
      <4> QED
        BY <4>1, <4>2, <4>3
    <3> QED
      BY <3>1, <3>4 DEF MappingsInv
  <2>4. CASE MapBuffer(w)
    <3>1. PICK k \in 1 .. NumBuffers :
            k = Cardinality(Granted(w)) + 1 /\ queued = 1 .. k - 1 /\ k - 1 <= maps
      BY <2>4, NextBuffer DEF MapBuffer, Goto, IInv, BufferInv
    <3>2. queued' = 1 .. k /\ maps' = maps + 1 /\ kept' = kept
      BY <2>4, <3>1, NumbersAssumption DEF MapBuffer
    <3>3. ~Mapped /\ ~Mapped' /\ owner' = w /\ pc'[w] = "map" /\ owner = w /\ pc[w] = "map"
      BY <2>4, QueueCounts, WorkersAssumption DEF MapBuffer, Goto, Mapped, IInv, TypeOK
    <3>4. Cardinality(1 .. k) = k /\ Cardinality(1 .. k - 1) = k - 1
      BY FS_Interval, NumbersAssumption
    <3>5. InUse = k - 1 /\ InUse' = k
      BY <3>1, <3>2, <3>3, <3>4, WorkersAssumption DEF InUse
    <3> QED
      BY <3>2, <3>5, Balance DEF IInv, TypeOK
  <2>5. CASE StreamOn(w)
    <3>1. queued = Buffers /\ owner = w /\ pc[w] = "map" /\ UNCHANGED <<maps, kept>> /\ Mapped'
      BY <2>5 DEF StreamOn, Granted, Goto, Mapped, IInv, TypeOK
    <3>2. InUse = NumBuffers
      BY <3>1, QueueCounts, FS_Interval, NumbersAssumption, WorkersAssumption DEF InUse, Buffers
    <3> QED
      BY <3>1, <3>2 DEF MappingsInv, InUse
  <2> QED
    BY <1>2, <2>1, <2>2, <2>3, <2>4, <2>5, ReturnKeepsMaps DEF SetupStep
<1>3. ASSUME NEW w \in Workers, FrameStep(w) PROVE MappingsInv'
  <2>1. pc[w] \in FramePcs /\ pc'[w] \in FramePcs \cup {"unmap"} /\ UNCHANGED <<maps, kept>>
    BY <1>3 DEF FrameStep, Test, Dequeue, PictureFile, WritePicture, Decode, DecodeDone, Requeue,
                Count, Timer, SetSource, Break, Goto, IInv, TypeOK
  <2>2. Mapped /\ Mapped'
    BY <2>1 DEF Mapped
  <2> QED
    BY <2>1, <2>2 DEF MappingsInv, InUse
<1>4. ASSUME NEW w \in Workers, EndStep(w) PROVE MappingsInv'
  <2>1. CASE Unmap(w)
    <3>1. Mapped /\ maps' = maps - NumBuffers /\ kept' = kept
      BY <2>1 DEF Unmap, Mapped, Goto
    <3> QED
      <4>1. InUse = NumBuffers /\ InUse' \in 0 .. NumBuffers
        BY <3>1, InUseNext DEF InUse
      <4> QED
        <5>1. maps' + InUse = maps
          BY <3>1, <4>1, NumbersAssumption DEF IInv, TypeOK
        <5>2. maps <= maps + InUse'
          <6>1. InUse' \in Nat /\ maps \in Nat
            BY <4>1, NumbersAssumption DEF IInv, TypeOK
          <6> QED
            BY <6>1, AddNat, Zenon
        <5> QED
          BY <3>1, <5>1, <5>2, Balance
  <2>2. CASE StreamOff(w) \/ StreamOffFails(w) \/ CloseCamera(w)
    <3>1. ~Mapped /\ ~Mapped' /\ owner = w /\ pc[w] # "map"
      BY <2>2 DEF StreamOff, StreamOffFails, CloseCamera, Return, Goto, Mapped, IInv, BufferInv,
                  OwnerOK, TypeOK
    <3>2. InUse = 0 /\ maps' = maps /\ kept' \in {kept, kept + 1}
      BY <2>2, <3>1 DEF InUse, StreamOff, StreamOffFails, CloseCamera, Return
    <3> QED
      BY <3>2, InUseNext, Balance, NumbersAssumption DEF IInv, TypeOK
  <2>3. CASE UnlockCamera(w) \/ StartPresent(w)
    BY <2>3, SameUse DEF UnlockCamera, StartPresent
  <2> QED
    BY <1>4, <2>1, <2>2, <2>3 DEF EndStep
<1>5. ASSUME NEW w \in Workers, Release(w) PROVE MappingsInv'
  <2>1. pressed \in {"start", "close"}
    BY <1>5 DEF Release, IInv, TypeOK
  <2> QED
    BY <1>5, <2>1, SameUse DEF Release
<1>6. CASE Fill
  <2>1. streaming /\ UNCHANGED <<pc, owner, maps, kept>>
    BY <1>6 DEF Fill
  <2>2. owner = NoWorker \/ pc[owner] # "map"
    BY <2>1 DEF IInv, TypeOK, BufferInv, QueueOK, MapOK
  <2> QED
    BY <2>1, <2>2 DEF MappingsInv, InUse, Mapped
<1>7. CASE Press \/ UNCHANGED vars
  BY <1>7 DEF Press, vars, MappingsInv, InUse, Mapped
<1> QED
  BY <1>1, <1>2, <1>3, <1>4, <1>5, <1>6, <1>7 DEF Next, HandlerStep

\* A session that ends well leaves no mapping: those there are belong to the live
\* sessions and to the error returns, at most NumBuffers each.
THEOREM MappingsSafe == Spec => []MappingsAccounted
<1>1. Init => MappingsInv
  BY NumbersAssumption, FS_EmptySet DEF Init, MappingsInv, InUse, Mapped
<1>2. IInv /\ MappingsInv => MappingsAccounted
  <2> SUFFICES ASSUME IInv, MappingsInv PROVE MappingsAccounted
    OBVIOUS
  <2> DEFINE L == {w \in Workers : pc[w] \in LivePcs}
  <2>1. IsFiniteSet(L) /\ Cardinality(L) \in Nat
    BY WorkersAssumption, FS_Subset, FS_CardinalityType
  <2>2. InUse # 0 => L # {}
    BY DEF InUse, Mapped, LivePcs, IInv, TypeOK
  <2>3. L # {} => Cardinality(L) \in Nat \ {0}
    BY <2>1, FS_EmptySet
  <2>4. \A i, j \in Nat : NumBuffers * (i + j) = NumBuffers * i + NumBuffers * j
    BY NumbersAssumption
  <2>5. Cardinality(L) # 0 => NumBuffers <= NumBuffers * Cardinality(L)
    BY <2>1, NumbersAssumption
  <2>6. InUse <= NumBuffers * Cardinality(L)
    BY <2>1, <2>2, <2>3, <2>5, InUseType, NumbersAssumption
  <2>7. NumBuffers * (Cardinality(L) + kept) = NumBuffers * Cardinality(L) + NumBuffers * kept
    BY <2>1, <2>4 DEF IInv, TypeOK
  <2> QED
    BY <2>1, <2>6, <2>7, InUseType, KeptOnce, NumbersAssumption
       DEF MappingsAccounted, MappingsInv, IInv, TypeOK
<1>3. IInv /\ MappingsInv /\ IInv' /\ [Next]_vars => MappingsInv'
  BY StepMaps
<1> QED
  BY <1>1, <1>2, <1>3, Invariant, PTL DEF Spec

===============================================================================
