------------------------- MODULE CameraSessionProofs -------------------------
(* The camera's mutex, its descriptors and the session it implements, for    *)
(* every value of the constants.                                             *)
EXTENDS CameraProofs

USE DEF SetupPcs, FramePcs, EndPcs

-----------------------------------------------------------------------------
(* The mutex                                                                *)

LEMMA InsideFinite == IsFiniteSet(Inside) /\ Cardinality(Inside) \in Nat
BY WorkersAssumption, FS_Subset, FS_CardinalityType DEF Inside

\* A handler that goes to "to" enters, leaves or keeps out of the section.
LEMMA Moves ==
  ASSUME TypeOK, NEW w \in Workers, NEW from, NEW to, Goto(w, from, to)
  PROVE  Inside' = IF to \in Section THEN Inside \cup {w} ELSE Inside \ {w}
BY DEF Inside, TypeOK, Goto

LEMMA StayAccounted ==
  ASSUME TypeOK, MutexAccounted, NEW w \in Workers, NEW from, NEW to, Goto(w, from, to),
         from \in Section <=> to \in Section, UNCHANGED <<word, tears, kept>>
  PROVE  MutexAccounted'
<1>1. Inside' = Inside
  BY DEF Inside, TypeOK, Goto
<1> QED
  BY <1>1 DEF MutexAccounted

LEMMA LockAccounted ==
  ASSUME TypeOK, MutexAccounted, NEW w \in Workers, LockCamera(w) PROVE MutexAccounted'
<1>1. Inside' = Inside \cup {w} /\ w \notin Inside
  BY Moves DEF LockCamera, Goto, Inside, Section, LivePcs
<1>2. Cardinality(Inside') = Cardinality(Inside) + 1
  BY <1>1, InsideFinite, FS_AddElement
<1>3. word = 0 /\ word' = 1 /\ UNCHANGED <<tears, kept>>
  BY DEF LockCamera
<1> QED
  BY <1>2, <1>3, InsideFinite DEF MutexAccounted, TypeOK

\* Leaving the section: with the mutex given back, or kept for good.
LEMMA LeaveAccounted ==
  ASSUME TypeOK, MutexAccounted, NEW w \in Workers, NEW from \in Section,
         Goto(w, from, "start_present"), UNCHANGED tears,
         \/ word' = 0 /\ UNCHANGED kept
         \/ kept' = kept + 1 /\ UNCHANGED word
  PROVE  MutexAccounted'
<1>1. Inside' = Inside \ {w} /\ w \in Inside
  <2>1. "start_present" \notin Section
    BY DEF Section, LivePcs
  <2>2. w \in Inside
    BY DEF Goto, Inside
  <2> QED
    BY <2>1, <2>2, Moves
<1>2. Cardinality(Inside') = Cardinality(Inside) - 1
  BY <1>1, InsideFinite, FS_RemoveElement
<1>3. Cardinality(Inside') \in Nat
  BY <1>1, InsideFinite, FS_RemoveElement, FS_CardinalityType
<1> QED
  BY <1>2, <1>3, InsideFinite DEF MutexAccounted, TypeOK

LEMMA InitAccounted ==
  ASSUME TypeOK, MutexAccounted, NEW w \in Workers, InitMutex(w) PROVE MutexAccounted'
<1>1. Inside' = Inside
  BY DEF InitMutex, Inside, TypeOK, Goto, Section, LivePcs
<1>2. word' = 0 /\ tears' = tears + word /\ UNCHANGED kept
  BY DEF InitMutex
<1> QED
  BY <1>1, <1>2, InsideFinite DEF MutexAccounted, TypeOK

LEMMA StepAccounted == TypeOK /\ MutexAccounted /\ [Next]_vars => MutexAccounted'
<1> SUFFICES ASSUME TypeOK, MutexAccounted, [Next]_vars PROVE MutexAccounted'
  OBVIOUS
<1> USE DEF Section, LivePcs, mutex
<1>1. ASSUME NEW w \in Workers, BeginStep(w) PROVE MutexAccounted'
  BY <1>1, StayAccounted, InitAccounted
     DEF BeginStep, StartUsing, StartLoad, InitCheck, InitFlag
<1>2. ASSUME NEW w \in Workers, SetupStep(w) PROVE MutexAccounted'
  <2>1. CASE LockCamera(w)
    BY <2>1, LockAccounted
  <2>2. CASE Bail(w) \/ OpenFails(w) \/ SetupFails(w)
    BY <2>2, LeaveAccounted DEF Bail, OpenFails, SetupFails, Return
  <2>3. CASE Check(w)
    BY <2>3, StayAccounted DEF Check
  <2>4. CASE Open(w) \/ Request(w) \/ RequestFails(w) \/ MapBuffer(w) \/ StreamOn(w)
    BY <2>4, StayAccounted DEF Open, Request, RequestFails, MapBuffer, StreamOn
  <2> QED
    BY <1>2, <2>1, <2>2, <2>3, <2>4 DEF SetupStep
<1>3. ASSUME NEW w \in Workers, FrameStep(w) PROVE MutexAccounted'
  <2>1. CASE Test(w) \/ Dequeue(w) \/ PictureFile(w) \/ WritePicture(w) \/ Decode(w)
    BY <2>1, StayAccounted DEF Test, Dequeue, PictureFile, WritePicture, Decode
  <2>2. CASE DecodeDone(w) \/ Requeue(w) \/ Count(w) \/ Timer(w) \/ SetSource(w) \/ Break(w)
    BY <2>2, StayAccounted DEF DecodeDone, Requeue, Count, Timer, SetSource, Break
  <2> QED
    BY <1>3, <2>1, <2>2 DEF FrameStep
<1>4. ASSUME NEW w \in Workers, EndStep(w) PROVE MutexAccounted'
  <2>1. CASE Unmap(w) \/ StreamOff(w) \/ CloseCamera(w) \/ StartPresent(w)
    BY <2>1, StayAccounted DEF Unmap, StreamOff, CloseCamera, StartPresent
  <2>2. CASE StreamOffFails(w) \/ UnlockCamera(w)
    BY <2>2, LeaveAccounted DEF StreamOffFails, UnlockCamera, Return
  <2> QED
    BY <1>4, <2>1, <2>2 DEF EndStep
<1>5. ASSUME NEW w \in Workers, CloseStep(w) PROVE MutexAccounted'
  BY <1>5, StayAccounted DEF CloseStep, CloseUsing, CloseLoad, ClosePresent
<1>6. ASSUME NEW w \in Workers, Release(w) PROVE MutexAccounted'
  <2>1. pressed \in {"start", "close"}
    BY <1>6 DEF Release, TypeOK
  <2> QED
    BY <1>6, <2>1, StayAccounted DEF Release
<1>7. CASE Fill \/ Press \/ UNCHANGED vars
  <2>1. UNCHANGED <<pc, word, tears, kept>>
    BY <1>7 DEF Fill, Press, vars
  <2> QED
    BY <2>1 DEF MutexAccounted, Inside
<1> QED
  BY <1>1, <1>2, <1>3, <1>4, <1>5, <1>6, <1>7 DEF Next, HandlerStep

\* Unless init_camera cleared it held, camera_mutex is held by the one session there
\* is or by the one error return that kept it, for any number of handlers and faults.
THEOREM MutexSafe == Spec => []MutexAccounted
<1>1. Init => MutexAccounted
  <2> SUFFICES ASSUME Init PROVE MutexAccounted
    OBVIOUS
  <2>1. Inside = {} /\ kept = 0 /\ word = 0
    BY DEF Init, Inside, Section, LivePcs
  <2> QED
    BY <2>1, FS_EmptySet DEF MutexAccounted
<1>2. TypeOK /\ MutexAccounted /\ [Next]_vars => MutexAccounted'
  BY StepAccounted
<1> QED
  BY <1>1, <1>2, TypeCorrect, PTL DEF Spec

-----------------------------------------------------------------------------
(* Who holds the mutex can go on                                            *)

HeldInside == word = 1 /\ kept = 0 => Inside # {}

LEMMA StayHeld ==
  ASSUME TypeOK, HeldInside, NEW w \in Workers, NEW from, NEW to, Goto(w, from, to),
         from \in Section => to \in Section, UNCHANGED <<word, kept>>
  PROVE  HeldInside'
<1>1. Inside \subseteq Inside'
  BY DEF Inside, TypeOK, Goto
<1> QED
  BY <1>1 DEF HeldInside

\* A step that clears the word, or keeps it for good.
LEMMA LetGo == TypeOK /\ (word' = 0 \/ kept' = kept + 1) => HeldInside'
BY DEF TypeOK, HeldInside

LEMMA InitHeld == Init => HeldInside
BY DEF Init, HeldInside

LEMMA StepHeld == TypeOK /\ HeldInside /\ [Next]_vars => HeldInside'
<1> SUFFICES ASSUME TypeOK, HeldInside, [Next]_vars PROVE HeldInside'
  OBVIOUS
<1> USE DEF Section, LivePcs, mutex
<1>1. ASSUME NEW w \in Workers, BeginStep(w) PROVE HeldInside'
  BY <1>1, StayHeld, LetGo DEF BeginStep, StartUsing, StartLoad, InitCheck, InitMutex, InitFlag
<1>2. ASSUME NEW w \in Workers, SetupStep(w) PROVE HeldInside'
  <2>1. CASE LockCamera(w)
    <3>1. w \in Inside'
      BY <2>1, Moves DEF LockCamera
    <3> QED
      BY <3>1 DEF HeldInside
  <2>2. CASE Bail(w) \/ OpenFails(w) \/ SetupFails(w)
    BY <2>2, LetGo DEF Bail, OpenFails, SetupFails, Return
  <2>3. CASE Check(w)
    BY <2>3, StayHeld DEF Check
  <2>4. CASE Open(w) \/ Request(w) \/ RequestFails(w) \/ MapBuffer(w) \/ StreamOn(w)
    BY <2>4, StayHeld DEF Open, Request, RequestFails, MapBuffer, StreamOn
  <2> QED
    BY <1>2, <2>1, <2>2, <2>3, <2>4 DEF SetupStep
<1>3. ASSUME NEW w \in Workers, FrameStep(w) PROVE HeldInside'
  <2>1. CASE Test(w) \/ Dequeue(w) \/ PictureFile(w) \/ WritePicture(w) \/ Decode(w)
    BY <2>1, StayHeld DEF Test, Dequeue, PictureFile, WritePicture, Decode
  <2>2. CASE DecodeDone(w) \/ Requeue(w) \/ Count(w) \/ Timer(w) \/ SetSource(w) \/ Break(w)
    BY <2>2, StayHeld DEF DecodeDone, Requeue, Count, Timer, SetSource, Break
  <2> QED
    BY <1>3, <2>1, <2>2 DEF FrameStep
<1>4. ASSUME NEW w \in Workers, EndStep(w) PROVE HeldInside'
  <2>1. CASE Unmap(w) \/ StreamOff(w) \/ CloseCamera(w) \/ StartPresent(w)
    BY <2>1, StayHeld DEF Unmap, StreamOff, CloseCamera, StartPresent
  <2>2. CASE StreamOffFails(w) \/ UnlockCamera(w)
    BY <2>2, LetGo DEF StreamOffFails, UnlockCamera, Return
  <2> QED
    BY <1>4, <2>1, <2>2 DEF EndStep
<1>5. ASSUME NEW w \in Workers, CloseStep(w) PROVE HeldInside'
  BY <1>5, StayHeld DEF CloseStep, CloseUsing, CloseLoad, ClosePresent
<1>6. ASSUME NEW w \in Workers, Release(w) PROVE HeldInside'
  BY <1>6, StayHeld DEF Release
<1>7. CASE Fill \/ Press \/ UNCHANGED vars
  BY <1>7 DEF Fill, Press, vars, HeldInside, Inside
<1> QED
  BY <1>1, <1>2, <1>3, <1>4, <1>5, <1>6, <1>7 DEF Next, HandlerStep

\* While frames are taken no buffer is lost, so there is always one to wait for.
LEMMA PollIsFed ==
  ASSUME IInv, NEW w \in Workers, pc[w] = "dequeue", done = <<>>
  PROVE  streaming /\ queued # {}
<1>1. /\ streaming
      /\ queued \cup ToSet(done) \cup {frame[w]} = Buffers \cup {frame[w]}
      /\ frame[w] = 0
  BY DEF IInv, BufferInv, BuffersAccounted
<1>2. ToSet(done) = {}
  BY EmptyDone
<1>3. 1 \in Buffers
  BY NumbersAssumption DEF Buffers
<1> QED
  BY <1>1, <1>2, <1>3

\* Unless an error return kept the mutex, a held one has a session that waits for
\* nothing but a frame, and then for one that comes; torn mutex or not.
THEOREM GoesOnSafe == Spec => []SessionGoesOn
<1>1. IInv /\ HeldInside => SessionGoesOn
  BY PollIsFed DEF HeldInside, SessionGoesOn, Inside
<1>2. IInv => TypeOK
  BY DEF IInv
<1> QED
  BY <1>1, <1>2, Invariant, InitHeld, StepHeld, PTL DEF Spec

-----------------------------------------------------------------------------
(* Descriptors                                                              *)

OpenPcs == {"request", "map"} \cup FramePcs \cup EndPcs

LEMMA StepDescriptors == TypeOK /\ DescriptorsClosed /\ [Next]_vars => DescriptorsClosed'
<1> SUFFICES ASSUME TypeOK, DescriptorsClosed, [Next]_vars PROVE DescriptorsClosed'
  OBVIOUS
<1>1. ASSUME NEW w \in Workers, NEW from, NEW to, Goto(w, from, to),
             from \in OpenPcs <=> to \in OpenPcs, fds' = fds, owner' \in {owner} \cup fds
      PROVE  DescriptorsClosed'
  BY <1>1 DEF DescriptorsClosed, TypeOK, Goto, OpenPcs
<1>2. ASSUME NEW w \in Workers, NEW from \in OpenPcs, NEW to, to \notin OpenPcs, Goto(w, from, to),
             CloseFd(w)
      PROVE  DescriptorsClosed'
  BY <1>2 DEF DescriptorsClosed, TypeOK, Goto, OpenPcs, CloseFd
<1>3. ASSUME NEW w \in Workers, Open(w) PROVE DescriptorsClosed'
  BY <1>3 DEF DescriptorsClosed, TypeOK, Open, Goto
<1> USE DEF device, OpenPcs
<1>4. ASSUME NEW w \in Workers, BeginStep(w) \/ CloseStep(w) PROVE DescriptorsClosed'
  BY <1>1, <1>4 DEF BeginStep, CloseStep, StartUsing, StartLoad, InitCheck, InitMutex, InitFlag,
                    CloseUsing, CloseLoad, ClosePresent
<1>5. ASSUME NEW w \in Workers, SetupStep(w) PROVE DescriptorsClosed'
  <2>1. CASE LockCamera(w) \/ Check(w) \/ Bail(w) \/ OpenFails(w)
    BY <1>1, <2>1 DEF LockCamera, Check, Bail, OpenFails, Return
  <2>2. CASE Request(w)
    <3>1. w \in fds
      BY <2>2 DEF Request, Goto, DescriptorsClosed
    <3> QED
      BY <1>1, <2>2, <3>1 DEF Request
  <2>3. CASE RequestFails(w) \/ MapBuffer(w) \/ StreamOn(w)
    BY <1>1, <2>3 DEF RequestFails, MapBuffer, StreamOn
  <2>4. CASE SetupFails(w)
    BY <1>2, <2>4 DEF SetupFails, Return
  <2> QED
    BY <1>3, <1>5, <2>1, <2>2, <2>3, <2>4 DEF SetupStep
<1>6. ASSUME NEW w \in Workers, FrameStep(w) PROVE DescriptorsClosed'
  <2>1. CASE Test(w) \/ Dequeue(w) \/ PictureFile(w) \/ WritePicture(w) \/ Decode(w)
    BY <1>1, <2>1 DEF Test, Dequeue, PictureFile, WritePicture, Decode
  <2>2. CASE DecodeDone(w) \/ Requeue(w) \/ Count(w) \/ Timer(w) \/ SetSource(w) \/ Break(w)
    BY <1>1, <2>2 DEF DecodeDone, Requeue, Count, Timer, SetSource, Break
  <2> QED
    BY <1>6, <2>1, <2>2 DEF FrameStep
<1>7. ASSUME NEW w \in Workers, EndStep(w) PROVE DescriptorsClosed'
  <2>1. CASE Unmap(w) \/ StreamOff(w) \/ UnlockCamera(w) \/ StartPresent(w)
    BY <1>1, <2>1 DEF Unmap, StreamOff, UnlockCamera, StartPresent
  <2>2. CASE StreamOffFails(w) \/ CloseCamera(w)
    BY <1>2, <2>2 DEF StreamOffFails, CloseCamera, Return
  <2> QED
    BY <1>7, <2>1, <2>2 DEF EndStep
<1>8. ASSUME NEW w \in Workers, Release(w) PROVE DescriptorsClosed'
  <2>1. pressed \in {"start", "close"}
    BY <1>8 DEF Release, TypeOK
  <2> QED
    BY <1>1, <1>8, <2>1 DEF Release
<1>9. CASE Fill \/ Press \/ UNCHANGED vars
  <2>1. UNCHANGED <<pc, fds, owner>>
    BY <1>9 DEF Fill, Press, vars
  <2> QED
    BY <2>1 DEF DescriptorsClosed
<1> QED
  BY <1>4, <1>5, <1>6, <1>7, <1>8, <1>9 DEF Next, HandlerStep

\* No descriptor of the camera outlives its session, whichever of the calls failed.
THEOREM DescriptorsSafe == Spec => []DescriptorsClosed
<1>1. Init => DescriptorsClosed
  BY DEF Init, DescriptorsClosed
<1> QED
  BY <1>1, StepDescriptors, TypeCorrect, PTL DEF Spec

-----------------------------------------------------------------------------
(* The session implements its abstract specification                        *)

Live == \E w \in Workers : pc[w] \in LivePcs

LEMMA PhaseIs == phase = IF kept > 0 THEN "stuck" ELSE IF Live THEN "live" ELSE "idle"
BY DEF phase, Live

LEMMA SamePhase ==
  ASSUME TypeOK, NEW w \in Workers, NEW from, NEW to, Goto(w, from, to),
         from \in LivePcs <=> to \in LivePcs, kept' = kept
  PROVE  phase' = phase
<1>1. Live' = Live
  BY DEF Live, TypeOK, Goto
<1> QED
  BY <1>1, PhaseIs DEF phase, Live

\* An error return: the session was live and its camera is lost, if it was not before.
LEMMA ReturnLoses ==
  ASSUME TypeOK, NEW w \in Workers, NEW from \in LivePcs, Return(w, from), UNCHANGED using
  PROVE  [Session!Next]_(Session!avars)
<1>1. phase' = "stuck" /\ phase \in {"live", "stuck"}
  BY DEF Return, Goto, phase, TypeOK
<1> QED
  BY <1>1 DEF Session!Next, Session!Lose, Session!avars

LEMMA Stutter == UNCHANGED phase /\ using' \in BOOLEAN => [Session!Next]_(Session!avars)
BY DEF Session!Next, Session!Switch, Session!avars

LEMMA StepImplements == TypeOK /\ TypeOK' /\ [Next]_vars => [Session!Next]_(Session!avars)
<1> SUFFICES ASSUME TypeOK, TypeOK', [Next]_vars PROVE [Session!Next]_(Session!avars)
  OBVIOUS
<1>0. using' \in BOOLEAN
  BY DEF TypeOK
<1> USE DEF LivePcs, mutex
<1>1. ASSUME NEW w \in Workers, BeginStep(w) \/ CloseStep(w) PROVE UNCHANGED phase
  BY <1>1, SamePhase DEF BeginStep, CloseStep, StartUsing, StartLoad, InitCheck, InitMutex, InitFlag,
                         CloseUsing, CloseLoad, ClosePresent
<1>2. ASSUME NEW w \in Workers, SetupStep(w) PROVE [Session!Next]_(Session!avars)
  <2>1. CASE LockCamera(w) \/ Bail(w) \/ Open(w) \/ Request(w)
    BY <1>0, <2>1, SamePhase, Stutter DEF LockCamera, Bail, Open, Request
  <2>2. CASE RequestFails(w) \/ MapBuffer(w) \/ StreamOn(w)
    BY <1>0, <2>2, SamePhase, Stutter DEF RequestFails, MapBuffer, StreamOn
  <2>3. CASE OpenFails(w) \/ SetupFails(w)
    BY <2>3, ReturnLoses DEF OpenFails, SetupFails
  <2>4. CASE Check(w) /\ ~using
    BY <1>0, <2>4, SamePhase, Stutter DEF Check
  <2>5. CASE Check(w) /\ using
    <3>1. Live' /\ kept' = kept /\ using'
      BY <2>5 DEF Check, Goto, Live, TypeOK
    <3>2. CASE phase = "idle"
      BY <2>5, <3>1, <3>2, PhaseIs
         DEF Check, phase, Live, Session!Next, Session!Begin
    <3>3. CASE phase # "idle"
      BY <1>0, <3>1, <3>3, PhaseIs, Stutter DEF phase, Live
    <3> QED
      BY <3>2, <3>3
  <2> QED
    BY <1>2, <2>1, <2>2, <2>3, <2>4, <2>5 DEF SetupStep
<1>3. ASSUME NEW w \in Workers, FrameStep(w) PROVE UNCHANGED phase
  <2>1. CASE Test(w) \/ Dequeue(w) \/ PictureFile(w) \/ WritePicture(w) \/ Decode(w)
    BY <2>1, SamePhase DEF Test, Dequeue, PictureFile, WritePicture, Decode
  <2>2. CASE DecodeDone(w) \/ Requeue(w) \/ Count(w) \/ Timer(w) \/ SetSource(w) \/ Break(w)
    BY <2>2, SamePhase DEF DecodeDone, Requeue, Count, Timer, SetSource, Break
  <2> QED
    BY <1>3, <2>1, <2>2 DEF FrameStep
<1>4. ASSUME NEW w \in Workers, EndStep(w) PROVE [Session!Next]_(Session!avars)
  <2>1. CASE Unmap(w) \/ StreamOff(w) \/ CloseCamera(w) \/ StartPresent(w)
    BY <1>0, <2>1, SamePhase, Stutter DEF Unmap, StreamOff, CloseCamera, StartPresent
  <2>2. CASE StreamOffFails(w)
    BY <2>2, ReturnLoses DEF StreamOffFails
  <2>3. CASE UnlockCamera(w)
    <3>1. phase \in {"live", "stuck"} /\ kept' = kept /\ using' = using
      BY <2>3 DEF UnlockCamera, Goto, phase
    <3>2. phase = "stuck" => phase' = "stuck"
      BY <3>1 DEF phase
    <3>3. phase = "live" => phase' \in {"live", "idle"}
      BY <3>1 DEF phase
    <3> QED
      BY <3>1, <3>2, <3>3 DEF Session!Next, Session!End, Session!avars
  <2> QED
    BY <1>4, <2>1, <2>2, <2>3 DEF EndStep
<1>5. ASSUME NEW w \in Workers, Release(w) PROVE UNCHANGED phase
  <2>1. pressed \in {"start", "close"}
    BY <1>5 DEF Release, TypeOK
  <2> QED
    BY <1>5, <2>1, SamePhase DEF Release
<1>6. CASE Fill \/ Press \/ UNCHANGED vars
  BY <1>6 DEF Fill, Press, vars, phase, Session!avars
<1> QED
  BY <1>0, <1>1, <1>2, <1>3, <1>4, <1>5, <1>6, Stutter DEF Next, HandlerStep

\* camera_thread implements the abstract session: one begins only while the user
\* wants it, and a camera lost by an error return stays lost.
THEOREM Implements == Spec => SessionSpec
<1>1. Init => Session!Init
  BY DEF Init, Session!Init, phase, LivePcs
<1> QED
  BY <1>1, StepImplements, TypeCorrect, PTL DEF Spec, SessionSpec, Session!Spec

=============================================================================
