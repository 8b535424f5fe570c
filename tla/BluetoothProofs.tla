--------------------------- MODULE BluetoothProofs ---------------------------
(* Theorems about Bluetooth, for every value of its constants.             *)
EXTENDS Bluetooth, TLAPS, FiniteSetTheorems

-----------------------------------------------------------------------------
(* Where the critical sections are                                          *)

LEMMA Sections ==
  /\ Section["scan"] = {"init", "mutexes", "bus", "start"} \cup LoopPcs \cup EndPcs
  /\ Section["accepting"] = {"loop_message", "loop_clean", "loop_unaccepting", "end_message",
                             "end_clean", "end_unaccepting"} \cup AcceptPcs
  /\ Section["message"] = {"loop_clean", "loop_unaccepting", "loop_reset", "update", "link",
                           "loop_unmessage", "end_clean", "end_unaccepting", "end_unmessage",
                           "list_lvgl", "rebuild", "walk", "row", "list_unlvgl", "list_unmessage"}
  /\ Section["lvgl"] = {"label", "rebuild", "walk", "row", "list_unlvgl", "handler"}
  /\ Section["send"] = {}
BY DEF Section

\* Threads are finitely many, and the two named ones are not workers.
LEMMA ThreadsFacts ==
  /\ IsFiniteSet(Threads)
  /\ Workers \subseteq Threads /\ Refresh \in Threads /\ Lvgl \in Threads
  /\ Refresh \notin Workers /\ Lvgl \notin Workers /\ Refresh # Lvgl
<1>1. IsFiniteSet(Workers \cup {Refresh})
  BY FS_AddElement, ThreadsAssumption
<1>2. IsFiniteSet((Workers \cup {Refresh}) \cup {Lvgl})
  BY <1>1, FS_AddElement
<1>3. Threads = (Workers \cup {Refresh}) \cup {Lvgl}
  BY DEF Threads
<1> QED
  BY <1>2, <1>3, ThreadsAssumption DEF Threads, Refresh, Lvgl

\* A thread that goes to q enters or leaves exactly the sections q says.
LEMMA Moves ==
  ASSUME TypeOK, NEW t \in Threads, NEW q, pc' = [pc EXCEPT ![t] = q], NEW m \in Locks
  PROVE  Inside(m)' = IF q \in Section[m] THEN Inside(m) \cup {t} ELSE Inside(m) \ {t}
BY DEF Inside, TypeOK, PcOK

LEMMA InsideCounts ==
  ASSUME NEW m \in Locks
  PROVE  IsFiniteSet(Inside(m)) /\ Cardinality(Inside(m)) \in Nat
BY ThreadsFacts, FS_Subset, FS_CardinalityType DEF Inside

-----------------------------------------------------------------------------
(* The life of a mutex: a step leaves it alone, lets one thread into its     *)
(* section, lets one out, or clears its word.                               *)

Untouched(m) ==
  Inside(m)' = Inside(m) /\ word'[m] = word[m] /\ tears'[m] = tears[m]

Entered(m) ==
  /\ word[m] = 0 /\ word'[m] = 1 /\ tears'[m] = tears[m]
  /\ \E t \in Threads \ Inside(m) : Inside(m)' = Inside(m) \cup {t}

Left(m) ==
  /\ word'[m] = 0 /\ tears'[m] = tears[m]
  /\ \E t \in Inside(m) : Inside(m)' = Inside(m) \ {t}

Cleared(m) ==
  /\ Inside(m)' = Inside(m) /\ word'[m] = 0 /\ tears'[m] = tears[m] + word[m]
  /\ \E w \in Workers : pc[w] = "mutexes"

MutexStep == \A m \in Locks : Untouched(m) \/ Entered(m) \/ Left(m) \/ Cleared(m)

\* SameSections(from, to, K): the move crosses no boundary of the mutexes in K.
SameSections(from, to, K) == \A m \in K : from \in Section[m] <=> to \in Section[m]

LEMMA StayInside ==
  ASSUME TypeOK, NEW t \in Threads, NEW from, NEW to, Goto(t, from, to),
         NEW m \in Locks, from \in Section[m] <=> to \in Section[m]
  PROVE  Inside(m)' = Inside(m)
BY Moves DEF Goto, Inside

LEMMA Stay ==
  ASSUME TypeOK, NEW t \in Threads, NEW from, NEW to, Goto(t, from, to),
         SameSections(from, to, Locks), UNCHANGED locks
  PROVE  MutexStep
BY StayInside DEF SameSections, MutexStep, Untouched, locks

LEMMA Enter ==
  ASSUME TypeOK, NEW t \in Threads, NEW k \in Locks, NEW from, NEW to,
         Lock(t, k, from, to), SameSections(from, to, Locks \ {k}),
         from \notin Section[k], to \in Section[k]
  PROVE  MutexStep
<1>1. Entered(k)
  <2>1. t \in Threads \ Inside(k) /\ Inside(k)' = Inside(k) \cup {t}
    BY Moves DEF Lock, Goto, Inside
  <2> QED
    BY <2>1 DEF Entered, Lock, TypeOK, LocksOK
<1>2. ASSUME NEW m \in Locks \ {k} PROVE Untouched(m)
  <2>1. Inside(m)' = Inside(m)
    BY StayInside DEF SameSections, Lock
  <2> QED
    BY <2>1 DEF Untouched, Lock, TypeOK, LocksOK
<1> QED
  BY <1>1, <1>2 DEF MutexStep

LEMMA Leave ==
  ASSUME TypeOK, NEW t \in Threads, NEW k \in Locks, NEW from, NEW to,
         Unlock(t, k, from, to), SameSections(from, to, Locks \ {k}),
         from \in Section[k], to \notin Section[k]
  PROVE  MutexStep
<1>1. Left(k)
  <2>1. t \in Inside(k)
    BY DEF Unlock, Goto, Inside
  <2>2. Inside(k)' = Inside(k) \ {t}
    BY Moves DEF Unlock, Goto
  <2> QED
    BY <2>1, <2>2 DEF Left, Unlock, TypeOK, LocksOK
<1>2. ASSUME NEW m \in Locks \ {k} PROVE Untouched(m)
  <2>1. Inside(m)' = Inside(m)
    BY StayInside DEF SameSections, Unlock
  <2> QED
    BY <2>1 DEF Untouched, Unlock, TypeOK, LocksOK
<1> QED
  BY <1>1, <1>2 DEF MutexStep

\* What a step does to the number of threads in a section.
LEMMA EnteredCount ==
  ASSUME NEW m \in Locks, Entered(m)
  PROVE  Cardinality(Inside(m)') = Cardinality(Inside(m)) + 1
<1>1. PICK t \in Threads \ Inside(m) : Inside(m)' = Inside(m) \cup {t}
  BY DEF Entered
<1>2. IsFiniteSet(Inside(m))
  BY InsideCounts
<1>3. Cardinality(Inside(m) \cup {t}) =
        IF t \in Inside(m) THEN Cardinality(Inside(m)) ELSE Cardinality(Inside(m)) + 1
  BY <1>2, FS_AddElement
<1> QED
  BY <1>1, <1>3

LEMMA LeftCount ==
  ASSUME NEW m \in Locks, Left(m)
  PROVE  Cardinality(Inside(m)') = Cardinality(Inside(m)) - 1
<1>1. PICK t \in Inside(m) : Inside(m)' = Inside(m) \ {t}
  BY DEF Left
<1>2. IsFiniteSet(Inside(m))
  BY InsideCounts
<1>3. Cardinality(Inside(m) \ {t}) =
        IF t \in Inside(m) THEN Cardinality(Inside(m)) - 1 ELSE Cardinality(Inside(m))
  BY <1>2, FS_RemoveElement
<1> QED
  BY <1>1, <1>3

-----------------------------------------------------------------------------
(* Type correctness                                                         *)

\* TypeOK without what refresh_ui has checked of the row it is in.
Types == PcOK /\ LocksOK /\ ScanOK /\ ListOK /\ UiOK /\ ConnOK

\* Where a thread may go, and what a connect needs to have got there.
MayGo(t, from, to) ==
  /\ \/ t \in Workers /\ to \in WorkerPcs
     \/ t = Refresh /\ to \in RefreshPcs
     \/ t = Lvgl /\ to \in LvglPcs
  /\ to \notin {"conn_lock"} \cup AcceptPcs \/ from \in {"conn_lock"} \cup AcceptPcs

LEMMA PcKeeps ==
  ASSUME TypeOK, NEW t \in Threads, NEW from, NEW to, Goto(t, from, to), MayGo(t, from, to)
  PROVE  PcOK'
BY ThreadsFacts DEF Goto, TypeOK, PcOK, MayGo

LEMMA ConnKeeps ==
  ASSUME TypeOK, NEW t \in Threads, NEW from, NEW to, Goto(t, from, to), MayGo(t, from, to),
         UNCHANGED conn
  PROVE  ConnOK'
BY ThreadsFacts DEF Goto, TypeOK, PcOK, ConnOK, conn, MayGo

LEMMA WordsKeep ==
  ASSUME TypeOK, NEW t, NEW m \in Locks, NEW from, NEW to,
         Lock(t, m, from, to) \/ Unlock(t, m, from, to)
  PROVE  LocksOK'
BY DEF TypeOK, LocksOK, Lock, Unlock

\* A step that only moves a thread and maybe handles a mutex.
LEMMA SyncKeepsTypes ==
  ASSUME TypeOK, NEW t \in Threads, NEW m \in Locks, NEW from, NEW to, MayGo(t, from, to),
         UNCHANGED data,
         \/ Lock(t, m, from, to)
         \/ Unlock(t, m, from, to)
         \/ Goto(t, from, to) /\ UNCHANGED locks
  PROVE  Types'
<1>1. PcOK' /\ ConnOK'
  BY PcKeeps, ConnKeeps DEF Lock, Unlock, data, conn
<1>2. LocksOK'
  BY WordsKeep DEF TypeOK, LocksOK, locks
<1>3. ScanOK'
  BY Zenon DEF TypeOK, ScanOK, data, scan
<1>4. ListOK'
  BY DEF TypeOK, ListOK, data, list
<1>5. UiOK'
  BY DEF TypeOK, UiOK, data, ui
<1> QED
  BY <1>1, <1>2, <1>3, <1>4, <1>5 DEF Types

\* A step that moves a thread and leaves mutexes and connects alone.
LEMMA MoveKeepsTypes ==
  ASSUME TypeOK, NEW t \in Threads, NEW from, NEW to, MayGo(t, from, to), Goto(t, from, to),
         UNCHANGED <<locks, conn>>
  PROVE  PcOK' /\ ConnOK' /\ LocksOK'
<1>1. PcOK' /\ ConnOK'
  BY PcKeeps, ConnKeeps DEF conn
<1>2. LocksOK'
  BY DEF TypeOK, LocksOK, locks
<1> QED
  BY <1>1, <1>2

\* The pcs of the three kinds of threads, as one set each.
LEMMA PcSets ==
  /\ WorkerPcs = {"idle", "open", "open_using", "open_present", "scan_lock", "close",
       "close_load", "close_present", "conn_lock", "init", "mutexes", "bus", "start", "test",
       "loop_accepting", "loop_message", "loop_clean", "loop_unaccepting", "loop_reset",
       "update", "link", "loop_unmessage", "stop", "end_accepting", "end_message", "end_clean",
       "end_unaccepting", "end_unmessage", "end_unscan", "proxy", "connect", "conn_unlock"}
  /\ AcceptPcs = {"proxy", "connect", "conn_unlock"}
BY Sections DEF WorkerPcs, LoopPcs, EndPcs, AcceptPcs

\* The groups a step leaves alone.
LEMMA SameScan == TypeOK /\ UNCHANGED scan => ScanOK'
  BY Zenon DEF TypeOK, ScanOK, scan

LEMMA SameList == TypeOK /\ UNCHANGED <<list, crash>> => ListOK'
  BY DEF TypeOK, ListOK, list

LEMMA SameUi == TypeOK /\ UNCHANGED ui => UiOK'
  BY DEF TypeOK, UiOK, ui

LEMMA FreeNodeIsFree ==
  ASSUME TypeOK, Live # Nodes
  PROVE  FreeNode \in Nodes /\ heap[FreeNode] = NoDevice
BY DEF FreeNode, Live

LEMMA OpenTypes ==
  ASSUME TypeOK, NEW w \in Workers, OpenStep(w)
  PROVE  Types'
<1> USE ThreadsFacts
<1>1. CASE OpenLoad(w)
  <2>1. PcOK' /\ ConnOK' /\ LocksOK'
    BY <1>1, MoveKeepsTypes, PcSets DEF OpenLoad, MayGo
  <2>2. ScanOK'
    BY <1>1, SameScan DEF OpenLoad
  <2>3. ListOK'
    BY <1>1, SameList DEF OpenLoad
  <2>4. UiOK'
    BY <1>1 DEF OpenLoad, TypeOK, UiOK, Screens
  <2> QED
    BY <2>1, <2>2, <2>3, <2>4 DEF Types
<1>2. CASE OpenUsing(w)
  <2>1. PcOK' /\ ConnOK' /\ LocksOK'
    BY <1>2, MoveKeepsTypes, PcSets DEF OpenUsing, MayGo
  <2>2. ScanOK'
    BY <1>2, Zenon DEF OpenUsing, TypeOK, ScanOK
  <2>3. ListOK'
    BY <1>2, SameList DEF OpenUsing
  <2>4. UiOK'
    BY <1>2, SameUi DEF OpenUsing
  <2> QED
    BY <2>1, <2>2, <2>3, <2>4 DEF Types
<1>3. CASE OpenPresent(w)
  <2>1. PcOK' /\ ConnOK' /\ LocksOK'
    BY <1>3, MoveKeepsTypes, PcSets DEF OpenPresent, MayGo
  <2>2. ScanOK'
    BY <1>3, SameScan DEF OpenPresent
  <2>3. ListOK'
    BY <1>3, SameList DEF OpenPresent
  <2>4. UiOK'
    BY <1>3 DEF OpenPresent, TypeOK, UiOK, Screens
  <2> QED
    BY <2>1, <2>2, <2>3, <2>4 DEF Types
<1>4. CASE ScanLock(w)
  BY <1>4, SyncKeepsTypes, PcSets DEF ScanLock, MayGo, Locks
<1> QED
  BY <1>1, <1>2, <1>3, <1>4 DEF OpenStep

LEMMA InitBluetoothTypes ==
  ASSUME TypeOK, NEW w \in Workers, InitStep(w)
  PROVE  Types'
<1> USE ThreadsFacts
<1>1. CASE InitCheck(w)
  BY <1>1, SyncKeepsTypes, PcSets DEF InitCheck, MayGo, Locks
<1>2. CASE InitMutexes(w)
  <2>1. PcOK' /\ ConnOK'
    BY <1>2, PcKeeps, ConnKeeps, PcSets DEF InitMutexes, MayGo, data, conn
  <2>2. LocksOK'
    BY <1>2 DEF InitMutexes, TypeOK, LocksOK
  <2>3. ScanOK' /\ ListOK' /\ UiOK'
    BY <1>2, SameScan, SameList, SameUi DEF InitMutexes, data
  <2> QED
    BY <2>1, <2>2, <2>3 DEF Types
<1>3. CASE InitDone(w)
  <2>1. PcOK' /\ ConnOK' /\ LocksOK'
    BY <1>3, MoveKeepsTypes, PcSets DEF InitDone, MayGo
  <2>2. ScanOK'
    BY <1>3, Zenon DEF InitDone, TypeOK, ScanOK
  <2>3. ListOK'
    BY <1>3, SameList DEF InitDone
  <2>4. UiOK'
    BY <1>3, SameUi DEF InitDone
  <2> QED
    BY <2>1, <2>2, <2>3, <2>4 DEF Types
<1>4. CASE InitFail(w)
  <2>1. PcOK' /\ ConnOK' /\ LocksOK'
    BY <1>4, MoveKeepsTypes, PcSets DEF InitFail, MayGo
  <2>2. ScanOK'
    <3>1. using' \in BOOLEAN /\ initFlag' \in BOOLEAN /\ discovering' \in BOOLEAN
          /\ refused' \in BOOLEAN
      BY <1>4, Zenon DEF InitFail, TypeOK, ScanOK
    <3>2. adapter' \in {"null", "valid", "freed"} /\ failures' \in 0 .. MaxFailures
      BY <1>4, BoundsAssumption DEF InitFail, TypeOK, ScanOK
    <3> QED
      BY <3>1, <3>2, Zenon DEF ScanOK
  <2>3. ListOK'
    BY <1>4, SameList DEF InitFail
  <2>4. UiOK'
    BY <1>4, SameUi DEF InitFail
  <2> QED
    BY <2>1, <2>2, <2>3, <2>4 DEF Types
<1> QED
  BY <1>1, <1>2, <1>3, <1>4 DEF InitStep

LEMMA LoopTypes ==
  ASSUME TypeOK, NEW w \in Workers, LoopStep(w)
  PROVE  Types'
<1> USE ThreadsFacts
<1>1. CASE Start(w)
  <2>1. PcOK' /\ ConnOK' /\ LocksOK'
    BY <1>1, MoveKeepsTypes, PcSets DEF Start, MayGo
  <2>2. ScanOK'
    <3>1. using' \in BOOLEAN /\ initFlag' \in BOOLEAN /\ discovering' \in BOOLEAN
          /\ refused' \in BOOLEAN
      BY <1>1 DEF Start, TypeOK, ScanOK
    <3>2. adapter' \in {"null", "valid", "freed"} /\ failures' \in 0 .. MaxFailures
      BY <1>1 DEF Start, TypeOK, ScanOK
    <3> QED
      BY <3>1, <3>2, Zenon DEF ScanOK
  <2>3. ListOK'
    BY <1>1 DEF Start, TypeOK, ListOK, list, Crashes
  <2>4. UiOK'
    BY <1>1, SameUi DEF Start
  <2> QED
    BY <2>1, <2>2, <2>3, <2>4 DEF Types
<1>2. CASE Test(w)
  BY <1>2, SyncKeepsTypes, PcSets DEF Test, MayGo, Locks
<1>3. CASE LoopAccepting(w)
  BY <1>3, SyncKeepsTypes, PcSets DEF LoopAccepting, MayGo, Locks
<1>4. CASE LoopMessage(w)
  BY <1>4, SyncKeepsTypes, PcSets DEF LoopMessage, MayGo, Locks
<1>5. CASE LoopClean(w)
  <2>1. PcOK' /\ ConnOK' /\ LocksOK'
    BY <1>5, MoveKeepsTypes, PcSets DEF LoopClean, MayGo
  <2>2. ScanOK'
    BY <1>5, SameScan DEF LoopClean
  <2>3. ListOK'
    BY <1>5 DEF LoopClean, TypeOK, ListOK, Clean, Crashes
  <2>4. UiOK'
    BY <1>5, SameUi DEF LoopClean
  <2> QED
    BY <2>1, <2>2, <2>3, <2>4 DEF Types
<1>6. CASE LoopUnaccepting(w)
  BY <1>6, SyncKeepsTypes, PcSets DEF LoopUnaccepting, MayGo, Locks
<1>7. CASE LoopReset(w)
  <2>1. PcOK' /\ ConnOK' /\ LocksOK'
    BY <1>7, MoveKeepsTypes, PcSets DEF LoopReset, MayGo
  <2>2. ScanOK'
    BY <1>7, SameScan DEF LoopReset
  <2>3. ListOK'
    BY <1>7 DEF LoopReset, TypeOK, ListOK
  <2>4. UiOK'
    BY <1>7, SameUi DEF LoopReset
  <2> QED
    BY <2>1, <2>2, <2>3, <2>4 DEF Types
<1>8. CASE Add(w)
  <2>1. PcOK' /\ ConnOK' /\ LocksOK'
    BY <1>8, MoveKeepsTypes, PcSets DEF Add, MayGo
  <2>2. ScanOK'
    BY <1>8, SameScan DEF Add
  <2>3. ListOK'
    <3>1. PICK d \in todo[w] : /\ heap' = [heap EXCEPT ![FreeNode] = d]
                               /\ tmp'  = [tmp EXCEPT ![w] = <<FreeNode>> \o head]
                               /\ todo' = [todo EXCEPT ![w] = @ \ {d}]
      BY <1>8 DEF Add
    <3>2. d \in Devices /\ <<FreeNode>> \o head \in Seq(Nodes)
      BY <1>8, FreeNodeIsFree DEF Add, TypeOK, ListOK
    <3> QED
      BY <1>8, <3>1, <3>2 DEF Add, TypeOK, ListOK
  <2>4. UiOK'
    BY <1>8, SameUi DEF Add
  <2> QED
    BY <2>1, <2>2, <2>3, <2>4 DEF Types
<1>9. CASE Link(w)
  <2>1. PcOK' /\ ConnOK' /\ LocksOK'
    BY <1>9, MoveKeepsTypes, PcSets DEF Link, MayGo
  <2>2. ScanOK'
    BY <1>9, SameScan DEF Link
  <2>3. ListOK'
    BY <1>9 DEF Link, TypeOK, ListOK
  <2>4. UiOK'
    BY <1>9, SameUi DEF Link
  <2> QED
    BY <2>1, <2>2, <2>3, <2>4 DEF Types
<1>10. CASE UpdateDone(w)
  <2>1. PcOK' /\ ConnOK' /\ LocksOK'
    BY <1>10, MoveKeepsTypes, PcSets DEF UpdateDone, MayGo
  <2>2. ScanOK'
    BY <1>10, SameScan DEF UpdateDone
  <2>3. ListOK'
    BY <1>10 DEF UpdateDone, TypeOK, ListOK
  <2>4. UiOK'
    BY <1>10, SameUi DEF UpdateDone
  <2> QED
    BY <2>1, <2>2, <2>3, <2>4 DEF Types
<1>11. CASE LoopUnmessage(w)
  BY <1>11, SyncKeepsTypes, PcSets DEF LoopUnmessage, MayGo, Locks
<1> QED
  BY <1>1, <1>2, <1>3, <1>4, <1>5, <1>6, <1>7, <1>8, <1>9, <1>10, <1>11 DEF LoopStep, UpdateStep

LEMMA EndTypes ==
  ASSUME TypeOK, NEW w \in Workers, EndStep(w)
  PROVE  Types'
<1> USE ThreadsFacts
<1>1. CASE Stop(w)
  <2>1. PcOK' /\ ConnOK' /\ LocksOK'
    BY <1>1, MoveKeepsTypes, PcSets DEF Stop, MayGo
  <2>2. ScanOK'
    <3>1. using' \in BOOLEAN /\ initFlag' \in BOOLEAN /\ discovering' \in BOOLEAN
          /\ refused' \in BOOLEAN
      BY <1>1 DEF Stop, TypeOK, ScanOK
    <3>2. adapter' \in {"null", "valid", "freed"} /\ failures' \in 0 .. MaxFailures
      BY <1>1 DEF Stop, TypeOK, ScanOK
    <3> QED
      BY <3>1, <3>2, Zenon DEF ScanOK
  <2>3. ListOK'
    BY <1>1 DEF Stop, TypeOK, ListOK, list, Crashes
  <2>4. UiOK'
    BY <1>1, SameUi DEF Stop
  <2> QED
    BY <2>1, <2>2, <2>3, <2>4 DEF Types
<1>2. CASE EndAccepting(w)
  BY <1>2, SyncKeepsTypes, PcSets DEF EndAccepting, MayGo, Locks
<1>3. CASE EndMessage(w)
  BY <1>3, SyncKeepsTypes, PcSets DEF EndMessage, MayGo, Locks
<1>4. CASE EndClean(w)
  <2>1. PcOK' /\ ConnOK' /\ LocksOK'
    BY <1>4, MoveKeepsTypes, PcSets DEF EndClean, MayGo
  <2>2. ScanOK'
    BY <1>4, SameScan DEF EndClean
  <2>3. ListOK'
    <3>1. <<>> \in Seq(Nodes)
      OBVIOUS
    <3> QED
      BY <1>4, <3>1 DEF EndClean, TypeOK, ListOK, Clean, Crashes
  <2>4. UiOK'
    BY <1>4, SameUi DEF EndClean
  <2> QED
    BY <2>1, <2>2, <2>3, <2>4 DEF Types
<1>5. CASE EndUnaccepting(w)
  BY <1>5, SyncKeepsTypes, PcSets DEF EndUnaccepting, MayGo, Locks
<1>6. CASE EndUnmessage(w)
  BY <1>6, SyncKeepsTypes, PcSets DEF EndUnmessage, MayGo, Locks
<1>7. CASE EndUnscan(w)
  BY <1>7, SyncKeepsTypes, PcSets DEF EndUnscan, MayGo, Locks
<1> QED
  BY <1>1, <1>2, <1>3, <1>4, <1>5, <1>6, <1>7 DEF EndStep

LEMMA CloseTypes ==
  ASSUME TypeOK, NEW w \in Workers, CloseStep(w)
  PROVE  Types'
<1> USE ThreadsFacts
<1>1. CASE CloseUsing(w)
  <2>1. PcOK' /\ ConnOK' /\ LocksOK'
    BY <1>1, MoveKeepsTypes, PcSets DEF CloseUsing, MayGo
  <2>2. ScanOK'
    BY <1>1, Zenon DEF CloseUsing, TypeOK, ScanOK
  <2>3. ListOK'
    BY <1>1, SameList DEF CloseUsing
  <2>4. UiOK'
    BY <1>1, SameUi DEF CloseUsing
  <2> QED
    BY <2>1, <2>2, <2>3, <2>4 DEF Types
<1>2. CASE CloseLoad(w)
  <2>1. PcOK' /\ ConnOK' /\ LocksOK'
    BY <1>2, MoveKeepsTypes, PcSets DEF CloseLoad, MayGo
  <2>2. ScanOK'
    BY <1>2, SameScan DEF CloseLoad
  <2>3. ListOK'
    BY <1>2, SameList DEF CloseLoad
  <2>4. UiOK'
    BY <1>2 DEF CloseLoad, TypeOK, UiOK, Screens
  <2> QED
    BY <2>1, <2>2, <2>3, <2>4 DEF Types
<1>3. CASE ClosePresent(w)
  <2>1. PcOK' /\ ConnOK' /\ LocksOK'
    BY <1>3, MoveKeepsTypes, PcSets DEF ClosePresent, MayGo
  <2>2. ScanOK'
    BY <1>3, SameScan DEF ClosePresent
  <2>3. ListOK'
    BY <1>3, SameList DEF ClosePresent
  <2>4. UiOK'
    BY <1>3 DEF ClosePresent, TypeOK, UiOK, Screens
  <2> QED
    BY <2>1, <2>2, <2>3, <2>4 DEF Types
<1> QED
  BY <1>1, <1>2, <1>3 DEF CloseStep

LEMMA ConnectTypes ==
  ASSUME TypeOK, NEW w \in Workers, ConnectStep(w)
  PROVE  Types'
<1> USE ThreadsFacts
<1>1. CASE ConnLock(w)
  <2>1. arg[w] # 0 /\ PcOK'
    BY <1>1, PcKeeps, PcSets DEF ConnLock, MayGo, Lock, Goto, TypeOK, ConnOK
  <2> QED
    BY <1>1, SyncKeepsTypes, PcSets DEF ConnLock, MayGo, Locks
<1>2. CASE Proxy(w)
  <2>1. PcOK'
    BY <1>2, PcKeeps, PcSets DEF Proxy, MayGo
  <2>2. LocksOK'
    BY <1>2 DEF Proxy, TypeOK, LocksOK, locks
  <2>3. ScanOK' /\ ListOK' /\ UiOK'
    BY <1>2, SameScan, SameList, SameUi DEF Proxy
  <2>4. ConnOK'
    <3>1. arg[w] \in 1 .. MaxShow
      BY <1>2 DEF Proxy, Goto, TypeOK, ConnOK, AcceptPcs
    <3>2. PICK d \in {slots[arg[w]], Garbled} : target' = [target EXCEPT ![w] = d]
      BY <1>2, Zenon DEF Proxy
    <3>3. d \in Paths
      BY <3>1, <3>2 DEF TypeOK, UiOK, Paths
    <3> QED
      BY <1>2, <3>2, <3>3 DEF Proxy, Goto, TypeOK, ConnOK, PcOK, AcceptPcs
  <2> QED
    BY <2>1, <2>2, <2>3, <2>4 DEF Types
<1>3. CASE Connect(w)
  BY <1>3, SyncKeepsTypes, PcSets DEF Connect, MayGo, Locks
<1>4. CASE ConnUnlock(w)
  <2>1. PcOK' /\ LocksOK'
    <3>1. PcOK'
      BY <1>4, PcKeeps, PcSets DEF ConnUnlock, MayGo, Unlock
    <3>2. LocksOK'
      BY <1>4, WordsKeep DEF ConnUnlock, Locks
    <3> QED
      BY <3>1, <3>2
  <2>2. ScanOK' /\ ListOK' /\ UiOK'
    BY <1>4, SameScan, SameList, SameUi DEF ConnUnlock
  <2>3. ConnOK'
    BY <1>4, BoundsAssumption DEF ConnUnlock, Unlock, Goto, TypeOK, ConnOK, PcOK, AcceptPcs, Paths
  <2> QED
    BY <2>1, <2>2, <2>3 DEF Types
<1> QED
  BY <1>1, <1>2, <1>3, <1>4 DEF ConnectStep

LEMMA ReadIsPath ==
  ASSUME TypeOK, NEW s \in Seq(Nodes), s # <<>>
  PROVE  Read(Head(s)) \in Paths
<1>1. Head(s) \in Nodes
  OBVIOUS
<1> QED
  BY <1>1 DEF Read, Paths, TypeOK, ListOK

LEMMA RefreshTypes ==
  ASSUME TypeOK, RefreshStep
  PROVE  Types'
<1> USE ThreadsFacts
<1>1. CASE LabelLock
  BY <1>1, SyncKeepsTypes, PcSets DEF RefreshPcs, WalkPcs, LvglPcs, LabelLock, MayGo, Locks
<1>2. CASE LabelUnlock
  BY <1>2, SyncKeepsTypes, PcSets DEF RefreshPcs, WalkPcs, LvglPcs, LabelUnlock, MayGo, Locks
<1>3. CASE Switch
  BY <1>3, SyncKeepsTypes, PcSets DEF RefreshPcs, WalkPcs, LvglPcs, Switch, MayGo, Locks
<1>4. CASE ListMessage
  BY <1>4, SyncKeepsTypes, PcSets DEF RefreshPcs, WalkPcs, LvglPcs, ListMessage, MayGo, Locks
<1>5. CASE ListLvgl
  BY <1>5, SyncKeepsTypes, PcSets DEF RefreshPcs, WalkPcs, LvglPcs, ListLvgl, MayGo, Locks
<1>6. CASE Rebuild
  <2>1. PcOK' /\ ConnOK' /\ LocksOK'
    BY <1>6, MoveKeepsTypes, PcSets DEF RefreshPcs, WalkPcs, LvglPcs, Rebuild, MayGo
  <2>2. ScanOK'
    BY <1>6, SameScan DEF Rebuild
  <2>3. ListOK'
    BY <1>6, SameList DEF Rebuild
  <2>4. UiOK'
    <3>1. buttons' = <<>> /\ buttons' \in Seq(Paths) /\ Len(buttons') = 0
      BY <1>6 DEF Rebuild
    <3>2. loaded' \in Screens /\ present' \in Screens /\ slots' \in [1 .. MaxShow -> Paths]
          /\ cur' \in Seq(Nodes)
      BY <1>6 DEF Rebuild, TypeOK, UiOK, ListOK
    <3>3. /\ pressed' \in Button \cup {NoButton} /\ pressed'.slot = 0
          /\ pressed'.event # "BLUETOOTH_CONNECT"
      BY <1>6 DEF Rebuild, TypeOK, UiOK, Button, NoButton
    <3> QED
      BY <3>1, <3>2, <3>3, BoundsAssumption DEF UiOK
  <2> QED
    BY <2>1, <2>2, <2>3, <2>4 DEF Types
<1>7. CASE Walk
  <2>1. PcOK' /\ ConnOK' /\ LocksOK'
    BY <1>7, MoveKeepsTypes, PcSets DEF RefreshPcs, WalkPcs, LvglPcs, Walk, MayGo
  <2>2. ScanOK'
    BY <1>7, SameScan DEF Walk
  <2>3. ListOK'
    BY <1>7 DEF Walk, Fault, TypeOK, ListOK, list, Crashes
  <2>4. UiOK'
    <3>1. cur \in Seq(Nodes) /\ cur # <<>>
      BY <1>7 DEF Walk, TypeOK, UiOK
    <3>2. Read(Head(cur)) \in Paths
      BY <3>1, ReadIsPath
    <3>3. slots' \in [1 .. MaxShow -> Paths]
      BY <1>7, <3>2 DEF Walk, TypeOK, UiOK
    <3> QED
      BY <1>7, <3>3 DEF Walk, TypeOK, UiOK
  <2> QED
    BY <2>1, <2>2, <2>3, <2>4 DEF Types
<1>8. CASE Row
  <2>1. PcOK' /\ ConnOK' /\ LocksOK'
    BY <1>8, MoveKeepsTypes, PcSets DEF RefreshPcs, WalkPcs, LvglPcs, Row, MayGo
  <2>2. ScanOK'
    BY <1>8, SameScan DEF Row
  <2>3. ListOK'
    BY <1>8 DEF Row, Fault, TypeOK, ListOK, list, Crashes
  <2>4. UiOK'
    <3>1. /\ cur \in Seq(Nodes) /\ cur # <<>> /\ buttons \in Seq(Paths)
          /\ Len(buttons) \in Nat /\ Len(buttons) < MaxShow /\ MaxShow \in Nat
      BY <1>8, BoundsAssumption DEF Row, Goto, RowOK, RoomForRow, TypeOK, UiOK
    <3>2. buttons' = Append(buttons, Read(Head(cur))) /\ Read(Head(cur)) \in Paths
      BY <1>8, <3>1, ReadIsPath DEF Row
    <3>3. buttons' \in Seq(Paths) /\ Len(buttons') = Len(buttons) + 1
      BY <3>1, <3>2
    <3>4. cur' \in Seq(Nodes)
      BY <1>8, <3>1 DEF Row
    <3>5. pressed.slot \in Nat /\ pressed.slot <= Len(buttons) /\ pressed' = pressed
      BY <1>8 DEF Row, TypeOK, UiOK, Button, NoButton
    <3>6. Len(buttons') <= MaxShow /\ pressed'.slot <= Len(buttons')
      BY <3>1, <3>3, <3>5
    <3>7. loaded' = loaded /\ present' = present /\ slots' = slots
      BY <1>8 DEF Row
    <3> QED
      BY <3>3, <3>4, <3>5, <3>6, <3>7 DEF TypeOK, UiOK
  <2> QED
    BY <2>1, <2>2, <2>3, <2>4 DEF Types
<1>9. CASE WalkDone
  <2>1. PcOK' /\ ConnOK' /\ LocksOK'
    BY <1>9, MoveKeepsTypes, PcSets DEF RefreshPcs, WalkPcs, LvglPcs, WalkDone, MayGo
  <2>2. ScanOK'
    BY <1>9, SameScan DEF WalkDone
  <2>3. ListOK'
    BY <1>9, SameList DEF WalkDone
  <2>4. UiOK'
    BY <1>9 DEF WalkDone, TypeOK, UiOK
  <2> QED
    BY <2>1, <2>2, <2>3, <2>4 DEF Types
<1>10. CASE ListUnlvgl
  BY <1>10, SyncKeepsTypes, PcSets DEF RefreshPcs, WalkPcs, LvglPcs, ListUnlvgl, MayGo, Locks
<1>11. CASE ListUnmessage
  BY <1>11, SyncKeepsTypes, PcSets DEF RefreshPcs, WalkPcs, LvglPcs, ListUnmessage, MayGo, Locks
<1> QED
  BY <1>1, <1>2, <1>3, <1>4, <1>5, <1>6, <1>7, <1>8, <1>9, <1>10, <1>11 DEF RefreshStep

LEMMA LvglTypes ==
  ASSUME TypeOK, LvglStep
  PROVE  Types'
<1> USE ThreadsFacts
<1>1. CASE LvglLock
  BY <1>1, SyncKeepsTypes, PcSets DEF RefreshPcs, WalkPcs, LvglPcs, LvglLock, MayGo, Locks
<1>2. CASE LvglUnlock
  BY <1>2, SyncKeepsTypes, PcSets DEF RefreshPcs, WalkPcs, LvglPcs, LvglUnlock, MayGo, Locks
<1> QED
  BY <1>1, <1>2 DEF LvglStep

LEMMA UserTypes ==
  ASSUME TypeOK, UserStep
  PROVE  Types'
<1> USE ThreadsFacts
<1>1. CASE Press
  <2>1. PcOK' /\ LocksOK' /\ ConnOK'
    BY <1>1 DEF Press, TypeOK, PcOK, LocksOK, ConnOK, locks, conn
  <2>2. ScanOK' /\ ListOK'
    BY <1>1, SameScan, SameList DEF Press
  <2>3. UiOK'
    BY <1>1, BoundsAssumption DEF Press, TypeOK, UiOK, ButtonsOn, Button, AllEvents
  <2> QED
    BY <2>1, <2>2, <2>3 DEF Types
<1>2. ASSUME NEW w \in Workers, Release(w) PROVE Types'
  <2>1. pressed \in Button
    BY <1>2 DEF Release, TypeOK, UiOK
  <2>2. FirstPc[pressed.event] \in {"open", "close", "conn_lock"}
        /\ (FirstPc[pressed.event] = "conn_lock" => pressed.slot # 0)
    BY <2>1 DEF FirstPc, Button, AllEvents, TypeOK, UiOK
  <2>3. PcOK'
    BY <1>2, <2>2, PcSets DEF Release, Goto, TypeOK, PcOK
  <2>4. LocksOK' /\ ScanOK' /\ ListOK'
    BY <1>2, SameScan, SameList DEF Release, TypeOK, LocksOK, locks
  <2>5. UiOK'
    BY <1>2 DEF Release, TypeOK, UiOK, NoButton
  <2>6. ConnOK'
    BY <1>2, <2>1, <2>2 DEF Release, Goto, TypeOK, UiOK, ConnOK, PcOK, AcceptPcs, Paths, Button
  <2> QED
    BY <2>3, <2>4, <2>5, <2>6 DEF Types
<1> QED
  BY <1>1, <1>2 DEF UserStep

\* refresh_ui begins a row only after it has found a node and room for it, and no
\* other thread touches the cursor or the buttons meanwhile.
LEMMA RowStays ==
  ASSUME TypeOK, [Next]_vars
  PROVE  RowOK'
<1> USE ThreadsFacts
<1>1. ASSUME NEW w \in Workers, NEW from, NEW to, Goto(w, from, to), UNCHANGED <<cur, buttons>>
      PROVE  RowOK'
  BY <1>1 DEF Goto, RowOK, RoomForRow, TypeOK, PcOK
<1>2. ASSUME NEW from, NEW to, Goto(Refresh, from, to), to # "row" PROVE RowOK'
  BY <1>2 DEF Goto, RowOK, TypeOK, PcOK
<1>3. ASSUME NEW w \in Workers, HandlerStep(w) PROVE RowOK'
  <2>1. CASE OpenStep(w)
    BY <1>1, <2>1 DEF OpenStep, OpenLoad, OpenUsing, OpenPresent, ScanLock, Lock, data, ui
  <2>2. CASE InitStep(w)
    BY <1>1, <2>2 DEF InitStep, InitCheck, InitMutexes, InitDone, InitFail, data, ui
  <2>3. CASE LoopStep(w)
    BY <1>1, <2>3 DEF LoopStep, UpdateStep, Start, Test, LoopAccepting, LoopMessage, LoopClean,
       LoopUnaccepting, LoopReset, Add, Link, UpdateDone, LoopUnmessage, Lock, Unlock, data, ui
  <2>4. CASE EndStep(w)
    BY <1>1, <2>4 DEF EndStep, Stop, EndAccepting, EndMessage, EndClean, EndUnaccepting,
       EndUnmessage, EndUnscan, Lock, Unlock, data, ui
  <2>5. CASE CloseStep(w) \/ ConnectStep(w)
    BY <1>1, <2>5 DEF CloseStep, ConnectStep, CloseUsing, CloseLoad, ClosePresent, ConnLock,
       Proxy, Connect, ConnUnlock, Lock, Unlock, data, ui
  <2> QED
    BY <1>3, <2>1, <2>2, <2>3, <2>4, <2>5 DEF HandlerStep
<1>4. CASE RefreshStep
  <2>1. CASE Walk
    BY <2>1 DEF Walk, RowOK, RoomForRow
  <2>2. CASE Switch
    BY <1>2, <2>2 DEF Switch
  <2> QED
    BY <1>2, <1>4, <2>1, <2>2 DEF RefreshStep, LabelLock, LabelUnlock, ListMessage, ListLvgl, Rebuild,
       Row, WalkDone, ListUnlvgl, ListUnmessage, Lock, Unlock
<1>5. CASE LvglStep
  <2>1. pc'[Refresh] = pc[Refresh] /\ UNCHANGED <<cur, buttons>>
    BY <1>5 DEF LvglStep, LvglLock, LvglUnlock, Lock, Unlock, Goto, TypeOK, PcOK, data, ui
  <2> QED
    BY <2>1 DEF TypeOK, RowOK, RoomForRow
<1>6. CASE UserStep
  <2>1. CASE Press
    BY <2>1 DEF Press, TypeOK, RowOK, RoomForRow
  <2>2. ASSUME NEW w \in Workers, Release(w) PROVE RowOK'
    BY <1>1, <2>2 DEF Release
  <2> QED
    BY <1>6, <2>1, <2>2 DEF UserStep
<1>7. CASE UNCHANGED vars
  BY <1>7 DEF vars, data, ui, TypeOK, RowOK, RoomForRow
<1> QED
  BY <1>3, <1>4, <1>5, <1>6, <1>7 DEF Next

LEMMA NextTypes == TypeOK /\ [Next]_vars => TypeOK'
<1> SUFFICES ASSUME TypeOK, [Next]_vars PROVE TypeOK'
  OBVIOUS
<1>1. ASSUME NEW w \in Workers, HandlerStep(w) PROVE Types'
  BY <1>1, OpenTypes, InitBluetoothTypes, LoopTypes, EndTypes, CloseTypes, ConnectTypes
     DEF HandlerStep
<1>2. ASSUME UNCHANGED vars PROVE Types'
  <2>1. ScanOK' /\ ListOK' /\ UiOK'
    BY <1>2, SameScan, SameList, SameUi DEF vars, data
  <2> QED
    BY <1>2, <2>1 DEF vars, data, locks, conn, TypeOK, Types, PcOK, LocksOK, ConnOK
<1>3. Types'
  BY <1>1, <1>2, RefreshTypes, LvglTypes, UserTypes DEF Next
<1> QED
  BY <1>3, RowStays DEF Types, TypeOK

LEMMA InitTypes == Init => TypeOK
<1> SUFFICES ASSUME Init PROVE TypeOK
  OBVIOUS
<1> USE ThreadsFacts, BoundsAssumption DEF Init
<1>1. PcOK
  BY DEF PcOK, WorkerPcs, RefreshPcs, WalkPcs, LvglPcs
<1>2. LocksOK /\ ScanOK
  <2>1. LocksOK
    BY DEF LocksOK
  <2>2. using \in BOOLEAN /\ initFlag \in BOOLEAN /\ discovering \in BOOLEAN
        /\ refused \in BOOLEAN
    OBVIOUS
  <2>3. adapter \in {"null", "valid", "freed"} /\ failures \in 0 .. MaxFailures
    OBVIOUS
  <2> QED
    BY <2>1, <2>2, <2>3, Zenon DEF ScanOK
<1>3. ListOK
  <2>1. <<>> \in Seq(Nodes) /\ {} \in SUBSET Devices
    OBVIOUS
  <2> QED
    BY <2>1 DEF ListOK, Crashes
<1>4. UiOK
  BY DEF UiOK, Screens, NoButton, Paths
<1>5. ConnOK
  BY DEF ConnOK, Paths, AcceptPcs
<1>6. RowOK
  BY DEF RowOK
<1> QED
  BY <1>1, <1>2, <1>3, <1>4, <1>5, <1>6 DEF TypeOK

\* Every variable keeps its type, no row passes MAX_SHOW_BLUETOOTH_DEVICE, a press
\* never outlives its list button and every connect has a slot to read.
THEOREM TypeCorrect == Spec => []TypeOK
BY InitTypes, NextTypes, PTL DEF Spec
-----------------------------------------------------------------------------
(* Every step is a step of this kind                                        *)

\* init_bluetooth clears the words of four mutexes.
LEMMA ClearStep ==
  ASSUME TypeOK, NEW w \in Workers, InitMutexes(w)
  PROVE  MutexStep
<1> SUFFICES ASSUME NEW m \in Locks PROVE Untouched(m) \/ Cleared(m)
  BY DEF MutexStep
<1>1. Inside(m)' = Inside(m)
  BY StayInside, ThreadsFacts, Sections DEF InitMutexes, Locks, LoopPcs, EndPcs, AcceptPcs
<1>2. pc[w] = "mutexes"
  BY DEF InitMutexes, Goto
<1> QED
  BY <1>1, <1>2 DEF InitMutexes, TypeOK, LocksOK, Untouched, Cleared

LEMMA OpenMutexes ==
  ASSUME TypeOK, NEW w \in Workers, OpenStep(w)
  PROVE  MutexStep
<1> USE ThreadsFacts, Sections DEF SameSections, LoopPcs, EndPcs, AcceptPcs, Locks
<1>1. CASE OpenLoad(w)
  BY <1>1, Stay DEF OpenLoad, locks
<1>2. CASE OpenUsing(w)
  BY <1>2, Stay DEF OpenUsing, locks
<1>3. CASE OpenPresent(w)
  BY <1>3, Stay DEF OpenPresent, locks
<1>4. CASE ScanLock(w)
  BY <1>4, Enter DEF ScanLock
<1> QED
  BY <1>1, <1>2, <1>3, <1>4 DEF OpenStep

LEMMA InitBluetoothMutexes ==
  ASSUME TypeOK, NEW w \in Workers, InitStep(w)
  PROVE  MutexStep
<1> USE ThreadsFacts, Sections DEF SameSections, LoopPcs, EndPcs, AcceptPcs, Locks
<1>1. CASE InitCheck(w)
  BY <1>1, Stay DEF InitCheck, locks
<1>2. CASE InitMutexes(w)
  BY <1>2, ClearStep
<1>3. CASE InitDone(w)
  BY <1>3, Stay DEF InitDone, locks
<1>4. CASE InitFail(w)
  BY <1>4, Stay DEF InitFail, locks
<1> QED
  BY <1>1, <1>2, <1>3, <1>4 DEF InitStep

LEMMA LoopMutexes ==
  ASSUME TypeOK, NEW w \in Workers, LoopStep(w)
  PROVE  MutexStep
<1> USE ThreadsFacts, Sections DEF SameSections, LoopPcs, EndPcs, AcceptPcs, Locks
<1>1. CASE Start(w)
  BY <1>1, Stay DEF Start, locks
<1>2. CASE Test(w)
  BY <1>2, Stay DEF Test, locks
<1>3. CASE LoopAccepting(w)
  BY <1>3, Enter DEF LoopAccepting
<1>4. CASE LoopMessage(w)
  BY <1>4, Enter DEF LoopMessage
<1>5. CASE LoopClean(w)
  BY <1>5, Stay DEF LoopClean, locks
<1>6. CASE LoopUnaccepting(w)
  BY <1>6, Leave DEF LoopUnaccepting
<1>7. CASE LoopReset(w)
  BY <1>7, Stay DEF LoopReset, locks
<1>8. CASE Add(w)
  BY <1>8, Stay DEF Add, locks
<1>9. CASE Link(w)
  BY <1>9, Stay DEF Link, locks
<1>10. CASE UpdateDone(w)
  BY <1>10, Stay DEF UpdateDone, locks
<1>11. CASE LoopUnmessage(w)
  BY <1>11, Leave DEF LoopUnmessage
<1> QED
  BY <1>1, <1>2, <1>3, <1>4, <1>5, <1>6, <1>7, <1>8, <1>9, <1>10, <1>11 DEF LoopStep, UpdateStep

LEMMA EndMutexes ==
  ASSUME TypeOK, NEW w \in Workers, EndStep(w)
  PROVE  MutexStep
<1> USE ThreadsFacts, Sections DEF SameSections, LoopPcs, EndPcs, AcceptPcs, Locks
<1>1. CASE Stop(w)
  <2>1. Goto(w, "stop", "end_accepting") /\ UNCHANGED locks
    BY <1>1, Zenon DEF Stop, locks
  <2> QED
    BY <2>1, Stay
<1>2. CASE EndAccepting(w)
  BY <1>2, Enter DEF EndAccepting
<1>3. CASE EndMessage(w)
  BY <1>3, Enter DEF EndMessage
<1>4. CASE EndClean(w)
  BY <1>4, Stay DEF EndClean, locks
<1>5. CASE EndUnaccepting(w)
  BY <1>5, Leave DEF EndUnaccepting
<1>6. CASE EndUnmessage(w)
  BY <1>6, Leave DEF EndUnmessage
<1>7. CASE EndUnscan(w)
  BY <1>7, Leave DEF EndUnscan
<1> QED
  BY <1>1, <1>2, <1>3, <1>4, <1>5, <1>6, <1>7 DEF EndStep

LEMMA CloseMutexes ==
  ASSUME TypeOK, NEW w \in Workers, CloseStep(w)
  PROVE  MutexStep
<1> USE ThreadsFacts, Sections DEF SameSections, LoopPcs, EndPcs, AcceptPcs, Locks
<1>1. CASE CloseUsing(w)
  BY <1>1, Stay DEF CloseUsing, locks
<1>2. CASE CloseLoad(w)
  BY <1>2, Stay DEF CloseLoad, locks
<1>3. CASE ClosePresent(w)
  BY <1>3, Stay DEF ClosePresent, locks
<1> QED
  BY <1>1, <1>2, <1>3 DEF CloseStep

LEMMA ConnectMutexes ==
  ASSUME TypeOK, NEW w \in Workers, ConnectStep(w)
  PROVE  MutexStep
<1> USE ThreadsFacts, Sections DEF SameSections, LoopPcs, EndPcs, AcceptPcs, Locks
<1>1. CASE ConnLock(w)
  BY <1>1, Enter DEF ConnLock
<1>2. CASE Proxy(w)
  BY <1>2, Stay DEF Proxy, locks
<1>3. CASE Connect(w)
  BY <1>3, Stay DEF Connect, locks
<1>4. CASE ConnUnlock(w)
  BY <1>4, Leave DEF ConnUnlock
<1> QED
  BY <1>1, <1>2, <1>3, <1>4 DEF ConnectStep

LEMMA RefreshMutexes ==
  ASSUME TypeOK, RefreshStep
  PROVE  MutexStep
<1> USE ThreadsFacts, Sections DEF SameSections, LoopPcs, EndPcs, AcceptPcs, Locks
<1>1. CASE LabelLock
  BY <1>1, Enter DEF LabelLock
<1>2. CASE LabelUnlock
  BY <1>2, Leave DEF LabelUnlock
<1>3. CASE Switch
  BY <1>3, Stay DEF Switch, locks
<1>4. CASE ListMessage
  BY <1>4, Enter DEF ListMessage
<1>5. CASE ListLvgl
  BY <1>5, Enter DEF ListLvgl
<1>6. CASE Rebuild
  BY <1>6, Stay DEF Rebuild, locks
<1>7. CASE Walk
  BY <1>7, Stay DEF Walk, locks
<1>8. CASE WalkDone
  BY <1>8, Stay DEF WalkDone, locks
<1>9. CASE ListUnlvgl
  BY <1>9, Leave DEF ListUnlvgl
<1>10. CASE ListUnmessage
  BY <1>10, Leave DEF ListUnmessage
<1>11. CASE Row
  BY <1>11, Stay DEF Row, locks
<1> QED
  BY <1>1, <1>2, <1>3, <1>4, <1>5, <1>6, <1>7, <1>8, <1>9, <1>10, <1>11 DEF RefreshStep

LEMMA LvglMutexes ==
  ASSUME TypeOK, LvglStep
  PROVE  MutexStep
<1> USE ThreadsFacts, Sections DEF SameSections, LoopPcs, EndPcs, AcceptPcs, Locks
<1>1. CASE LvglLock
  BY <1>1, Enter DEF LvglLock
<1>2. CASE LvglUnlock
  BY <1>2, Leave DEF LvglUnlock
<1> QED
  BY <1>1, <1>2 DEF LvglStep

LEMMA UserMutexes ==
  ASSUME TypeOK, UserStep
  PROVE  MutexStep
<1>1. CASE Press
  <2>1. pc' = pc /\ word' = word /\ tears' = tears
    BY <1>1 DEF Press, locks
  <2>2. ASSUME NEW m \in Locks PROVE Inside(m)' = Inside(m)
    BY <2>1 DEF Inside
  <2> QED
    BY <2>1, <2>2 DEF MutexStep, Untouched
<1>2. ASSUME NEW w \in Workers, Release(w) PROVE MutexStep
  <2>1. FirstPc[pressed.event] \in {"open", "close", "conn_lock"}
    BY <1>2 DEF Release, FirstPc, Button, AllEvents, TypeOK, UiOK
  <2>2. SameSections("idle", FirstPc[pressed.event], Locks)
    BY <2>1, Sections DEF SameSections, LoopPcs, EndPcs, AcceptPcs, Locks
  <2> QED
    BY <1>2, <2>2, Stay, ThreadsFacts DEF Release, locks
<1> QED
  BY <1>1, <1>2 DEF UserStep

LEMMA NextMutexes == TypeOK /\ [Next]_vars => MutexStep
<1> SUFFICES ASSUME TypeOK, [Next]_vars PROVE MutexStep
  OBVIOUS
<1>1. ASSUME NEW w \in Workers, HandlerStep(w) PROVE MutexStep
  BY <1>1, OpenMutexes, InitBluetoothMutexes, LoopMutexes, EndMutexes, CloseMutexes,
     ConnectMutexes DEF HandlerStep
<1>2. CASE UNCHANGED vars
  <2>1. pc' = pc /\ word' = word /\ tears' = tears
    BY <1>2 DEF vars, locks
  <2>2. ASSUME NEW m \in Locks PROVE Inside(m)' = Inside(m)
    BY <2>1 DEF Inside
  <2> QED
    BY <2>1, <2>2 DEF MutexStep, Untouched
<1> QED
  BY <1>1, <1>2, RefreshMutexes, LvglMutexes, UserMutexes DEF Next

-----------------------------------------------------------------------------
(* Mutual exclusion, up to the number of times a mutex was torn             *)

LEMMA NobodyInside ==
  ASSUME Init, NEW m \in Locks
  PROVE  Inside(m) = {} /\ word[m] = 0 /\ tears[m] = 0
<1>1. Inside(m) = {}
  BY Sections, ThreadsFacts DEF Init, Inside, Locks, LoopPcs, EndPcs, AcceptPcs
<1> QED
  BY <1>1 DEF Init

LEMMA InitDebt == Init => LockDebt
BY NobodyInside, FS_EmptySet DEF LockDebt

\* What a word that is cleared hides is debt from then on.
LEMMA NextDebt == TypeOK /\ LockDebt /\ [Next]_vars => LockDebt'
<1> SUFFICES ASSUME TypeOK, LockDebt, [Next]_vars, NEW m \in Locks
             PROVE  (Cardinality(Inside(m)) <= word[m] + tears[m])'
  BY DEF LockDebt
<1>1. /\ Cardinality(Inside(m)) <= word[m] + tears[m]
      /\ word[m] \in 0 .. 1 /\ tears[m] \in Nat /\ Cardinality(Inside(m)) \in Nat
  BY InsideCounts DEF LockDebt, TypeOK, LocksOK
<1>2. CASE Untouched(m) \/ Cleared(m)
  BY <1>1, <1>2 DEF Untouched, Cleared
<1>3. CASE Entered(m)
  BY <1>1, <1>3, EnteredCount DEF Entered
<1>4. CASE Left(m)
  <2>1. Cardinality(Inside(m)') = Cardinality(Inside(m)) - 1
    BY <1>4, LeftCount
  <2>2. word'[m] = 0 /\ tears'[m] = tears[m]
    BY <1>4 DEF Left
  <2> QED
    BY <1>1, <2>1, <2>2
<1> QED
  BY <1>2, <1>3, <1>4, NextMutexes DEF MutexStep

\* The sections of a mutex hold at most one thread, plus one for each time
\* init_bluetooth cleared its word while it was held.
THEOREM DebtBounded == Spec => []LockDebt
BY InitTypes, NextTypes, InitDebt, NextDebt, PTL DEF Spec

-----------------------------------------------------------------------------
(* Nobody waits in a circle                                                 *)

HeldIsOwned == \A m \in Locks : word[m] = 1 => Inside(m) # {}

LEMMA InitOwners == Init => HeldIsOwned
BY NobodyInside DEF HeldIsOwned

\* Whoever leaves a section clears the word, and whoever sets it enters.
LEMMA NextOwners == TypeOK /\ HeldIsOwned /\ [Next]_vars => HeldIsOwned'
<1> SUFFICES ASSUME TypeOK, HeldIsOwned, [Next]_vars, NEW m \in Locks, word'[m] = 1
             PROVE  Inside(m)' # {}
  BY DEF HeldIsOwned
<1>1. CASE Untouched(m)
  BY <1>1 DEF Untouched, HeldIsOwned
<1>2. CASE Entered(m)
  BY <1>2 DEF Entered
<1>3. ~Left(m) /\ ~Cleared(m)
  BY DEF Left, Cleared
<1> QED
  BY <1>1, <1>2, <1>3, NextMutexes DEF MutexStep

\* A thread in a section waits only for a mutex that is locked after it.
LEMMA LockOrder ==
  ASSUME TypeOK, NEW m \in Locks, NEW t \in Inside(m), NEW k \in Locks, pc[t] \in Waits[k]
  PROVE  k \in Behind[m]
BY Sections DEF Inside, Waits, Behind, Locks, LoopPcs, EndPcs, AcceptPcs

\* Following the waits from a held mutex ends at a thread that can go on.
LEMMA SomeoneGoesOn == TypeOK /\ HeldIsOwned => NoDeadlock
<1> DEFINE Goes(m) == \E k \in {m} \cup Behind[m] : \E t \in Inside(k) : ~Blocked(t)
<1> SUFFICES ASSUME TypeOK, HeldIsOwned
             PROVE  \A m \in Locks : word[m] = 1 => Goes(m)
  BY DEF NoDeadlock, HeldIsOwned
<1>1. ASSUME NEW m \in Locks, word[m] = 1, \A k \in Behind[m] : word[k] = 1 => Goes(k)
      PROVE  Goes(m)
  <2>1. PICK t \in Inside(m) : TRUE
    BY <1>1 DEF HeldIsOwned
  <2>2. CASE ~Blocked(t)
    BY <2>1, <2>2
  <2>3. CASE Blocked(t)
    <3>1. PICK k \in Locks : pc[t] \in Waits[k] /\ word[k] = 1
      BY <2>3 DEF Blocked
    <3>2. k \in Behind[m]
      BY <2>1, <3>1, LockOrder
    <3>3. Goes(k)
      BY <1>1, <3>1, <3>2
    <3>4. Behind[k] \subseteq Behind[m]
      BY <3>2 DEF Behind, Locks
    <3> QED
      BY <3>2, <3>3, <3>4
  <2> QED
    BY <2>2, <2>3
<1>2. Behind["lvgl"] = {} /\ Behind["send"] = {} /\ Behind["message"] = {"lvgl"}
      /\ Behind["accepting"] = {"message", "lvgl"} /\ Behind["scan"] = {"accepting", "message", "lvgl"}
  BY DEF Behind
<1>3. word["lvgl"] = 1 => Goes("lvgl")
  BY <1>1, <1>2 DEF Locks
<1>4. word["message"] = 1 => Goes("message")
  BY <1>1, <1>2, <1>3 DEF Locks
<1>5. word["accepting"] = 1 => Goes("accepting")
  BY <1>1, <1>2, <1>3, <1>4 DEF Locks
<1>6. word["scan"] = 1 => Goes("scan")
  BY <1>1, <1>2, <1>3, <1>4, <1>5 DEF Locks
<1>7. word["send"] = 1 => Goes("send")
  BY <1>1, <1>2 DEF Locks
<1> QED
  BY <1>3, <1>4, <1>5, <1>6, <1>7 DEF Locks

\* No mutex is left locked and no threads wait for each other in a circle, torn
\* mutexes or not: the order of the locks, and an unlock on every way out.
THEOREM DeadlockFree == Spec => []NoDeadlock
BY InitTypes, NextTypes, InitOwners, NextOwners, SomeoneGoesOn, PTL DEF Spec

-----------------------------------------------------------------------------
(* The damage of a tear passes                                              *)

\* Nobody clears a word again once an initialisation has succeeded.
LEMMA SettledStays ==
  ASSUME TypeOK, Settled, [Next]_vars
  PROVE  Settled'
<1> USE ThreadsFacts
<1>1. ASSUME NEW t \in Threads, NEW from, NEW to, Goto(t, from, to), to # "mutexes",
             initFlag' = TRUE
      PROVE  Settled'
  BY <1>1 DEF Goto, Settled, TypeOK, PcOK
<1>2. initFlag = TRUE /\ \A w \in Workers : pc[w] # "mutexes"
  BY DEF Settled, TypeOK, ScanOK
<1>3. ASSUME NEW w \in Workers, HandlerStep(w) PROVE Settled'
  <2>1. CASE OpenStep(w)
    BY <1>1, <1>2, <2>1 DEF OpenStep, OpenLoad, OpenUsing, OpenPresent, ScanLock, Lock, data, scan
  <2>2. CASE InitStep(w)
    BY <1>1, <1>2, <2>2 DEF InitStep, InitCheck, InitMutexes, InitDone, InitFail, data, scan, Goto
  <2>3. CASE LoopStep(w)
    BY <1>1, <1>2, <2>3 DEF LoopStep, UpdateStep, Start, Test, LoopAccepting, LoopMessage,
       LoopClean, LoopUnaccepting, LoopReset, Add, Link, UpdateDone, LoopUnmessage, Lock, Unlock,
       data, scan
  <2>4. CASE EndStep(w)
    BY <1>1, <1>2, <2>4 DEF EndStep, Stop, EndAccepting, EndMessage, EndClean, EndUnaccepting,
       EndUnmessage, EndUnscan, Lock, Unlock, data, scan
  <2>5. CASE CloseStep(w) \/ ConnectStep(w)
    BY <1>1, <1>2, <2>5 DEF CloseStep, ConnectStep, CloseUsing, CloseLoad, ClosePresent, ConnLock,
       Proxy, Connect, ConnUnlock, Lock, Unlock, data, scan
  <2> QED
    BY <1>3, <2>1, <2>2, <2>3, <2>4, <2>5 DEF HandlerStep
<1>4. CASE RefreshStep
  BY <1>1, <1>2, <1>4 DEF RefreshStep, LabelLock, LabelUnlock, Switch, ListMessage, ListLvgl,
     Rebuild, Walk, Row, WalkDone, ListUnlvgl, ListUnmessage, Lock, Unlock, data, scan
<1>5. CASE LvglStep
  BY <1>1, <1>2, <1>5 DEF LvglStep, LvglLock, LvglUnlock, Lock, Unlock, data, scan
<1>6. CASE Press
  BY <1>6 DEF Press, Settled, scan
<1>7. ASSUME NEW w \in Workers, Release(w) PROVE Settled'
  <2>1. FirstPc[pressed.event] \in {"open", "close", "conn_lock"}
    BY <1>7 DEF Release, FirstPc, Button, AllEvents, TypeOK, UiOK
  <2> QED
    BY <1>1, <1>2, <1>7, <2>1 DEF Release, scan
<1>8. CASE UNCHANGED vars
  BY <1>8 DEF vars, data, scan, Settled
<1> QED
  BY <1>3, <1>4, <1>5, <1>6, <1>7, <1>8 DEF Next, UserStep

LEMMA SoundStays ==
  ASSUME TypeOK, Settled, [Next]_vars, NEW m \in Locks, Sound(m)
  PROVE  Sound(m)'
<1>1. /\ Cardinality(Inside(m)) <= word[m] /\ word[m] \in 0 .. 1
      /\ Cardinality(Inside(m)) \in Nat
  BY InsideCounts DEF Sound, TypeOK, LocksOK
<1>2. CASE Untouched(m)
  BY <1>2 DEF Untouched, Sound
<1>3. CASE Entered(m)
  <2>1. Cardinality(Inside(m)') = Cardinality(Inside(m)) + 1
    BY <1>3, EnteredCount
  <2> QED
    BY <1>1, <1>3, <2>1 DEF Entered, Sound
<1>4. CASE Left(m)
  <2>1. Cardinality(Inside(m)') = Cardinality(Inside(m)) - 1
    BY <1>4, LeftCount
  <2>2. word'[m] = 0
    BY <1>4 DEF Left
  <2> QED
    BY <1>1, <2>1, <2>2 DEF Sound
<1>5. ~Cleared(m)
  BY DEF Cleared, Settled
<1> QED
  BY <1>2, <1>3, <1>4, <1>5, NextMutexes DEF MutexStep

\* Once an initialisation has succeeded and none is about to clear the words, a
\* mutex that has shed its surplus owners excludes for good.
THEOREM HealSafe == Spec => MutexesHeal
<1>1. TypeOK /\ [Next]_vars =>
        [\A m \in Locks : Settled /\ Sound(m) => (Settled /\ Sound(m))']_vars
  BY SettledStays, SoundStays
<1> QED
  BY <1>1, InitTypes, NextTypes, PTL DEF Spec, MutexesHeal
=============================================================================
