------------------------- MODULE BluetoothScanProofs -------------------------
(* What a scan leaves behind: list nodes and BlueZ's discovery both have a *)
(* scan thread that is still going to clean up after itself.  And what a   *)
(* scan shows: the list and its picture implement DeviceBoard.             *)
EXTENDS BluetoothListProofs

\* Where a scan thread is still going to free the list, and to stop discovery.
Stopping == LoopPcs \cup {"stop"}
Cleaning == Stopping \cup {"end_accepting", "end_message", "end_clean"}

Some(S) == \E w \in Workers : pc[w] \in S

\* A step that does not leave S leaves some thread there.
LEMMA MoveKeeps ==
  ASSUME TypeOK, NEW S, NEW t \in Threads, NEW from, NEW to, Goto(t, from, to),
         from \in S => to \in S, Some(S)
  PROVE  Some(S)'
BY ThreadsFacts DEF Goto, TypeOK, PcOK, Some

LEMMA ArriveIn ==
  ASSUME TypeOK, NEW S, NEW w \in Workers, NEW from, NEW to, Goto(w, from, to), to \in S
  PROVE  Some(S)'
BY ThreadsFacts DEF Goto, TypeOK, PcOK, Some

-----------------------------------------------------------------------------
(* Nodes have an owner                                                      *)

Owned == Live = {} \/ Some(Cleaning)

LEMMA HeapKeepsOwned ==
  ASSUME TypeOK, Owned, NEW t \in Threads, NEW from, NEW to, Goto(t, from, to),
         from \in Cleaning => to \in Cleaning, UNCHANGED heap
  PROVE  Owned'
BY MoveKeeps DEF Owned, Live

LEMMA HandlerKeepsOwned ==
  ASSUME TypeOK, LockDebt, tears["message"] = 0, ListParts, Owned,
         NEW w \in Workers, HandlerStep(w)
  PROVE  Owned'
<1> USE ThreadsFacts
<1>1. CASE OpenStep(w)
  BY <1>1, HeapKeepsOwned DEF OpenStep, OpenLoad, OpenUsing, OpenPresent, ScanLock, Lock, list, data,
     Cleaning, Stopping, LoopPcs
<1>2. CASE InitStep(w)
  <2>1. CASE InitCheck(w)
    BY <2>1, HeapKeepsOwned DEF InitCheck, list, data, Cleaning, Stopping, LoopPcs
  <2>2. CASE InitMutexes(w)
    BY <2>2, HeapKeepsOwned DEF InitMutexes, list, data, Cleaning, Stopping, LoopPcs
  <2>3. CASE InitDone(w) \/ InitFail(w)
    BY <2>3, HeapKeepsOwned DEF InitDone, InitFail, list, Cleaning, Stopping, LoopPcs
  <2> QED
    BY <1>2, <2>1, <2>2, <2>3 DEF InitStep
<1>3. CASE LoopStep(w)
  <2>1. CASE Start(w) \/ Test(w)
    BY <2>1, HeapKeepsOwned DEF Start, Test, list, data, Cleaning, Stopping, LoopPcs
  <2>2. CASE LoopAccepting(w) \/ LoopMessage(w)
    BY <2>2, HeapKeepsOwned DEF LoopAccepting, LoopMessage, Lock, list, data, Cleaning, Stopping, LoopPcs
  <2>3. CASE LoopClean(w)
    BY <2>3, ArriveIn DEF LoopClean, Owned, Cleaning, Stopping, LoopPcs
  <2>4. CASE LoopUnaccepting(w) \/ LoopUnmessage(w)
    BY <2>4, HeapKeepsOwned DEF LoopUnaccepting, LoopUnmessage, Unlock, list, data, Cleaning, Stopping, LoopPcs
  <2>5. CASE LoopReset(w) \/ Link(w) \/ UpdateDone(w)
    BY <2>5, HeapKeepsOwned DEF LoopReset, Link, UpdateDone, Cleaning, Stopping, LoopPcs
  <2>6. CASE Add(w)
    BY <2>6, ArriveIn DEF Add, Owned, Cleaning, Stopping, LoopPcs
  <2> QED
    BY <1>3, <2>1, <2>2, <2>3, <2>4, <2>5, <2>6 DEF LoopStep, UpdateStep
<1>4. CASE EndStep(w)
  <2>1. CASE Stop(w) \/ EndAccepting(w) \/ EndMessage(w)
    BY <2>1, HeapKeepsOwned DEF Stop, EndAccepting, EndMessage, Lock, list, data, Cleaning, Stopping, LoopPcs
  <2>2. CASE EndClean(w)
    BY <2>2, WholeNow, CleanFreesAll, Sections DEF EndClean, Between, Freed, Owned
  <2>3. CASE EndUnaccepting(w) \/ EndUnmessage(w) \/ EndUnscan(w)
    BY <2>3, HeapKeepsOwned DEF EndUnaccepting, EndUnmessage, EndUnscan, Unlock, list, data, Cleaning, Stopping, LoopPcs
  <2> QED
    BY <1>4, <2>1, <2>2, <2>3 DEF EndStep
<1>5. CASE CloseStep(w)
  BY <1>5, HeapKeepsOwned DEF CloseStep, CloseUsing, CloseLoad, ClosePresent, list, Cleaning, Stopping, LoopPcs
<1>6. CASE ConnectStep(w)
  BY <1>6, HeapKeepsOwned DEF ConnectStep, ConnLock, Proxy, Connect, ConnUnlock, Lock, Unlock, list, data,
     Cleaning, Stopping, LoopPcs
<1> QED
  BY <1>1, <1>2, <1>3, <1>4, <1>5, <1>6 DEF HandlerStep

\* refresh_ui and lvgl_thread are no scan threads and touch no node.
LEMMA OthersMoveAside ==
  ASSUME TypeOK, RefreshStep \/ LvglStep \/ UserStep, NEW S, S \subseteq {"start"} \cup Cleaning
  PROVE  UNCHANGED <<heap, scan>> /\ (Some(S) => Some(S)')
<1> USE ThreadsFacts
<1>1. ASSUME NEW t \in {Refresh, Lvgl}, NEW from, NEW to, Goto(t, from, to)
      PROVE  Some(S) => Some(S)'
  BY <1>1 DEF Goto, TypeOK, PcOK, Some
<1>2. CASE RefreshStep
  BY <1>1, <1>2 DEF RefreshStep, LabelLock, LabelUnlock, Switch, ListMessage, ListLvgl, Rebuild, Walk,
     Row, WalkDone, ListUnlvgl, ListUnmessage, Lock, Unlock, data, list
<1>3. CASE LvglStep
  BY <1>1, <1>3 DEF LvglStep, LvglLock, LvglUnlock, Lock, Unlock, data, list
<1>4. CASE Press
  BY <1>4 DEF Press, list, Some
<1>5. ASSUME NEW w \in Workers, Release(w) PROVE UNCHANGED <<heap, scan>> /\ (Some(S) => Some(S)')
  <2>1. "idle" \notin S
    BY DEF Cleaning, Stopping, LoopPcs
  <2> QED
    BY <1>5, <2>1, MoveKeeps DEF Release, list
<1> QED
  BY <1>2, <1>3, <1>4, <1>5 DEF UserStep

OwnedInv == tears["message"] = 0 => Owned

LEMMA InitOwned == Init => OwnedInv
BY DEF Init, OwnedInv, Owned, Live

LEMMA NextOwned == TypeOK /\ LockDebt /\ ListInv /\ OwnedInv /\ [Next]_vars => OwnedInv'
<1> SUFFICES ASSUME TypeOK, LockDebt, ListInv, OwnedInv, [Next]_vars, tears'["message"] = 0
             PROVE  Owned'
  BY DEF OwnedInv
<1>1. tears["message"] = 0 /\ ListParts /\ Owned
  BY TearsGrow DEF Locks, ListInv, OwnedInv
<1>2. CASE RefreshStep \/ LvglStep \/ UserStep
  BY <1>1, <1>2, OthersMoveAside DEF Owned, Live
<1>3. CASE UNCHANGED vars
  BY <1>1, <1>3 DEF vars, data, list, Owned, Live, Some
<1> QED
  BY <1>1, <1>2, <1>3, HandlerKeepsOwned DEF Next

LEMMA OwnedNow == OwnedInv => ListOwned
BY DEF OwnedInv, Owned, Some, Cleaning, Stopping, ListOwned

\* While the message mutex was never torn, nodes exist only while some scan
\* thread is still going to free them: none outlives the scans.
THEOREM OwnedSafe == Spec => []ListOwned
BY InitTypes, NextTypes, InitDebt, NextDebt, InitList, NextList, InitOwned, NextOwned, OwnedNow,
   PTL DEF Spec

-----------------------------------------------------------------------------
(* Discovery has an owner                                                   *)

\* Without a failed initialisation the adapter is there for every scan.
ScanPcs == {"start"} \cup Stopping

Ready ==
  /\ initFlag => adapter = "valid"
  /\ \A w \in Workers : pc[w] \in ScanPcs => initFlag

ReadyInv == failures = 0 => Ready

LEMMA ScanKeepsReady ==
  ASSUME TypeOK, Ready, NEW t \in Threads, NEW from, NEW to, Goto(t, from, to),
         to \in ScanPcs => from \in ScanPcs \/ initFlag, UNCHANGED <<initFlag, adapter>>
  PROVE  Ready'
<1>1. ASSUME NEW w \in Workers, pc'[w] \in ScanPcs PROVE initFlag
  BY <1>1, ThreadsFacts DEF Goto, TypeOK, PcOK, Ready
<1> QED
  BY <1>1 DEF Ready

LEMMA HandlerKeepsReady ==
  ASSUME TypeOK, Ready, failures = 0, failures' = 0, NEW w \in Workers, HandlerStep(w)
  PROVE  Ready'
<1> USE ThreadsFacts
<1> USE DEF ScanPcs, Stopping, LoopPcs
<1>1. CASE OpenStep(w)
  BY <1>1, ScanKeepsReady DEF OpenStep, OpenLoad, OpenUsing, OpenPresent, ScanLock, Lock, scan, data
<1>2. CASE InitStep(w)
  <2>1. CASE InitCheck(w)
    BY <2>1, ScanKeepsReady DEF InitCheck, scan, data
  <2>2. CASE InitMutexes(w)
    BY <2>2, ScanKeepsReady DEF InitMutexes, scan, data
  <2>3. CASE InitDone(w)
    BY <2>3 DEF InitDone, Ready
  <2>4. ~InitFail(w)
    BY DEF InitFail
  <2> QED
    BY <1>2, <2>1, <2>2, <2>3, <2>4 DEF InitStep
<1>3. CASE LoopStep(w)
  <2>1. CASE Start(w)
    BY <2>1, ScanKeepsReady DEF Start
  <2>2. CASE Test(w)
    BY <2>2, ScanKeepsReady DEF Test, scan, data
  <2>3. CASE LoopAccepting(w) \/ LoopMessage(w)
    BY <2>3, ScanKeepsReady DEF LoopAccepting, LoopMessage, Lock, scan, data
  <2>4. CASE LoopClean(w) \/ LoopReset(w)
    BY <2>4, ScanKeepsReady DEF LoopClean, LoopReset, scan
  <2>5. CASE LoopUnaccepting(w) \/ LoopUnmessage(w)
    BY <2>5, ScanKeepsReady DEF LoopUnaccepting, LoopUnmessage, Unlock, scan, data
  <2>6. CASE Add(w) \/ Link(w) \/ UpdateDone(w)
    BY <2>6, ScanKeepsReady DEF Add, Link, UpdateDone, scan
  <2> QED
    BY <1>3, <2>1, <2>2, <2>3, <2>4, <2>5, <2>6 DEF LoopStep, UpdateStep
<1>4. CASE EndStep(w)
  <2>1. CASE Stop(w)
    <3>1. Goto(w, "stop", "end_accepting") /\ UNCHANGED <<initFlag, adapter>>
      BY <2>1, Zenon DEF Stop
    <3> QED
      BY <3>1, ScanKeepsReady
  <2>2. CASE EndAccepting(w) \/ EndMessage(w)
    BY <2>2, ScanKeepsReady DEF EndAccepting, EndMessage, Lock, scan, data
  <2>3. CASE EndClean(w)
    BY <2>3, ScanKeepsReady DEF EndClean, scan
  <2>4. CASE EndUnaccepting(w) \/ EndUnmessage(w) \/ EndUnscan(w)
    BY <2>4, ScanKeepsReady DEF EndUnaccepting, EndUnmessage, EndUnscan, Unlock, scan, data
  <2> QED
    BY <1>4, <2>1, <2>2, <2>3, <2>4 DEF EndStep
<1>5. CASE CloseStep(w)
  BY <1>5, ScanKeepsReady DEF CloseStep, CloseUsing, CloseLoad, ClosePresent, scan
<1>6. CASE ConnectStep(w)
  BY <1>6, ScanKeepsReady DEF ConnectStep, ConnLock, Proxy, Connect, ConnUnlock, Lock, Unlock, scan, data
<1> QED
  BY <1>1, <1>2, <1>3, <1>4, <1>5, <1>6 DEF HandlerStep

LEMMA InitReady == Init => ReadyInv
BY ThreadsFacts DEF Init, ReadyInv, Ready, ScanPcs, Stopping, LoopPcs

\* A failed initialisation is never forgotten.
LEMMA FailuresGrow ==
  ASSUME TypeOK, NEW w \in Workers, HandlerStep(w), failures' = 0
  PROVE  failures = 0
<1>1. failures \in Nat
  BY BoundsAssumption DEF TypeOK, ScanOK
<1>2. CASE OpenStep(w) \/ CloseStep(w) \/ ConnectStep(w)
  BY <1>2 DEF OpenStep, OpenLoad, OpenUsing, OpenPresent, ScanLock, CloseStep, CloseUsing, CloseLoad,
     ClosePresent, ConnectStep, ConnLock, Proxy, Connect, ConnUnlock, Lock, Unlock, scan, data
<1>3. CASE InitStep(w)
  BY <1>1, <1>3 DEF InitStep, InitCheck, InitMutexes, InitDone, InitFail, scan, data
<1>4. CASE LoopStep(w)
  BY <1>4 DEF LoopStep, UpdateStep, Start, Test, LoopAccepting, LoopMessage, LoopClean,
     LoopUnaccepting, LoopReset, Add, Link, UpdateDone, LoopUnmessage, Lock, Unlock, scan, data
<1>5. CASE EndStep(w)
  BY <1>5 DEF EndStep, Stop, EndAccepting, EndMessage, EndClean, EndUnaccepting, EndUnmessage,
     EndUnscan, Lock, Unlock, scan, data
<1> QED
  BY <1>2, <1>3, <1>4, <1>5 DEF HandlerStep

LEMMA NextReady == TypeOK /\ ReadyInv /\ [Next]_vars => ReadyInv'
<1> SUFFICES ASSUME TypeOK, ReadyInv, [Next]_vars, failures' = 0 PROVE Ready'
  BY DEF ReadyInv
<1>1. ASSUME NEW w \in Workers, HandlerStep(w) PROVE Ready'
  BY <1>1, FailuresGrow, HandlerKeepsReady DEF ReadyInv
<1>2. ASSUME UNCHANGED scan, \A w \in Workers : pc'[w] \in ScanPcs => pc[w] \in ScanPcs
      PROVE  Ready'
  BY <1>2 DEF scan, Ready, ReadyInv
<1>3. CASE RefreshStep \/ LvglStep \/ UserStep
  <2>1. UNCHANGED scan
    BY <1>3, OthersMoveAside
  <2>2. ASSUME NEW w \in Workers, pc'[w] \in ScanPcs PROVE pc[w] \in ScanPcs
    <3> USE ThreadsFacts DEF ScanPcs, Stopping, LoopPcs
    <3>1. CASE RefreshStep
      BY <2>2, <3>1 DEF RefreshStep, LabelLock, LabelUnlock, Switch, ListMessage, ListLvgl, Rebuild,
         Walk, Row, WalkDone, ListUnlvgl, ListUnmessage, Lock, Unlock, Goto, TypeOK, PcOK
    <3>2. CASE LvglStep
      BY <2>2, <3>2 DEF LvglStep, LvglLock, LvglUnlock, Lock, Unlock, Goto, TypeOK, PcOK
    <3>3. CASE Press
      BY <2>2, <3>3 DEF Press
    <3>4. ASSUME NEW v \in Workers, Release(v) PROVE pc[w] \in ScanPcs
      <4>1. FirstPc[pressed.event] \in {"open", "close", "conn_lock"}
        BY <3>4 DEF Release, FirstPc, Button, AllEvents, TypeOK, UiOK
      <4> QED
        BY <2>2, <3>4, <4>1 DEF Release, Goto, TypeOK, PcOK
    <3> QED
      BY <1>3, <3>1, <3>2, <3>3, <3>4 DEF UserStep
  <2> QED
    BY <1>2, <2>1, <2>2
<1>4. CASE UNCHANGED vars
  BY <1>2, <1>4 DEF vars, data
<1> QED
  BY <1>1, <1>3, <1>4 DEF Next

\* Whoever leaves a scan has asked BlueZ to stop, unless the adapter is gone.
LEMMA ScanKeepsDiscovery ==
  ASSUME TypeOK, DiscoveryOwned, NEW t \in Threads, NEW from, NEW to, Goto(t, from, to),
         from \in ScanPcs => to \in ScanPcs, UNCHANGED <<adapter, failures, discovering, refused>>
  PROVE  DiscoveryOwned'
<1>1. Some(ScanPcs) => Some(ScanPcs)'
  BY MoveKeeps
<1> QED
  BY <1>1 DEF DiscoveryOwned, Lost, Some, ScanPcs, Stopping

LEMMA ScanningOwns ==
  ASSUME TypeOK, NEW w \in Workers, NEW from, NEW to, Goto(w, from, to), to \in ScanPcs
  PROVE  DiscoveryOwned'
<1>1. Some(ScanPcs)'
  BY ArriveIn
<1> QED
  BY <1>1 DEF DiscoveryOwned, Some, ScanPcs, Stopping

LEMMA HandlerKeepsDiscovery ==
  ASSUME TypeOK, ReadyInv, DiscoveryOwned, NEW w \in Workers, HandlerStep(w)
  PROVE  DiscoveryOwned'
<1> USE ThreadsFacts
<1> USE DEF ScanPcs, Stopping, LoopPcs
<1>1. CASE OpenStep(w)
  BY <1>1, ScanKeepsDiscovery DEF OpenStep, OpenLoad, OpenUsing, OpenPresent, ScanLock, Lock, scan, data
<1>2. CASE InitStep(w)
  <2>1. CASE InitCheck(w) \/ InitMutexes(w)
    BY <2>1, ScanKeepsDiscovery DEF InitCheck, InitMutexes, scan, data
  <2>2. CASE InitDone(w) \/ InitFail(w)
    BY <2>2, ScanningOwns DEF InitDone, InitFail
  <2> QED
    BY <1>2, <2>1, <2>2 DEF InitStep
<1>3. CASE LoopStep(w)
  <2>1. CASE Start(w)
    BY <2>1, ScanningOwns DEF Start
  <2>2. CASE Test(w)
    BY <2>2, ScanningOwns DEF Test
  <2>3. CASE LoopAccepting(w) \/ LoopMessage(w)
    BY <2>3, ScanningOwns DEF LoopAccepting, LoopMessage, Lock
  <2>4. CASE LoopClean(w) \/ LoopReset(w)
    BY <2>4, ScanningOwns DEF LoopClean, LoopReset
  <2>5. CASE LoopUnaccepting(w) \/ LoopUnmessage(w)
    BY <2>5, ScanningOwns DEF LoopUnaccepting, LoopUnmessage, Unlock
  <2>6. CASE Add(w) \/ Link(w) \/ UpdateDone(w)
    BY <2>6, ScanningOwns DEF Add, Link, UpdateDone
  <2> QED
    BY <1>3, <2>1, <2>2, <2>3, <2>4, <2>5, <2>6 DEF LoopStep, UpdateStep
<1>4. CASE EndStep(w)
  <2>1. CASE Stop(w)
    <3>1. CASE adapter = "valid"
      <4>1. refused' = discovering'
        BY <2>1, <3>1, Zenon DEF Stop
      <4> QED
        BY <4>1 DEF DiscoveryOwned
    <3>2. CASE adapter # "valid"
      <4>1. pc[w] = "stop" /\ adapter' = adapter /\ failures' = failures
        BY <2>1, Zenon DEF Stop, Goto
      <4>2. failures # 0
        BY <3>2, <4>1 DEF ReadyInv, Ready
      <4>3. failures \in Nat
        BY BoundsAssumption DEF TypeOK, ScanOK
      <4> QED
        BY <3>2, <4>1, <4>2, <4>3 DEF DiscoveryOwned, Lost
    <3> QED
      BY <3>1, <3>2
  <2>2. CASE EndAccepting(w) \/ EndMessage(w)
    BY <2>2, ScanKeepsDiscovery DEF EndAccepting, EndMessage, Lock, scan, data
  <2>3. CASE EndClean(w)
    BY <2>3, ScanKeepsDiscovery DEF EndClean, scan
  <2>4. CASE EndUnaccepting(w) \/ EndUnmessage(w) \/ EndUnscan(w)
    BY <2>4, ScanKeepsDiscovery DEF EndUnaccepting, EndUnmessage, EndUnscan, Unlock, scan, data
  <2> QED
    BY <1>4, <2>1, <2>2, <2>3, <2>4 DEF EndStep
<1>5. CASE CloseStep(w)
  BY <1>5, ScanKeepsDiscovery DEF CloseStep, CloseUsing, CloseLoad, ClosePresent, scan
<1>6. CASE ConnectStep(w)
  BY <1>6, ScanKeepsDiscovery DEF ConnectStep, ConnLock, Proxy, Connect, ConnUnlock, Lock, Unlock, scan, data
<1> QED
  BY <1>1, <1>2, <1>3, <1>4, <1>5, <1>6 DEF HandlerStep

LEMMA InitDiscovery == Init => DiscoveryOwned
BY DEF Init, DiscoveryOwned

LEMMA NextDiscovery == TypeOK /\ ReadyInv /\ DiscoveryOwned /\ [Next]_vars => DiscoveryOwned'
<1> SUFFICES ASSUME TypeOK, ReadyInv, DiscoveryOwned, [Next]_vars PROVE DiscoveryOwned'
  OBVIOUS
<1>1. ASSUME UNCHANGED scan, Some(ScanPcs) => Some(ScanPcs)' PROVE DiscoveryOwned'
  BY <1>1 DEF scan, DiscoveryOwned, Lost, Some, ScanPcs, Stopping
<1>2. CASE RefreshStep \/ LvglStep \/ UserStep
  <2>1. UNCHANGED scan /\ (Some(ScanPcs) => Some(ScanPcs)')
    <3>1. ScanPcs \subseteq {"start"} \cup Cleaning
      BY DEF ScanPcs, Cleaning
    <3> QED
      BY <1>2, <3>1, OthersMoveAside
  <2> QED
    BY <1>1, <2>1
<1>3. CASE UNCHANGED vars
  BY <1>1, <1>3 DEF vars, data, Some
<1> QED
  BY <1>2, <1>3, HandlerKeepsDiscovery DEF Next

\* However openings and closings overlap and initialisations fail, BlueZ discovers
\* without a scan thread that is still going to stop it only if it refused the last
\* StopDiscovery it was sent or a failed initialisation has taken the adapter away.
THEOREM DiscoverySafe == Spec => []DiscoveryOwned
BY InitTypes, NextTypes, InitReady, NextReady, InitDiscovery, NextDiscovery, PTL DEF Spec

-----------------------------------------------------------------------------
(* The list is a board.  A scan visits each object of the manager once, so  *)
(* no device is in the list twice: what a node shows is not visited again.  *)

Visiting == {"update", "link"}
Building == {"loop_unaccepting", "loop_reset", "loop_unmessage"} \cup Visiting

OneNodeEach == \A m, n \in Live : heap[m] = heap[n] => m = n
Unvisited   == \A w \in Workers : pc[w] \in Visiting => \A n \in Live : heap[n] \notin todo[w]
Fresh       == OneNodeEach /\ Unvisited
FreshInv    == tears["message"] = 0 => Fresh

\* What the refinement mapping makes of the board and of the picture.
Listed     == [i \in 1 .. Len(head) |-> heap[head[i]]]
NowBoard   == IF Updating THEN <<>> ELSE Listed
NowPicture == IF pc[Refresh] \in WalkPcs THEN Rows(head) ELSE buttons

Unseen == UNCHANGED <<NowBoard, NowPicture>>
Seen   == Unseen \/ Board!Clear \/ Board!Publish \/ Board!Draw

LEMMA UpdatingMeans == Updating <=> Some(Building)
BY DEF Updating, Some, Building, Visiting

LEMMA UpdatingMeansNext == Updating' <=> Some(Building)'
BY DEF Updating, Some, Building, Visiting

LEMMA NothingListed == [i \in 1 .. 0 |-> heap[head[i]]] = <<>> /\ Len(<<>>) = 0
OBVIOUS

\* A list without nodes has nothing twice.
LEMMA EmptyIsFresh == Live' = {} => Fresh'
BY DEF Fresh, OneNodeEach, Unvisited

\* A complete list of distinct devices can be published.
LEMMA Publishable ==
  ASSUME TypeOK, Fresh, Whole(head)
  PROVE  Listed \in Seq(Devices) /\ IsInjective(Listed) /\ Len(Listed) = Len(head)
<1>1. Len(head) \in Nat /\ DOMAIN head = 1 .. Len(head) /\ DOMAIN Listed = 1 .. Len(head)
  BY DEF TypeOK, ListOK, Listed
<1>2. ASSUME NEW i \in 1 .. Len(head)
      PROVE  head[i] \in Live /\ Listed[i] = heap[head[i]] /\ Listed[i] \in Devices
  <2>1. head[i] \in Live
    BY <1>1, <1>2 DEF Whole, ToSet
  <2> QED
    BY <2>1 DEF Live, Listed, TypeOK, ListOK
<1>3. Listed \in [1 .. Len(head) -> Devices]
  BY <1>2 DEF Listed
<1>4. IsInjective(Listed)
  BY <1>1, <1>2 DEF IsInjective, Whole, Fresh, OneNodeEach
<1> QED
  BY <1>1, <1>3, <1>4

-----------------------------------------------------------------------------
(* Steps nobody sees                                                        *)

Plain(from, to) ==
  /\ from \in Building <=> to \in Building
  /\ to \in Visiting => from \in Visiting
  /\ from \in WalkPcs <=> to \in WalkPcs

LEMMA PlainIsUnseen ==
  ASSUME TypeOK, Fresh, NEW t \in Threads, NEW from, NEW to, Goto(t, from, to), Plain(from, to),
         UNCHANGED <<heap, head, todo, buttons>>
  PROVE  Fresh' /\ Unseen
<1>1. ASSUME NEW u \in Threads
      PROVE  /\ pc'[u] \in Building <=> pc[u] \in Building
             /\ pc'[u] \in Visiting => pc[u] \in Visiting
             /\ pc'[u] \in WalkPcs <=> pc[u] \in WalkPcs
  BY DEF Goto, Plain, TypeOK, PcOK
<1>2. Fresh'
  BY <1>1, ThreadsFacts DEF Fresh, OneNodeEach, Unvisited, Live
<1>3. Updating' <=> Updating
  BY <1>1, ThreadsFacts, UpdatingMeans, UpdatingMeansNext DEF Some
<1>4. NowBoard' = NowBoard
  BY <1>3 DEF NowBoard, Listed
<1>5. NowPicture' = NowPicture
  BY <1>1, ThreadsFacts DEF NowPicture, Rows
<1> QED
  BY <1>2, <1>4, <1>5 DEF Unseen

-----------------------------------------------------------------------------
(* The steps of a scanner that holds the message mutex                      *)

LEMMA BuilderStep ==
  ASSUME TypeOK, LockDebt, tears["message"] = 0, NEW w \in Workers, NEW from, NEW to,
         Goto(w, from, to), from \in Section["message"]
  PROVE  /\ pc[w] = from /\ pc'[w] = to
         /\ Updating <=> from \in Building
         /\ Updating' <=> to \in Building
         /\ \A v \in Workers \ {w} : pc'[v] \notin Visiting
         /\ NowPicture = buttons /\ NowPicture' = buttons'
<1> USE ThreadsFacts
<1>1. pc[w] = from /\ pc'[w] = to
  BY DEF Goto, TypeOK, PcOK
<1>2. ASSUME NEW u \in Threads \ {w}
      PROVE  pc'[u] = pc[u] /\ pc[u] \notin Building /\ pc[u] \notin WalkPcs
  <2>1. pc'[u] = pc[u]
    BY DEF Goto, TypeOK, PcOK
  <2>2. pc[u] \notin Section["message"]
    BY <1>1, Alone DEF Locks
  <2> QED
    BY <2>1, <2>2, Sections DEF Building, Visiting, WalkPcs
<1>3. Updating <=> from \in Building
  BY <1>1, <1>2, UpdatingMeans DEF Some
<1>4. Updating' <=> to \in Building
  BY <1>1, <1>2, UpdatingMeansNext DEF Some
<1>5. \A v \in Workers \ {w} : pc'[v] \notin Visiting
  BY <1>2 DEF Building
<1>6. NowPicture = buttons /\ NowPicture' = buttons'
  BY <1>2 DEF NowPicture
<1> QED
  BY <1>1, <1>3, <1>4, <1>5, <1>6

\* Between the clean and the unlock the board is empty, whatever the list is.
LEMMA BuildingIsUnseen ==
  ASSUME TypeOK, LockDebt, tears["message"] = 0, NEW w \in Workers, NEW from, NEW to,
         Goto(w, from, to), from \in Building, to \in Building, UNCHANGED buttons
  PROVE  Unseen
<1>1. from \in Section["message"]
  BY Sections DEF Building, Visiting
<1> QED
  BY <1>1, BuilderStep DEF Unseen, NowBoard

LEMMA LoopCleanClears ==
  ASSUME TypeOK, LockDebt, tears["message"] = 0, ListParts, NEW w \in Workers, LoopClean(w)
  PROVE  Fresh' /\ Board!Clear
<1>1. Fresh'
  BY WholeNow, CleanFreesAll, Sections, EmptyIsFresh DEF LoopClean, Between, Freed
<1>2. Updating' /\ NowPicture = buttons /\ NowPicture' = buttons'
  BY BuilderStep, Sections DEF LoopClean, Building
<1> QED
  BY <1>1, <1>2 DEF LoopClean, ui, Board!Clear, NowPicture

LEMMA EndCleanClears ==
  ASSUME TypeOK, LockDebt, tears["message"] = 0, ListParts, NEW w \in Workers, EndClean(w)
  PROVE  Fresh' /\ Board!Clear
<1>1. Fresh'
  BY WholeNow, CleanFreesAll, Sections, EmptyIsFresh DEF EndClean, Between, Freed
<1>2. NowPicture = buttons /\ NowPicture' = buttons'
  BY BuilderStep, Sections DEF EndClean
<1>3. Listed' = <<>>
  BY DEF EndClean, Listed
<1> QED
  BY <1>1, <1>2, <1>3 DEF EndClean, ui, Board!Clear, NowPicture, Listed

LEMMA LoopResetIsUnseen ==
  ASSUME TypeOK, LockDebt, tears["message"] = 0, ListParts, NEW w \in Workers, LoopReset(w)
  PROVE  Fresh' /\ Unseen
<1>1. Live = {}
  BY ScannerStep, Sections DEF LoopReset, ListParts, FreedEmpty, Freed
<1>2. Live' = {}
  BY <1>1 DEF LoopReset, Live
<1> QED
  BY <1>2, EmptyIsFresh, BuildingIsUnseen DEF LoopReset, ui, Building, Visiting

LEMMA AddIsUnseen ==
  ASSUME TypeOK, LockDebt, tears["message"] = 0, ListParts, Fresh, NEW w \in Workers, Add(w)
  PROVE  Fresh' /\ Unseen
<1>1. PICK d \in todo[w] : /\ heap' = [heap EXCEPT ![FreeNode] = d]
                           /\ todo' = [todo EXCEPT ![w] = @ \ {d}]
  BY DEF Add
<1>2. /\ pc[w] = "update" /\ \A v \in Workers \ {w} : pc'[v] \notin Visiting
  BY BuilderStep, Sections DEF Add
<1>3. FreeNode \in Nodes /\ heap[FreeNode] = NoDevice
  BY FreeNodeIsFree DEF Add
<1>4. d # NoDevice /\ todo'[w] = todo[w] \ {d}
  BY <1>1, DevicesAssumption DEF TypeOK, ListOK
<1>5. /\ Live' = {FreeNode} \cup Live /\ FreeNode \notin Live
      /\ heap'[FreeNode] = d /\ \A n \in Live : heap'[n] = heap[n]
  BY <1>1, <1>3, <1>4 DEF Live, TypeOK, ListOK
<1>6. \A n \in Live : heap[n] \notin todo[w]
  BY <1>2 DEF Fresh, Unvisited, Visiting
<1>7. OneNodeEach'
  BY <1>5, <1>6 DEF Fresh, OneNodeEach
<1>8. Unvisited'
  BY <1>2, <1>4, <1>5, <1>6 DEF Unvisited
<1> QED
  BY <1>7, <1>8, BuildingIsUnseen DEF Add, ui, Building, Visiting, Fresh

LEMMA LinkIsUnseen ==
  ASSUME TypeOK, LockDebt, tears["message"] = 0, Fresh, NEW w \in Workers, Link(w) \/ UpdateDone(w)
  PROVE  Fresh' /\ Unseen
<1>1. /\ pc[w] \in Visiting /\ \A v \in Workers \ {w} : pc'[v] \notin Visiting
      /\ todo'[w] = todo[w] \/ todo'[w] = {}
      /\ UNCHANGED heap
  BY BuilderStep, Sections DEF Link, UpdateDone, Visiting, TypeOK, ListOK
<1>2. Fresh'
  BY <1>1 DEF Fresh, OneNodeEach, Unvisited, Live
<1>3. Unseen
  BY BuildingIsUnseen DEF Link, UpdateDone, ui, Building, Visiting
<1> QED
  BY <1>2, <1>3

LEMMA LoopUnmessagePublishes ==
  ASSUME TypeOK, LockDebt, tears["message"] = 0, ListParts, Fresh, NEW w \in Workers, LoopUnmessage(w)
  PROVE  Fresh' /\ Board!Publish
<1>1. Goto(w, "loop_unmessage", "test") /\ UNCHANGED <<heap, head, todo, buttons>>
  BY DEF LoopUnmessage, Unlock, data, list, ui
<1>2. /\ pc'[w] = "test" /\ Updating /\ ~Updating'
      /\ \A v \in Workers \ {w} : pc'[v] \notin Visiting
      /\ NowPicture = buttons /\ NowPicture' = buttons'
  BY <1>1, BuilderStep, Sections DEF Building, Visiting
<1>3. Fresh'
  BY <1>1, <1>2 DEF Fresh, OneNodeEach, Unvisited, Live, Visiting
<1>4. Whole(head)
  BY <1>1, WholeNow, Sections DEF Between, Freed
<1>5. Listed' \in Seq(Devices) /\ IsInjective(Listed')
  <2>1. Listed' = Listed
    BY <1>1 DEF Listed
  <2> QED
    BY <1>4, <2>1, Publishable
<1> QED
  BY <1>1, <1>2, <1>3, <1>5 DEF Board!Publish, Board!IsInjective, IsInjective, Listed, NowPicture

-----------------------------------------------------------------------------
(* The steps of refresh_ui that draw the list                               *)

LEMMA DrawerStep ==
  ASSUME TypeOK, LockDebt, tears["message"] = 0, Fresh, NEW from, NEW to, Goto(Refresh, from, to),
         from \in Section["message"], UNCHANGED <<heap, head, todo>>
  PROVE  /\ pc[Refresh] = from /\ pc'[Refresh] = to
         /\ ~Updating /\ ~Updating' /\ Fresh'
<1> USE ThreadsFacts
<1>1. pc[Refresh] = from /\ pc'[Refresh] = to
  BY DEF Goto, TypeOK, PcOK
<1>2. ASSUME NEW w \in Workers PROVE pc'[w] = pc[w] /\ pc[w] \notin Building
  <2>1. pc'[w] = pc[w]
    BY DEF Goto, TypeOK, PcOK
  <2>2. pc[w] \notin Section["message"]
    BY <1>1, Alone DEF Locks
  <2> QED
    BY <2>1, <2>2, Sections DEF Building, Visiting
<1>3. ~Updating /\ ~Updating'
  BY <1>2, UpdatingMeans, UpdatingMeansNext DEF Some
<1>4. Fresh'
  BY <1>2 DEF Fresh, OneNodeEach, Unvisited, Live, Building
<1> QED
  BY <1>1, <1>3, <1>4

LEMMA RebuildDraws ==
  ASSUME TypeOK, LockDebt, tears["message"] = 0, ListParts, Fresh, Rebuild
  PROVE  Fresh' /\ Board!Draw
<1>1. Goto(Refresh, "rebuild", "walk") /\ UNCHANGED <<heap, head, todo>>
  BY DEF Rebuild, list
<1>2. pc[Refresh] = "rebuild" /\ pc'[Refresh] = "walk" /\ ~Updating /\ ~Updating' /\ Fresh'
  BY <1>1, DrawerStep, Sections
<1>3. Len(Listed) = Len(head)
  BY <1>2, RefreshSeesWhole, Publishable, Sections
<1>4. Rows(head)' = [i \in 1 .. (IF Len(Listed) < MaxShow THEN Len(Listed) ELSE MaxShow) |-> Listed[i]]
  <2>1. Len(head) \in Nat /\ MaxShow \in Nat
    BY BoundsAssumption DEF TypeOK, ListOK
  <2>2. \A i \in 1 .. (IF Len(head) < MaxShow THEN Len(head) ELSE MaxShow) : Listed[i] = heap[head[i]]
    BY <2>1 DEF Listed
  <2> QED
    BY <1>1, <1>3, <2>2 DEF Rows
<1> QED
  BY <1>1, <1>2, <1>4 DEF Board!Draw, Listed, WalkPcs

LEMMA WalkIsUnseen ==
  ASSUME TypeOK, LockDebt, tears["message"] = 0, ListParts, Fresh, Walk \/ Row
  PROVE  Fresh' /\ Unseen
<1>1. PICK from \in WalkPcs, to \in WalkPcs :
        Goto(Refresh, from, to) /\ UNCHANGED <<heap, head, todo>>
  BY DEF Walk, Row, list, WalkPcs
<1>2. pc[Refresh] = from /\ pc'[Refresh] = to /\ ~Updating /\ ~Updating' /\ Fresh'
  BY <1>1, DrawerStep, Sections DEF WalkPcs
<1> QED
  BY <1>1, <1>2 DEF Unseen, NowBoard, NowPicture, Listed, Rows

LEMMA WalkDoneIsUnseen ==
  ASSUME TypeOK, LockDebt, tears["message"] = 0, ListParts, Fresh, WalkDone
  PROVE  Fresh' /\ Unseen
<1>1. Goto(Refresh, "walk", "list_unlvgl") /\ UNCHANGED <<heap, head, todo, buttons>>
  BY DEF WalkDone, list
<1>2. pc[Refresh] = "walk" /\ pc'[Refresh] = "list_unlvgl" /\ ~Updating /\ ~Updating' /\ Fresh'
  BY <1>1, DrawerStep, Sections
<1>3. Len(buttons) = Shown /\ \A i \in 1 .. Shown : buttons[i] = heap[head[i]]
  <2>1. Displayed'
    BY WalkDoneKeepsList DEF ListParts
  <2> QED
    BY <1>1, <1>2, <2>1 DEF Displayed, Drawn, Shown
<1>4. Rows(head) = buttons
  <2>1. buttons = [i \in 1 .. Shown |-> buttons[i]]
    BY <1>3 DEF TypeOK, UiOK
  <2>2. Rows(head) = [i \in 1 .. Shown |-> heap[head[i]]]
    BY DEF Rows, Shown
  <2> QED
    BY <1>3, <2>1, <2>2
<1> QED
  BY <1>1, <1>2, <1>4 DEF Unseen, NowBoard, NowPicture, Listed, WalkPcs

-----------------------------------------------------------------------------
(* Every step                                                               *)

LEMMA OpeningIsUnseen ==
  ASSUME TypeOK, LockDebt, tears["message"] = 0, ListParts, Fresh, NEW w \in Workers, OpenStep(w) \/ InitStep(w)
  PROVE  Fresh' /\ Unseen
<1> USE ThreadsFacts
<1>1. CASE OpenLoad(w)
  BY <1>1, PlainIsUnseen DEF OpenLoad, Plain, Building, Visiting, WalkPcs, list, ui
<1>2. CASE OpenUsing(w)
  BY <1>2, PlainIsUnseen DEF OpenUsing, Plain, Building, Visiting, WalkPcs, list, ui
<1>3. CASE OpenPresent(w)
  BY <1>3, PlainIsUnseen DEF OpenPresent, Plain, Building, Visiting, WalkPcs, list, ui
<1>4. CASE ScanLock(w)
  BY <1>4, PlainIsUnseen DEF ScanLock, Plain, Building, Visiting, WalkPcs, Lock, data, list, ui
<1>5. CASE InitCheck(w)
  BY <1>5, PlainIsUnseen DEF InitCheck, Plain, Building, Visiting, WalkPcs, data, list, ui
<1>6. CASE InitMutexes(w)
  BY <1>6, PlainIsUnseen DEF InitMutexes, Plain, Building, Visiting, WalkPcs, data, list, ui
<1>7. CASE InitDone(w)
  BY <1>7, PlainIsUnseen DEF InitDone, Plain, Building, Visiting, WalkPcs, list, ui
<1>8. CASE InitFail(w)
  BY <1>8, PlainIsUnseen DEF InitFail, Plain, Building, Visiting, WalkPcs, list, ui
<1> QED
  BY <1>1, <1>2, <1>3, <1>4, <1>5, <1>6, <1>7, <1>8 DEF OpenStep, InitStep

LEMMA LoopIsSeen ==
  ASSUME TypeOK, LockDebt, tears["message"] = 0, ListParts, Fresh, NEW w \in Workers, LoopStep(w)
  PROVE  Fresh' /\ Seen
<1> USE ThreadsFacts
<1>1. CASE Start(w)
  BY <1>1, PlainIsUnseen DEF Start, Plain, Building, Visiting, WalkPcs, list, ui, Seen
<1>2. CASE Test(w)
  BY <1>2, PlainIsUnseen DEF Test, Plain, Building, Visiting, WalkPcs, data, list, ui, Seen
<1>3. CASE LoopAccepting(w)
  BY <1>3, PlainIsUnseen DEF LoopAccepting, Plain, Building, Visiting, WalkPcs, Lock, data, list, ui, Seen
<1>4. CASE LoopMessage(w)
  BY <1>4, PlainIsUnseen DEF LoopMessage, Plain, Building, Visiting, WalkPcs, Lock, data, list, ui, Seen
<1>5. CASE LoopClean(w)
  BY <1>5, LoopCleanClears DEF Seen
<1>6. CASE LoopUnaccepting(w)
  BY <1>6, PlainIsUnseen DEF LoopUnaccepting, Plain, Building, Visiting, WalkPcs, Unlock, data, list, ui, Seen
<1>7. CASE LoopReset(w)
  BY <1>7, LoopResetIsUnseen DEF Seen
<1>8. CASE Add(w)
  BY <1>8, AddIsUnseen DEF Seen
<1>9. CASE Link(w) \/ UpdateDone(w)
  BY <1>9, LinkIsUnseen DEF Seen
<1>10. CASE LoopUnmessage(w)
  BY <1>10, LoopUnmessagePublishes DEF Seen
<1> QED
  BY <1>1, <1>2, <1>3, <1>4, <1>5, <1>6, <1>7, <1>8, <1>9, <1>10 DEF LoopStep, UpdateStep

LEMMA EndIsSeen ==
  ASSUME TypeOK, LockDebt, tears["message"] = 0, ListParts, Fresh, NEW w \in Workers, EndStep(w)
  PROVE  Fresh' /\ Seen
<1> USE ThreadsFacts
<1>1. CASE Stop(w)
  BY <1>1, PlainIsUnseen DEF Stop, Plain, Building, Visiting, WalkPcs, list, ui, Seen
<1>2. CASE EndAccepting(w)
  BY <1>2, PlainIsUnseen DEF EndAccepting, Plain, Building, Visiting, WalkPcs, Lock, data, list, ui, Seen
<1>3. CASE EndMessage(w)
  BY <1>3, PlainIsUnseen DEF EndMessage, Plain, Building, Visiting, WalkPcs, Lock, data, list, ui, Seen
<1>4. CASE EndClean(w)
  BY <1>4, EndCleanClears DEF Seen
<1>5. CASE EndUnaccepting(w)
  BY <1>5, PlainIsUnseen DEF EndUnaccepting, Plain, Building, Visiting, WalkPcs, Unlock, data, list, ui, Seen
<1>6. CASE EndUnmessage(w)
  BY <1>6, PlainIsUnseen DEF EndUnmessage, Plain, Building, Visiting, WalkPcs, Unlock, data, list, ui, Seen
<1>7. CASE EndUnscan(w)
  BY <1>7, PlainIsUnseen DEF EndUnscan, Plain, Building, Visiting, WalkPcs, Unlock, data, list, ui, Seen
<1> QED
  BY <1>1, <1>2, <1>3, <1>4, <1>5, <1>6, <1>7 DEF EndStep

LEMMA HandlingIsUnseen ==
  ASSUME TypeOK, LockDebt, tears["message"] = 0, ListParts, Fresh, NEW w \in Workers, CloseStep(w) \/ ConnectStep(w)
  PROVE  Fresh' /\ Unseen
<1> USE ThreadsFacts
<1>1. CASE CloseUsing(w)
  BY <1>1, PlainIsUnseen DEF CloseUsing, Plain, Building, Visiting, WalkPcs, list, ui
<1>2. CASE CloseLoad(w)
  BY <1>2, PlainIsUnseen DEF CloseLoad, Plain, Building, Visiting, WalkPcs, list, ui
<1>3. CASE ClosePresent(w)
  BY <1>3, PlainIsUnseen DEF ClosePresent, Plain, Building, Visiting, WalkPcs, list, ui
<1>4. CASE ConnLock(w)
  BY <1>4, PlainIsUnseen DEF ConnLock, Plain, Building, Visiting, WalkPcs, Lock, data, list, ui
<1>5. CASE Proxy(w)
  BY <1>5, PlainIsUnseen DEF Proxy, Plain, Building, Visiting, WalkPcs, list, ui
<1>6. CASE Connect(w)
  BY <1>6, PlainIsUnseen DEF Connect, Plain, Building, Visiting, WalkPcs, data, list, ui
<1>7. CASE ConnUnlock(w)
  BY <1>7, PlainIsUnseen DEF ConnUnlock, Plain, Building, Visiting, WalkPcs, Unlock, data, list, ui
<1> QED
  BY <1>1, <1>2, <1>3, <1>4, <1>5, <1>6, <1>7 DEF CloseStep, ConnectStep

LEMMA RefreshIsSeen ==
  ASSUME TypeOK, LockDebt, tears["message"] = 0, ListParts, Fresh, RefreshStep
  PROVE  Fresh' /\ Seen
<1> USE ThreadsFacts
<1>1. CASE LabelLock
  BY <1>1, PlainIsUnseen DEF LabelLock, Plain, Building, Visiting, WalkPcs, Lock, data, list, ui, Seen
<1>2. CASE LabelUnlock
  BY <1>2, PlainIsUnseen DEF LabelUnlock, Plain, Building, Visiting, WalkPcs, Unlock, data, list, ui, Seen
<1>3. CASE Switch
  BY <1>3, PlainIsUnseen DEF Switch, Plain, Building, Visiting, WalkPcs, data, list, ui, Seen
<1>4. CASE ListMessage
  BY <1>4, PlainIsUnseen DEF ListMessage, Plain, Building, Visiting, WalkPcs, Lock, data, list, ui, Seen
<1>5. CASE ListLvgl
  BY <1>5, PlainIsUnseen DEF ListLvgl, Plain, Building, Visiting, WalkPcs, Lock, data, list, ui, Seen
<1>6. CASE Rebuild
  BY <1>6, RebuildDraws DEF Seen
<1>7. CASE Walk \/ Row
  BY <1>7, WalkIsUnseen DEF Seen
<1>8. CASE WalkDone
  BY <1>8, WalkDoneIsUnseen DEF Seen
<1>9. CASE ListUnlvgl
  BY <1>9, PlainIsUnseen DEF ListUnlvgl, Plain, Building, Visiting, WalkPcs, Unlock, data, list, ui, Seen
<1>10. CASE ListUnmessage
  BY <1>10, PlainIsUnseen DEF ListUnmessage, Plain, Building, Visiting, WalkPcs, Unlock, data, list, ui, Seen
<1> QED
  BY <1>1, <1>2, <1>3, <1>4, <1>5, <1>6, <1>7, <1>8, <1>9, <1>10 DEF RefreshStep

LEMMA TouchesAreUnseen ==
  ASSUME TypeOK, Fresh, LvglStep \/ UserStep
  PROVE  Fresh' /\ Unseen
<1> USE ThreadsFacts
<1>1. CASE LvglLock
  BY <1>1, PlainIsUnseen DEF LvglLock, Plain, Building, Visiting, WalkPcs, Lock, data, list, ui
<1>2. CASE LvglUnlock
  BY <1>2, PlainIsUnseen DEF LvglUnlock, Plain, Building, Visiting, WalkPcs, Unlock, data, list, ui
<1>3. CASE Press
  BY <1>3 DEF Press, list, Fresh, OneNodeEach, Unvisited, Live, Unseen, NowBoard, NowPicture, Listed,
     Updating, Rows
<1>4. ASSUME NEW w \in Workers, Release(w) PROVE Fresh' /\ Unseen
  <2>1. FirstPc[pressed.event] \in {"open", "close", "conn_lock"}
    BY <1>4 DEF Release, FirstPc, Button, AllEvents, TypeOK, UiOK
  <2>2. Plain("idle", FirstPc[pressed.event])
    BY <2>1 DEF Plain, Building, Visiting, WalkPcs
  <2> QED
    BY <1>4, <2>2, PlainIsUnseen DEF Release, list
<1> QED
  BY <1>1, <1>2, <1>3, <1>4 DEF LvglStep, UserStep

LEMMA NextSeen ==
  ASSUME TypeOK, LockDebt, ListInv, FreshInv, [Next]_vars, tears["message"] = 0
  PROVE  Fresh' /\ Seen
<1>1. ListParts /\ Fresh
  BY DEF ListInv, FreshInv
<1>2. ASSUME NEW w \in Workers, HandlerStep(w) PROVE Fresh' /\ Seen
  BY <1>1, <1>2, OpeningIsUnseen, LoopIsSeen, EndIsSeen, HandlingIsUnseen DEF HandlerStep, Seen
<1>3. CASE RefreshStep
  BY <1>1, <1>3, RefreshIsSeen
<1>4. CASE LvglStep \/ UserStep
  BY <1>1, <1>4, TouchesAreUnseen DEF Seen
<1>5. CASE UNCHANGED vars
  BY <1>1, <1>5 DEF vars, data, list, ui, Fresh, OneNodeEach, Unvisited, Live, Seen, Unseen, NowBoard,
     NowPicture, Listed, Updating, Rows
<1> QED
  BY <1>2, <1>3, <1>4, <1>5 DEF Next

LEMMA InitFresh == Init => FreshInv
BY DEF Init, FreshInv, Fresh, OneNodeEach, Unvisited, Live

LEMMA NextFresh == TypeOK /\ LockDebt /\ ListInv /\ FreshInv /\ [Next]_vars => FreshInv'
BY NextSeen, TearsGrow DEF FreshInv, Locks

LEMMA InitBoard == Init => Board!Init
<1> SUFFICES ASSUME Init PROVE Board!Init
  OBVIOUS
<1>1. ~Updating /\ pc[Refresh] \notin WalkPcs
  BY ThreadsFacts DEF Init, Updating, WalkPcs
<1>2. Listed = <<>>
  BY DEF Init, Listed
<1> QED
  BY <1>1, <1>2 DEF Init, Board!Init, Listed, Locks

LEMMA NextBoard == TypeOK /\ LockDebt /\ ListInv /\ FreshInv /\ [Next]_vars => [Board!Next]_(Board!vars)
<1> SUFFICES ASSUME TypeOK, LockDebt, ListInv, FreshInv, [Next]_vars PROVE [Board!Next]_(Board!vars)
  OBVIOUS
<1>1. CASE tears'["message"] # 0
  BY <1>1 DEF Board!Next, Board!Damaged
<1>2. CASE tears'["message"] = 0
  <2>1. tears["message"] = 0
    BY <1>2, TearsGrow DEF Locks
  <2>2. Board!Hold
    BY <1>2, <2>1 DEF Board!Hold
  <2>3. Unseen \/ Board!Clear \/ Board!Publish \/ Board!Draw
    BY <2>1, NextSeen DEF Seen
  <2>4. CASE Unseen
    BY <2>2, <2>4 DEF Board!Hold, Board!vars, Unseen, NowBoard, NowPicture, Listed
  <2> QED
    BY <2>2, <2>3, <2>4 DEF Board!Next
<1> QED
  BY <1>1, <1>2

\* The device list implements the board: what a scan found is published at once,
\* without repetition and only over an empty list, and what refresh_ui shows was
\* drawn at once from a published list, as long as the message mutex of the list
\* was never initialised while held.
THEOREM BoardImplements == Spec => BoardSpec
BY InitTypes, NextTypes, InitDebt, NextDebt, InitList, NextList, InitFresh, NextFresh, InitBoard,
   NextBoard, PTL DEF Spec, BoardSpec, Board!Spec

=============================================================================
