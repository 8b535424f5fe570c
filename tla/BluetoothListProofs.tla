------------------------- MODULE BluetoothListProofs -------------------------
(* The list of devices is safe while the message mutex was never torn, and *)
(* no list node is freed under a connect while the accepting mutex was not. *)
EXTENDS BluetoothProofs

-----------------------------------------------------------------------------
(* Mutual exclusion of a mutex that was never torn                          *)

LEMMA AtMostOne ==
  ASSUME TypeOK, LockDebt, NEW m \in Locks, tears[m] = 0,
         NEW s \in Inside(m), NEW t \in Inside(m)
  PROVE  s = t
<1> SUFFICES ASSUME s # t PROVE FALSE
  OBVIOUS
<1>1. IsFiniteSet(Inside(m)) /\ Cardinality(Inside(m)) \in Nat
  BY InsideCounts
<1>2. Cardinality(Inside(m)) <= 1
  <2>1. word[m] \in 0 .. 1 /\ Cardinality(Inside(m)) <= word[m] + tears[m]
    BY DEF TypeOK, LocksOK, LockDebt
  <2> QED
    BY <1>1, <2>1
<1>3. IsFiniteSet({s}) /\ Cardinality({s}) = 1
  BY FS_Singleton
<1>4. IsFiniteSet({s} \cup {t}) /\ Cardinality({s} \cup {t}) = 2
  <2>1. /\ IsFiniteSet({s} \cup {t})
        /\ Cardinality({s} \cup {t}) =
             IF t \in {s} THEN Cardinality({s}) ELSE Cardinality({s}) + 1
    BY <1>3, FS_AddElement
  <2> QED
    BY <1>3, <2>1
<1>5. {s} \cup {t} \subseteq Inside(m)
  OBVIOUS
<1>6. Cardinality({s} \cup {t}) <= Cardinality(Inside(m))
  BY <1>1, <1>5, FS_Subset
<1> QED
  BY <1>1, <1>2, <1>4, <1>6

\* A free word that was never torn means an empty section.
LEMMA FreeMeansEmpty ==
  ASSUME TypeOK, LockDebt, NEW m \in Locks, tears[m] = 0, word[m] = 0
  PROVE  Inside(m) = {}
<1>1. IsFiniteSet(Inside(m)) /\ Cardinality(Inside(m)) \in Nat
  BY InsideCounts
<1>2. Cardinality(Inside(m)) = 0
  BY <1>1 DEF LockDebt
<1> QED
  BY <1>1, <1>2, FS_EmptySet

LEMMA Alone ==
  ASSUME TypeOK, LockDebt, NEW m \in Locks, tears[m] = 0,
         NEW t \in Threads, pc[t] \in Section[m], NEW u \in Threads, u # t
  PROVE  pc[u] \notin Section[m]
BY AtMostOne DEF Inside

\* Tears are never undone.
LEMMA TearsGrow ==
  ASSUME TypeOK, [Next]_vars, NEW m \in Locks, tears'[m] = 0
  PROVE  tears[m] = 0
<1>1. ASSUME NEW w \in Workers, InitMutexes(w) PROVE tears[m] = 0
  BY <1>1 DEF InitMutexes, TypeOK, LocksOK
<1>2. CASE UNCHANGED tears
  BY <1>2
<1>3. ASSUME NEW w \in Workers, HandlerStep(w) PROVE tears[m] = 0
  BY <1>1, <1>2, <1>3 DEF HandlerStep, OpenStep, InitStep, LoopStep, UpdateStep, EndStep,
     CloseStep, ConnectStep, OpenLoad, OpenUsing, OpenPresent, ScanLock, InitCheck, InitDone,
     InitFail, Start, Test, LoopAccepting, LoopMessage, LoopClean, LoopUnaccepting, LoopReset,
     Add, Link, UpdateDone, LoopUnmessage, Stop, EndAccepting, EndMessage, EndClean,
     EndUnaccepting, EndUnmessage, EndUnscan, CloseUsing, CloseLoad, ClosePresent, ConnLock,
     Proxy, Connect, ConnUnlock, Lock, Unlock, locks
<1>4. CASE RefreshStep
  BY <1>2, <1>4 DEF RefreshStep, LabelLock, LabelUnlock, Switch, ListMessage, ListLvgl, Rebuild,
     Walk, Row, WalkDone, ListUnlvgl, ListUnmessage, Lock, Unlock, locks
<1>5. CASE LvglStep \/ UserStep
  BY <1>2, <1>5 DEF LvglStep, UserStep, LvglLock, LvglUnlock, Press, Release, Lock, Unlock, locks
<1>6. CASE UNCHANGED vars
  BY <1>2, <1>6 DEF vars, locks
<1> QED
  BY <1>3, <1>4, <1>5, <1>6 DEF Next

-----------------------------------------------------------------------------
(* The inductive invariant.  Who may be where in the message section decides *)
(* what the list is: whole, freed but still headed, or one node ahead of its *)
(* head; and what refresh_ui has copied is the front of a list that cannot   *)
(* change under it.                                                          *)

Freed   == {"loop_unaccepting", "loop_reset"}
Between == Freed \cup {"link"}
Drawn   == {"list_unlvgl", "list_unmessage"}

Whole(s) == Live = ToSet(s) /\ IsInjective(s)

ListWhole  == (\A w \in Workers : pc[w] \notin Between) => Whole(head)
FreedEmpty == \A w \in Workers : pc[w] \in Freed => Live = {}
LinkWhole  == \A w \in Workers : pc[w] = "link" => Whole(tmp[w])
NoBadFree  == crash \notin {"double free", "freed node"}

Walked ==
  pc[Refresh] \in WalkPcs =>
    /\ Len(buttons) + Len(cur) = Len(head)
    /\ \A i \in 1 .. Len(cur) : cur[i] = head[Len(buttons) + i]
    /\ \A i \in 1 .. Len(buttons) : buttons[i] = heap[head[i]]

Shown == IF Len(head) < MaxShow THEN Len(head) ELSE MaxShow

Displayed ==
  pc[Refresh] \in Drawn =>
    Len(buttons) = Shown /\ \A i \in 1 .. Shown : buttons[i] = heap[head[i]]

ListParts == ListWhole /\ FreedEmpty /\ LinkWhole /\ NoBadFree /\ Walked /\ Displayed
ListInv   == tears["message"] = 0 => ListParts

-----------------------------------------------------------------------------
(* Chains                                                                   *)

LEMMA EmptyChain == ToSet(<<>>) = {} /\ IsInjective(<<>>)
BY DEF ToSet, IsInjective

\* A node put before a chain it is not in.
LEMMA Prepend ==
  ASSUME NEW s \in Seq(Nodes), NEW n \in Nodes, n \notin ToSet(s), IsInjective(s),
         NEW c, c = <<n>> \o s
  PROVE  ToSet(c) = {n} \cup ToSet(s) /\ IsInjective(c)
<1>1. /\ Len(c) = Len(s) + 1 /\ c[1] = n /\ Len(s) \in Nat
      /\ DOMAIN c = 1 .. Len(c) /\ DOMAIN s = 1 .. Len(s)
  OBVIOUS
<1>2. \A i \in 2 .. Len(c) : c[i] = s[i - 1]
  OBVIOUS
<1>3. \A i \in 1 .. Len(s) : s[i] = c[i + 1]
  OBVIOUS
<1>4. ToSet(c) \subseteq {n} \cup ToSet(s)
  <2> SUFFICES ASSUME NEW i \in DOMAIN c PROVE c[i] \in {n} \cup ToSet(s)
    BY DEF ToSet
  <2>1. CASE i = 1
    BY <1>1, <2>1
  <2>2. CASE i # 1
    <3>1. i - 1 \in DOMAIN s /\ c[i] = s[i - 1]
      BY <1>1, <1>2, <2>2
    <3> QED
      BY <3>1 DEF ToSet
  <2> QED
    BY <2>1, <2>2
<1>5. {n} \cup ToSet(s) \subseteq ToSet(c)
  <2>1. n \in ToSet(c)
    <3>1. 1 \in DOMAIN c
      BY <1>1
    <3> QED
      BY <1>1, <3>1 DEF ToSet
  <2>2. ASSUME NEW i \in DOMAIN s PROVE s[i] \in ToSet(c)
    <3>1. i + 1 \in DOMAIN c /\ s[i] = c[i + 1]
      BY <1>1, <1>3
    <3> QED
      BY <3>1 DEF ToSet
  <2> QED
    BY <2>1, <2>2 DEF ToSet
<1>6. IsInjective(c)
  <2> SUFFICES ASSUME NEW i \in DOMAIN c, NEW j \in DOMAIN c, c[i] = c[j] PROVE i = j
    BY DEF IsInjective
  <2>1. \A a \in DOMAIN s : s[a] # n
    BY DEF ToSet
  <2>2. CASE i = 1 \/ j = 1
    BY <1>1, <1>2, <2>1, <2>2
  <2>3. CASE i # 1 /\ j # 1
    <3>1. i - 1 \in DOMAIN s /\ j - 1 \in DOMAIN s /\ s[i - 1] = s[j - 1]
      BY <1>1, <1>2, <2>3
    <3>2. i - 1 = j - 1
      BY <3>1 DEF IsInjective
    <3> QED
      BY <1>1, <3>2
  <2> QED
    BY <2>2, <2>3
<1>7. ToSet(c) = {n} \cup ToSet(s)
  BY <1>4, <1>5
<1> QED
  BY <1>6, <1>7

-----------------------------------------------------------------------------
(* Steps that leave the list and its picture alone                          *)

Quiet(from, to) ==
  /\ from \in Freed <=> to \in Freed
  /\ from = "link" <=> to = "link"
  /\ to \in WalkPcs => from \in WalkPcs
  /\ to \in Drawn => from \in Drawn

LEMMA QuietKeepsList ==
  ASSUME TypeOK, ListParts, NEW t \in Threads, NEW from, NEW to, Goto(t, from, to),
         Quiet(from, to), UNCHANGED <<heap, head, tmp, buttons, cur>>, NoBadFree'
  PROVE  ListParts'
<1> USE ThreadsFacts
<1>1. ASSUME NEW w \in Threads
      PROVE  /\ pc'[w] \in Freed <=> pc[w] \in Freed
             /\ pc'[w] = "link" <=> pc[w] = "link"
             /\ pc'[w] \in WalkPcs => pc[w] \in WalkPcs
             /\ pc'[w] \in Drawn => pc[w] \in Drawn
  BY DEF Goto, Quiet, TypeOK, PcOK
<1>3. ListWhole'
  BY <1>1 DEF ListParts, ListWhole, Whole, Live, Between
<1>4. FreedEmpty' /\ LinkWhole'
  BY <1>1 DEF ListParts, FreedEmpty, LinkWhole, Whole, Live
<1>5. Walked'
  BY <1>1 DEF ListParts, Walked
<1>6. Displayed'
  BY <1>1 DEF ListParts, Displayed, Shown
<1> QED
  BY <1>3, <1>4, <1>5, <1>6 DEF ListParts

-----------------------------------------------------------------------------
(* The steps of a scan thread that change the list                          *)

\* A scan thread in the message section is there alone, so its step leaves no
\* other thread to account for.
LEMMA ScannerStep ==
  ASSUME TypeOK, LockDebt, tears["message"] = 0, NEW w \in Workers, NEW from, NEW to,
         Goto(w, from, to), from \in Section["message"]
  PROVE  /\ pc[w] = from /\ pc'[w] = to
         /\ \A v \in Workers \ {w} : pc[v] \notin Between /\ pc'[v] \notin Between
         /\ pc'[Refresh] \notin WalkPcs /\ pc'[Refresh] \notin Drawn
<1> USE ThreadsFacts
<1>1. pc[w] = from /\ pc'[w] = to
  BY DEF Goto, TypeOK, PcOK
<1>2. ASSUME NEW u \in Threads \ {w} PROVE pc'[u] = pc[u] /\ pc[u] \notin Section["message"]
  <2>1. pc'[u] = pc[u]
    BY DEF Goto, TypeOK, PcOK
  <2>2. pc[u] \notin Section["message"]
    BY <1>1, Alone DEF Locks
  <2> QED
    BY <2>1, <2>2
<1> QED
  BY <1>1, <1>2, Sections DEF Between, Freed, Drawn, WalkPcs

\* What a step of a scanner has to show: the list itself, by where it went.
LEMMA ScannerKeeps ==
  ASSUME TypeOK, LockDebt, tears["message"] = 0, NEW w \in Workers, NEW from, NEW to,
         Goto(w, from, to), from \in Section["message"], NoBadFree',
         to \notin Between => Whole(head)',
         to \in Freed => Live' = {},
         to = "link" => Whole(tmp[w])'
  PROVE  ListParts'
<1>1. /\ pc'[w] = to
      /\ \A v \in Workers \ {w} : pc'[v] \notin Between
      /\ pc'[Refresh] \notin WalkPcs /\ pc'[Refresh] \notin Drawn
  BY ScannerStep
<1>2. ListWhole' /\ FreedEmpty' /\ LinkWhole'
  BY <1>1 DEF ListWhole, FreedEmpty, LinkWhole, Between
<1>3. Walked' /\ Displayed'
  BY <1>1 DEF Walked, Displayed
<1> QED
  BY <1>2, <1>3 DEF ListParts

LEMMA WholeNow ==
  ASSUME TypeOK, LockDebt, tears["message"] = 0, ListParts, NEW w \in Workers, NEW from, NEW to,
         Goto(w, from, to), from \in Section["message"], from \notin Between
  PROVE  Whole(head)
BY ScannerStep DEF ListParts, ListWhole

\* Freeing a whole list frees every allocated node, each of them once.
LEMMA CleanFreesAll ==
  ASSUME TypeOK, Whole(head), Clean
  PROVE  Live' = {} /\ NoBadFree'
BY DEF Whole, Clean, Live, NoBadFree, TypeOK, ListOK

LEMMA LoopCleanKeepsList ==
  ASSUME TypeOK, LockDebt, tears["message"] = 0, ListParts, NEW w \in Workers, LoopClean(w)
  PROVE  ListParts'
<1>1. Live' = {} /\ NoBadFree'
  BY WholeNow, CleanFreesAll, Sections DEF LoopClean, Between, Freed
<1> QED
  BY <1>1, ScannerKeeps, Sections DEF LoopClean, Between, Freed

LEMMA LoopResetKeepsList ==
  ASSUME TypeOK, LockDebt, tears["message"] = 0, ListParts, NEW w \in Workers, LoopReset(w)
  PROVE  ListParts'
<1>1. Live = {}
  BY ScannerStep, Sections DEF LoopReset, ListParts, FreedEmpty, Freed
<1>2. Whole(head)'
  BY <1>1, EmptyChain DEF LoopReset, Whole, Live
<1>3. NoBadFree'
  BY DEF LoopReset, ListParts, NoBadFree
<1> QED
  BY <1>2, <1>3, ScannerKeeps, Sections DEF LoopReset, Between, Freed

LEMMA AddKeepsList ==
  ASSUME TypeOK, LockDebt, tears["message"] = 0, ListParts, NEW w \in Workers, Add(w)
  PROVE  ListParts'
<1>1. Whole(head)
  BY WholeNow, Sections DEF Add, Between, Freed
<1>2. PICK d \in Devices : /\ heap' = [heap EXCEPT ![FreeNode] = d]
                           /\ tmp'  = [tmp EXCEPT ![w] = <<FreeNode>> \o head]
  BY DEF Add, TypeOK, ListOK
<1>3. FreeNode \in Nodes /\ heap[FreeNode] = NoDevice
  BY FreeNodeIsFree DEF Add
<1>4. Live' = {FreeNode} \cup Live
  <2>1. d # NoDevice
    BY DevicesAssumption
  <2> QED
    BY <1>2, <1>3, <2>1 DEF Live, TypeOK, ListOK
<1>5. tmp'[w] = <<FreeNode>> \o head
  BY <1>2 DEF TypeOK, ListOK
<1>6. FreeNode \notin ToSet(head) /\ IsInjective(head)
  BY <1>1, <1>3 DEF Whole, Live
<1>7. ToSet(tmp'[w]) = {FreeNode} \cup ToSet(head) /\ IsInjective(tmp'[w])
  BY <1>3, <1>5, <1>6, Prepend DEF TypeOK, ListOK
<1>8. Whole(tmp[w])'
  BY <1>1, <1>4, <1>7 DEF Whole
<1>9. NoBadFree'
  BY DEF Add, ListParts, NoBadFree
<1> QED
  BY <1>8, <1>9, ScannerKeeps, Sections DEF Add, Between, Freed

LEMMA LinkKeepsList ==
  ASSUME TypeOK, LockDebt, tears["message"] = 0, ListParts, NEW w \in Workers, Link(w)
  PROVE  ListParts'
<1>1. Whole(tmp[w])
  BY ScannerStep, Sections DEF Link, ListParts, LinkWhole
<1>2. Whole(head)'
  BY <1>1 DEF Link, Whole, Live
<1>3. NoBadFree'
  BY DEF Link, ListParts, NoBadFree
<1> QED
  BY <1>2, <1>3, ScannerKeeps, Sections DEF Link, Between, Freed

LEMMA EndCleanKeepsList ==
  ASSUME TypeOK, LockDebt, tears["message"] = 0, ListParts, NEW w \in Workers, EndClean(w)
  PROVE  ListParts'
<1>1. Live' = {} /\ NoBadFree'
  BY WholeNow, CleanFreesAll, Sections DEF EndClean, Between, Freed
<1>2. Whole(head)'
  BY <1>1, EmptyChain DEF EndClean, Whole
<1> QED
  BY <1>1, <1>2, ScannerKeeps, Sections DEF EndClean, Between, Freed

-----------------------------------------------------------------------------
(* The steps of refresh_ui that draw the list                               *)

\* While refresh_ui holds the message mutex no scanner is between two lists.
LEMMA RefreshSeesWhole ==
  ASSUME TypeOK, LockDebt, tears["message"] = 0, ListParts, pc[Refresh] \in Section["message"]
  PROVE  Whole(head) /\ \A w \in Workers : pc[w] \notin Between
<1>1. ASSUME NEW w \in Workers PROVE pc[w] \notin Between
  BY Alone, ThreadsFacts, Sections DEF Locks, Between, Freed
<1> QED
  BY <1>1 DEF ListParts, ListWhole

\* What a drawing step has to show: the picture, for the list does not change.
LEMMA RefreshKeeps ==
  ASSUME TypeOK, LockDebt, tears["message"] = 0, ListParts, NEW from, NEW to,
         Goto(Refresh, from, to), from \in Section["message"], UNCHANGED list, NoBadFree',
         Walked', Displayed'
  PROVE  ListParts'
<1>1. pc[Refresh] \in Section["message"]
  BY DEF Goto
<1>2. Whole(head) /\ \A w \in Workers : pc[w] \notin Between
  BY <1>1, RefreshSeesWhole
<1>3. \A w \in Workers : pc'[w] \notin Between
  BY <1>2, ThreadsFacts DEF Goto, TypeOK, PcOK
<1>4. Whole(head)'
  BY <1>2 DEF Whole, Live, list
<1> QED
  BY <1>3, <1>4 DEF ListParts, ListWhole, FreedEmpty, LinkWhole, Between

LEMMA RebuildKeepsList ==
  ASSUME TypeOK, LockDebt, tears["message"] = 0, ListParts, Rebuild
  PROVE  ListParts'
<1>1. pc'[Refresh] = "walk" /\ buttons' = <<>> /\ cur' = head /\ head' = head
  BY ThreadsFacts DEF Rebuild, Goto, TypeOK, PcOK, list
<1>2. Len(head) \in Nat /\ Len(<<>>) = 0
  BY DEF TypeOK, ListOK
<1>3. Walked'
  <2>1. Len(buttons') + Len(cur') = Len(head')
    BY <1>1, <1>2
  <2>2. \A i \in 1 .. Len(cur') : cur'[i] = head'[Len(buttons') + i]
    BY <1>1, <1>2
  <2>3. \A i \in 1 .. Len(buttons') : buttons'[i] = heap'[head'[i]]
    BY <1>1, <1>2
  <2> QED
    BY <2>1, <2>2, <2>3 DEF Walked
<1>4. Displayed'
  BY <1>1 DEF Displayed, Drawn
<1>5. NoBadFree'
  BY DEF Rebuild, ListParts, NoBadFree
<1> QED
  BY <1>3, <1>4, <1>5, RefreshKeeps, Sections DEF Rebuild

\* The node under refresh_ui's cursor is on the list, so it is read as it is.
LEMMA NodeUnderCursor ==
  ASSUME TypeOK, LockDebt, tears["message"] = 0, ListParts, pc[Refresh] \in WalkPcs, cur # <<>>
  PROVE  /\ Head(cur) = head[Len(buttons) + 1]
         /\ Read(Head(cur)) = heap[Head(cur)]
         /\ Fault(Head(cur)) => crash' = "none"
<1>1. cur \in Seq(Nodes) /\ cur # <<>> /\ head \in Seq(Nodes) /\ buttons \in Seq(Paths)
  BY DEF TypeOK, UiOK, ListOK
<1>2. /\ Len(buttons) + Len(cur) = Len(head)
      /\ \A i \in 1 .. Len(cur) : cur[i] = head[Len(buttons) + i]
  BY DEF ListParts, Walked
<1>3. Len(cur) \in Nat \ {0} /\ Len(buttons) \in Nat /\ Len(head) \in Nat /\ Head(cur) = cur[1]
  BY <1>1
<1>4. Head(cur) = head[Len(buttons) + 1]
  BY <1>2, <1>3
<1>5. heap[Head(cur)] # NoDevice
  <2>1. Whole(head)
    BY RefreshSeesWhole, Sections DEF WalkPcs
  <2>2. Len(buttons) + 1 \in DOMAIN head
    BY <1>1, <1>2, <1>3
  <2>3. Head(cur) \in ToSet(head)
    BY <1>4, <2>2 DEF ToSet
  <2> QED
    BY <2>1, <2>3 DEF Whole, Live
<1> QED
  BY <1>4, <1>5 DEF Read, Fault

LEMMA WalkKeepsList ==
  ASSUME TypeOK, LockDebt, tears["message"] = 0, ListParts, Walk
  PROVE  ListParts'
<1>1. Goto(Refresh, "walk", "row") /\ pc[Refresh] = "walk" /\ cur # <<>>
  BY DEF Walk, Goto
<1>2. NoBadFree'
  BY <1>1, NodeUnderCursor DEF Walk, WalkPcs, NoBadFree
<1>3. Quiet("walk", "row")
  BY DEF Quiet, Freed, Drawn, WalkPcs
<1> QED
  BY <1>1, <1>2, <1>3, QuietKeepsList, ThreadsFacts DEF Walk, list

LEMMA RowKeepsList ==
  ASSUME TypeOK, LockDebt, tears["message"] = 0, ListParts, Row
  PROVE  ListParts'
<1>1. pc[Refresh] = "row" /\ pc'[Refresh] = "walk" /\ cur # <<>>
  BY ThreadsFacts DEF Row, Goto, TypeOK, PcOK, RowOK
<1>2. /\ cur \in Seq(Nodes) /\ cur # <<>> /\ head \in Seq(Nodes) /\ buttons \in Seq(Paths)
      /\ head' = head /\ heap' = heap /\ cur' = Tail(cur)
  BY <1>1 DEF Row, TypeOK, UiOK, ListOK, list
<1>3. /\ Len(buttons) + Len(cur) = Len(head)
      /\ \A i \in 1 .. Len(cur) : cur[i] = head[Len(buttons) + i]
      /\ \A i \in 1 .. Len(buttons) : buttons[i] = heap[head[i]]
  BY <1>1 DEF ListParts, Walked, WalkPcs
<1>4. Len(cur) \in Nat \ {0} /\ Len(buttons) \in Nat /\ Len(head) \in Nat
  BY <1>2
<1>5. /\ buttons' = Append(buttons, heap[head[Len(buttons) + 1]])
      /\ crash' = "none"
  BY <1>1, NodeUnderCursor DEF Row, WalkPcs
<1>6. /\ Len(buttons') = Len(buttons) + 1
      /\ \A i \in 1 .. Len(buttons) : buttons'[i] = buttons[i]
      /\ buttons'[Len(buttons) + 1] = heap[head[Len(buttons) + 1]]
  BY <1>2, <1>5
<1>7. Len(cur') = Len(cur) - 1 /\ \A i \in 1 .. Len(cur') : cur'[i] = cur[i + 1]
  BY <1>2, <1>4
<1>8. Walked'
  <2>1. Len(buttons') + Len(cur') = Len(head')
    BY <1>2, <1>3, <1>4, <1>6, <1>7
  <2>2. \A i \in 1 .. Len(cur') : cur'[i] = head'[Len(buttons') + i]
    <3> SUFFICES ASSUME NEW i \in 1 .. Len(cur') PROVE cur'[i] = head'[Len(buttons') + i]
      OBVIOUS
    <3>1. i + 1 \in 1 .. Len(cur) /\ cur'[i] = cur[i + 1]
      BY <1>4, <1>7
    <3>2. Len(buttons') + i = Len(buttons) + (i + 1)
      BY <1>4, <1>6
    <3> QED
      BY <1>2, <1>3, <3>1, <3>2
  <2>3. \A i \in 1 .. Len(buttons') : buttons'[i] = heap'[head'[i]]
    <3> SUFFICES ASSUME NEW i \in 1 .. Len(buttons') PROVE buttons'[i] = heap[head[i]]
      BY <1>2
    <3>1. CASE i = Len(buttons) + 1
      BY <1>6, <3>1
    <3>2. CASE i # Len(buttons) + 1
      <4>1. i \in 1 .. Len(buttons)
        BY <1>4, <1>6, <3>2
      <4> QED
        BY <1>3, <1>6, <4>1
    <3> QED
      BY <3>1, <3>2
  <2> QED
    BY <2>1, <2>2, <2>3 DEF Walked
<1>9. Displayed' /\ NoBadFree'
  BY <1>1, <1>5 DEF Displayed, Drawn, NoBadFree
<1> QED
  BY <1>8, <1>9, RefreshKeeps, Sections DEF Row

LEMMA WalkDoneKeepsList ==
  ASSUME TypeOK, LockDebt, tears["message"] = 0, ListParts, WalkDone
  PROVE  ListParts'
<1>1. pc[Refresh] = "walk" /\ pc'[Refresh] = "list_unlvgl"
  BY ThreadsFacts DEF WalkDone, Goto, TypeOK, PcOK
<1>2. /\ Len(buttons) + Len(cur) = Len(head)
      /\ \A i \in 1 .. Len(buttons) : buttons[i] = heap[head[i]]
  BY <1>1 DEF ListParts, Walked, WalkPcs
<1>3. /\ Len(buttons) \in Nat /\ Len(cur) \in Nat /\ Len(head) \in Nat
      /\ Len(buttons) <= MaxShow /\ MaxShow \in Nat
  BY BoundsAssumption DEF TypeOK, UiOK, ListOK
<1>4. Len(buttons) = Shown
  <2>1. CASE cur = <<>>
    <3>1. Len(cur) = 0
      BY <2>1
    <3> QED
      BY <1>2, <1>3, <3>1 DEF Shown
  <2>2. CASE ~RoomForRow
    BY <1>2, <1>3, <2>2 DEF Shown, RoomForRow
  <2> QED
    BY <2>1, <2>2 DEF WalkDone
<1>5. buttons' = buttons /\ head' = head /\ heap' = heap /\ crash' = crash
  BY DEF WalkDone, list
<1>6. Displayed' /\ Walked' /\ NoBadFree'
  BY <1>1, <1>2, <1>4, <1>5 DEF Displayed, Shown, Walked, WalkPcs, ListParts, NoBadFree
<1> QED
  BY <1>6, RefreshKeeps, Sections DEF WalkDone

-----------------------------------------------------------------------------
(* Every other step is quiet                                                *)

LEMMA OpeningIsQuiet ==
  ASSUME TypeOK, ListParts, NEW w \in Workers, OpenStep(w) \/ InitStep(w)
  PROVE  ListParts'
<1> USE ThreadsFacts, Sections
<1>1. CASE OpenLoad(w)
  BY <1>1, QuietKeepsList DEF OpenLoad, Quiet, Freed, Drawn, WalkPcs, NoBadFree, ListParts, list, ui
<1>2. CASE OpenUsing(w)
  BY <1>2, QuietKeepsList DEF OpenUsing, Quiet, Freed, Drawn, WalkPcs, NoBadFree, ListParts, list, ui
<1>3. CASE OpenPresent(w)
  BY <1>3, QuietKeepsList DEF OpenPresent, Quiet, Freed, Drawn, WalkPcs, NoBadFree, ListParts, list, ui
<1>4. CASE ScanLock(w)
  BY <1>4, QuietKeepsList DEF ScanLock, Quiet, Freed, Drawn, WalkPcs, NoBadFree, ListParts, Lock, data, list, ui
<1>5. CASE InitCheck(w)
  BY <1>5, QuietKeepsList DEF InitCheck, Quiet, Freed, Drawn, WalkPcs, NoBadFree, ListParts, data, list, ui
<1>6. CASE InitMutexes(w)
  BY <1>6, QuietKeepsList DEF InitMutexes, Quiet, Freed, Drawn, WalkPcs, NoBadFree, ListParts, data, list, ui
<1>7. CASE InitDone(w)
  BY <1>7, QuietKeepsList DEF InitDone, Quiet, Freed, Drawn, WalkPcs, NoBadFree, ListParts, list, ui
<1>8. CASE InitFail(w)
  BY <1>8, QuietKeepsList DEF InitFail, Quiet, Freed, Drawn, WalkPcs, NoBadFree, ListParts, list, ui
<1> QED
  BY <1>1, <1>2, <1>3, <1>4, <1>5, <1>6, <1>7, <1>8 DEF OpenStep, InitStep

LEMMA LoopKeepsList ==
  ASSUME TypeOK, LockDebt, tears["message"] = 0, ListParts, NEW w \in Workers, LoopStep(w)
  PROVE  ListParts'
<1> USE ThreadsFacts, Sections
<1>1. CASE Start(w)
  BY <1>1, QuietKeepsList DEF Start, Quiet, Freed, Drawn, WalkPcs, NoBadFree, ListParts, list, ui
<1>2. CASE Test(w)
  BY <1>2, QuietKeepsList DEF Test, Quiet, Freed, Drawn, WalkPcs, NoBadFree, ListParts, data, list, ui
<1>3. CASE LoopAccepting(w)
  BY <1>3, QuietKeepsList DEF LoopAccepting, Quiet, Freed, Drawn, WalkPcs, NoBadFree, ListParts, Lock, data, list, ui
<1>4. CASE LoopMessage(w)
  BY <1>4, QuietKeepsList DEF LoopMessage, Quiet, Freed, Drawn, WalkPcs, NoBadFree, ListParts, Lock, data, list, ui
<1>5. CASE LoopUnaccepting(w)
  BY <1>5, QuietKeepsList DEF LoopUnaccepting, Quiet, Freed, Drawn, WalkPcs, NoBadFree, ListParts, Unlock, data, list, ui
<1>6. CASE UpdateDone(w)
  BY <1>6, QuietKeepsList DEF UpdateDone, Quiet, Freed, Drawn, WalkPcs, NoBadFree, ListParts, list, ui
<1>7. CASE LoopUnmessage(w)
  BY <1>7, QuietKeepsList DEF LoopUnmessage, Quiet, Freed, Drawn, WalkPcs, NoBadFree, ListParts, Unlock, data, list, ui
<1>8. CASE LoopClean(w)
  BY <1>8, LoopCleanKeepsList
<1>9. CASE LoopReset(w)
  BY <1>9, LoopResetKeepsList
<1>10. CASE Add(w)
  BY <1>10, AddKeepsList
<1>11. CASE Link(w)
  BY <1>11, LinkKeepsList
<1> QED
  BY <1>1, <1>2, <1>3, <1>4, <1>5, <1>6, <1>7, <1>8, <1>9, <1>10, <1>11 DEF LoopStep, UpdateStep

LEMMA EndKeepsList ==
  ASSUME TypeOK, LockDebt, tears["message"] = 0, ListParts, NEW w \in Workers, EndStep(w)
  PROVE  ListParts'
<1> USE ThreadsFacts, Sections
<1>1. CASE Stop(w)
  BY <1>1, QuietKeepsList DEF Stop, Quiet, Freed, Drawn, WalkPcs, NoBadFree, ListParts, list, ui
<1>2. CASE EndAccepting(w)
  BY <1>2, QuietKeepsList DEF EndAccepting, Quiet, Freed, Drawn, WalkPcs, NoBadFree, ListParts, Lock, data, list, ui
<1>3. CASE EndMessage(w)
  BY <1>3, QuietKeepsList DEF EndMessage, Quiet, Freed, Drawn, WalkPcs, NoBadFree, ListParts, Lock, data, list, ui
<1>4. CASE EndUnaccepting(w)
  BY <1>4, QuietKeepsList DEF EndUnaccepting, Quiet, Freed, Drawn, WalkPcs, NoBadFree, ListParts, Unlock, data, list, ui
<1>5. CASE EndUnmessage(w)
  BY <1>5, QuietKeepsList DEF EndUnmessage, Quiet, Freed, Drawn, WalkPcs, NoBadFree, ListParts, Unlock, data, list, ui
<1>6. CASE EndUnscan(w)
  BY <1>6, QuietKeepsList DEF EndUnscan, Quiet, Freed, Drawn, WalkPcs, NoBadFree, ListParts, Unlock, data, list, ui
<1>7. CASE EndClean(w)
  BY <1>7, EndCleanKeepsList
<1> QED
  BY <1>1, <1>2, <1>3, <1>4, <1>5, <1>6, <1>7 DEF EndStep

LEMMA HandlingIsQuiet ==
  ASSUME TypeOK, ListParts, NEW w \in Workers, CloseStep(w) \/ ConnectStep(w)
  PROVE  ListParts'
<1> USE ThreadsFacts, Sections
<1>1. CASE CloseUsing(w)
  BY <1>1, QuietKeepsList DEF CloseUsing, Quiet, Freed, Drawn, WalkPcs, NoBadFree, ListParts, list, ui
<1>2. CASE CloseLoad(w)
  BY <1>2, QuietKeepsList DEF CloseLoad, Quiet, Freed, Drawn, WalkPcs, NoBadFree, ListParts, list, ui
<1>3. CASE ClosePresent(w)
  BY <1>3, QuietKeepsList DEF ClosePresent, Quiet, Freed, Drawn, WalkPcs, NoBadFree, ListParts, list, ui
<1>4. CASE ConnLock(w)
  BY <1>4, QuietKeepsList DEF ConnLock, Quiet, Freed, Drawn, WalkPcs, NoBadFree, ListParts, Lock, data, list, ui
<1>5. CASE Proxy(w)
  BY <1>5, QuietKeepsList DEF Proxy, Quiet, Freed, Drawn, WalkPcs, NoBadFree, ListParts, list, ui
<1>6. CASE Connect(w)
  BY <1>6, QuietKeepsList DEF Connect, Quiet, Freed, Drawn, WalkPcs, NoBadFree, ListParts, data, list, ui
<1>7. CASE ConnUnlock(w)
  BY <1>7, QuietKeepsList DEF ConnUnlock, Quiet, Freed, Drawn, WalkPcs, NoBadFree, ListParts, Unlock, data, list, ui
<1> QED
  BY <1>1, <1>2, <1>3, <1>4, <1>5, <1>6, <1>7 DEF CloseStep, ConnectStep

LEMMA RefreshKeepsList ==
  ASSUME TypeOK, LockDebt, tears["message"] = 0, ListParts, RefreshStep
  PROVE  ListParts'
<1> USE ThreadsFacts, Sections
<1>1. CASE LabelLock
  BY <1>1, QuietKeepsList DEF LabelLock, Quiet, Freed, Drawn, WalkPcs, NoBadFree, ListParts, Lock, data, list, ui
<1>2. CASE LabelUnlock
  BY <1>2, QuietKeepsList DEF LabelUnlock, Quiet, Freed, Drawn, WalkPcs, NoBadFree, ListParts, Unlock, data, list, ui
<1>3. CASE Switch
  BY <1>3, QuietKeepsList DEF Switch, Quiet, Freed, Drawn, WalkPcs, NoBadFree, ListParts, data, list, ui
<1>4. CASE ListMessage
  BY <1>4, QuietKeepsList DEF ListMessage, Quiet, Freed, Drawn, WalkPcs, NoBadFree, ListParts, Lock, data, list, ui
<1>5. CASE ListLvgl
  BY <1>5, QuietKeepsList DEF ListLvgl, Quiet, Freed, Drawn, WalkPcs, NoBadFree, ListParts, Lock, data, list, ui
<1>6. CASE ListUnlvgl
  BY <1>6, QuietKeepsList DEF ListUnlvgl, Quiet, Freed, Drawn, WalkPcs, NoBadFree, ListParts, Unlock, data, list, ui
<1>7. CASE ListUnmessage
  BY <1>7, QuietKeepsList DEF ListUnmessage, Quiet, Freed, Drawn, WalkPcs, NoBadFree, ListParts, Unlock, data, list, ui
<1>8. CASE Rebuild
  BY <1>8, RebuildKeepsList
<1>9. CASE Walk
  BY <1>9, WalkKeepsList
<1>10. CASE WalkDone
  BY <1>10, WalkDoneKeepsList
<1>11. CASE Row
  BY <1>11, RowKeepsList
<1> QED
  BY <1>1, <1>2, <1>3, <1>4, <1>5, <1>6, <1>7, <1>8, <1>9, <1>10, <1>11 DEF RefreshStep

LEMMA LvglIsQuiet ==
  ASSUME TypeOK, ListParts, LvglStep
  PROVE  ListParts'
<1> USE ThreadsFacts, Sections
<1>1. CASE LvglLock
  BY <1>1, QuietKeepsList DEF LvglLock, Quiet, Freed, Drawn, WalkPcs, NoBadFree, ListParts, Lock, data, list, ui
<1>2. CASE LvglUnlock
  BY <1>2, QuietKeepsList DEF LvglUnlock, Quiet, Freed, Drawn, WalkPcs, NoBadFree, ListParts, Unlock, data, list, ui
<1> QED
  BY <1>1, <1>2 DEF LvglStep

LEMMA UserKeepsList ==
  ASSUME TypeOK, ListParts, UserStep
  PROVE  ListParts'
<1>1. CASE Press
  BY <1>1 DEF Press, list, ListParts, ListWhole, FreedEmpty, LinkWhole, NoBadFree, Walked,
     Displayed, Whole, Live, Shown
<1>2. ASSUME NEW w \in Workers, Release(w) PROVE ListParts'
  <2>1. FirstPc[pressed.event] \in {"open", "close", "conn_lock"}
    BY <1>2 DEF Release, FirstPc, Button, AllEvents, TypeOK, UiOK
  <2>2. Quiet("idle", FirstPc[pressed.event])
    BY <2>1 DEF Quiet, Freed, Drawn, WalkPcs
  <2> QED
    BY <1>2, <2>2, QuietKeepsList, ThreadsFacts DEF Release, list, NoBadFree, ListParts
<1> QED
  BY <1>1, <1>2 DEF UserStep

-----------------------------------------------------------------------------

LEMMA InitList == Init => ListInv
<1> SUFFICES ASSUME Init PROVE ListParts
  BY DEF ListInv
<1>1. Live = {} /\ head = <<>>
  BY DEF Init, Live
<1>2. ListWhole /\ FreedEmpty
  BY <1>1, EmptyChain DEF ListWhole, FreedEmpty, Whole
<1>3. pc[Refresh] = "sleep" /\ \A w \in Workers : pc[w] = "idle"
  BY ThreadsFacts DEF Init
<1>4. LinkWhole /\ NoBadFree /\ Walked /\ Displayed
  BY <1>3 DEF Init, LinkWhole, NoBadFree, Walked, Displayed, Drawn, WalkPcs
<1> QED
  BY <1>2, <1>4 DEF ListParts

LEMMA NextList == TypeOK /\ LockDebt /\ ListInv /\ [Next]_vars => ListInv'
<1> SUFFICES ASSUME TypeOK, LockDebt, ListInv, [Next]_vars, tears'["message"] = 0
             PROVE  ListParts'
  BY DEF ListInv
<1>1. tears["message"] = 0
  BY TearsGrow DEF Locks
<1>2. ListParts
  BY <1>1 DEF ListInv
<1>3. ASSUME NEW w \in Workers, HandlerStep(w) PROVE ListParts'
  BY <1>1, <1>2, <1>3, OpeningIsQuiet, LoopKeepsList, EndKeepsList, HandlingIsQuiet DEF HandlerStep
<1>4. CASE UNCHANGED vars
  <2>1. UNCHANGED <<pc, heap, head, tmp, crash, buttons, cur>>
    BY <1>4 DEF vars, data, list, ui
  <2> QED
    BY <1>2, <2>1 DEF ListParts, ListWhole, FreedEmpty, LinkWhole, NoBadFree, Walked, Displayed,
       Whole, Live, Shown
<1> QED
  BY <1>1, <1>2, <1>3, <1>4, RefreshKeepsList, LvglIsQuiet, UserKeepsList DEF Next

\* What the invariant says of the list, one claim at a time.

LEMMA WalkIsLiveNow == TypeOK /\ LockDebt /\ ListInv => WalkIsLive
<1> SUFFICES ASSUME TypeOK, LockDebt, ListParts, tears["message"] = 0, pc[Refresh] \in WalkPcs,
                    NEW i \in DOMAIN cur
             PROVE  cur[i] \in Live
  BY DEF ListInv, WalkIsLive, ToSet
<1>1. Whole(head)
  BY RefreshSeesWhole, Sections DEF WalkPcs
<1>2. /\ Len(buttons) + Len(cur) = Len(head)
      /\ \A j \in 1 .. Len(cur) : cur[j] = head[Len(buttons) + j]
  BY DEF ListParts, Walked
<1>3. /\ Len(buttons) \in Nat /\ Len(cur) \in Nat /\ Len(head) \in Nat
      /\ DOMAIN cur = 1 .. Len(cur) /\ DOMAIN head = 1 .. Len(head)
  BY DEF TypeOK, UiOK, ListOK
<1>4. Len(buttons) + i \in DOMAIN head /\ cur[i] = head[Len(buttons) + i]
  BY <1>2, <1>3
<1>5. cur[i] \in ToSet(head)
  BY <1>4 DEF ToSet
<1> QED
  BY <1>1, <1>5 DEF Whole

LEMMA ListCompleteNow == TypeOK /\ LockDebt /\ ListInv => ListComplete
<1> SUFFICES ASSUME TypeOK, LockDebt, ListParts, tears["message"] = 0, word["message"] = 0
             PROVE  Whole(head)
  BY DEF ListInv, ListComplete, Whole
<1>1. Inside("message") = {}
  BY FreeMeansEmpty DEF Locks
<1>2. ASSUME NEW w \in Workers PROVE pc[w] \notin Section["message"]
  BY <1>1, ThreadsFacts DEF Inside
<1>3. \A w \in Workers : pc[w] \notin Between
  BY <1>2, Sections DEF Between, Freed
<1> QED
  BY <1>3 DEF ListParts, ListWhole

LEMMA SnapshotNow == TypeOK /\ ListInv => DisplayIsSnapshot
<1> SUFFICES ASSUME TypeOK, ListParts, tears["message"] = 0, pc[Refresh] \in Drawn
             PROVE  buttons = [i \in 1 .. Shown |-> heap[head[i]]]
  BY DEF ListInv, DisplayIsSnapshot, Drawn, Shown, Rows
<1>1. Len(buttons) = Shown /\ \A i \in 1 .. Shown : buttons[i] = heap[head[i]]
  BY DEF ListParts, Displayed
<1>2. buttons = [i \in 1 .. Shown |-> buttons[i]]
  BY <1>1 DEF TypeOK, UiOK
<1> QED
  BY <1>1, <1>2

LEMMA NoDoubleFreeNow == ListInv => NoDoubleFree
BY DEF ListInv, ListParts, NoBadFree, NoDoubleFree

\* refresh_ui walks allocated nodes only, while no opening has reinitialised a
\* held message mutex.
THEOREM WalkSafe == Spec => []WalkIsLive
BY InitTypes, NextTypes, InitDebt, NextDebt, InitList, NextList, WalkIsLiveNow, PTL DEF Spec

\* clean_bluetooth_message frees no node twice, in the loop, at the end of a scan
\* or in a later opening, and no freed node is read.
THEOREM FreeSafe == Spec => []NoDoubleFree
BY InitTypes, NextTypes, InitDebt, NextDebt, InitList, NextList, NoDoubleFreeNow, PTL DEF Spec

\* Whenever the message mutex is free the list is exactly the allocated nodes.
THEOREM ListSafe == Spec => []ListComplete
BY InitTypes, NextTypes, InitDebt, NextDebt, InitList, NextList, ListCompleteNow, PTL DEF Spec

\* What refresh_ui has drawn when it lets go of the list is that list, cut at
\* MAX_SHOW_BLUETOOTH_DEVICE rows.
THEOREM DisplaySafe == Spec => []DisplayIsSnapshot
BY InitTypes, NextTypes, InitDebt, NextDebt, InitList, NextList, SnapshotNow, PTL DEF Spec

-----------------------------------------------------------------------------
(* No list node is freed under a connect                                    *)

LEMMA FreeingHoldsAccepting ==
  ASSUME TypeOK, LockDebt, [Next]_vars, tears["accepting"] = 0,
         NEW v \in Workers, pc[v] \in AcceptPcs
  PROVE  Live \subseteq Live'
<1>1. ASSUME NEW w \in Workers, LoopClean(w) \/ EndClean(w) PROVE FALSE
  <2>1. pc[w] \in {"loop_clean", "end_clean"}
    BY <1>1 DEF LoopClean, EndClean, Goto
  <2>2. w # v
    BY <2>1 DEF AcceptPcs
  <2>3. pc[w] \in Section["accepting"] /\ pc[v] \in Section["accepting"]
    BY <2>1, Sections
  <2> QED
    BY <2>2, <2>3, Alone, ThreadsFacts DEF Locks
<1>2. CASE heap' = heap
  BY <1>2 DEF Live
<1>3. ASSUME NEW w \in Workers, Add(w) PROVE Live \subseteq Live'
  <2>1. PICK d \in Devices : heap' = [heap EXCEPT ![FreeNode] = d]
    BY <1>3 DEF Add, TypeOK, ListOK
  <2> QED
    BY <2>1, DevicesAssumption DEF Live, TypeOK, ListOK
<1>4. ASSUME NEW w \in Workers, HandlerStep(w) PROVE Live \subseteq Live'
  BY <1>1, <1>2, <1>3, <1>4 DEF HandlerStep, OpenStep, InitStep, LoopStep, UpdateStep, EndStep,
     CloseStep, ConnectStep, OpenLoad, OpenUsing, OpenPresent, ScanLock, InitCheck, InitMutexes,
     InitDone, InitFail, Start, Test, LoopAccepting, LoopMessage, LoopUnaccepting, LoopReset, Link,
     UpdateDone, LoopUnmessage, Stop, EndAccepting, EndMessage, EndUnaccepting, EndUnmessage,
     EndUnscan, CloseUsing, CloseLoad, ClosePresent, ConnLock, Proxy, Connect, ConnUnlock, data, list
<1>5. CASE RefreshStep
  BY <1>2, <1>5 DEF RefreshStep, LabelLock, LabelUnlock, Switch, ListMessage, ListLvgl, Rebuild,
     Walk, Row, WalkDone, ListUnlvgl, ListUnmessage, data, list
<1>6. CASE LvglStep \/ UserStep
  BY <1>2, <1>6 DEF LvglStep, UserStep, LvglLock, LvglUnlock, Press, Release, data, list
<1>7. CASE UNCHANGED vars
  BY <1>2, <1>7 DEF vars, data, list
<1> QED
  BY <1>4, <1>5, <1>6, <1>7 DEF Next

\* Neither clean of a scan thread frees a node while a connect is under way, as
\* long as no opening has reinitialised a held accepting mutex.
THEOREM AcceptSafe == Spec => CleanWaitsForAccept
<1>1. TypeOK /\ LockDebt /\ [Next]_vars =>
        [tears["accepting"] = 0 /\ (\E w \in Workers : pc[w] \in AcceptPcs) =>
           Live \subseteq Live']_vars
  BY FreeingHoldsAccepting
<1> QED
  BY <1>1, InitTypes, NextTypes, InitDebt, NextDebt, PTL DEF Spec, CleanWaitsForAccept
-----------------------------------------------------------------------------
(* The slots behind the buttons: between the copy of a path and the reading  *)
(* of its name the node stays what it is.                                   *)

Named == \A i \in 1 .. Len(buttons) : slots[i] = buttons[i]

\* The slot of the row refresh_ui is in, whose button is still to come.
RowCopied == pc[Refresh] = "row" => slots[Len(buttons) + 1] = heap[Head(cur)]

SlotInv == tears["message"] = 0 => Named /\ RowCopied

LEMMA WalkNamesSlots ==
  ASSUME TypeOK, LockDebt, tears["message"] = 0, ListParts, Named, Walk
  PROVE  Named' /\ RowCopied'
<1>1. pc[Refresh] = "walk" /\ cur # <<>> /\ UNCHANGED <<heap, buttons, cur>>
  BY DEF Walk, Goto, list
<1>2. slots' = [slots EXCEPT ![Len(buttons) + 1] = heap[Head(cur)]]
  BY <1>1, NodeUnderCursor DEF Walk, WalkPcs
<1>3. Len(buttons) \in Nat /\ Len(buttons) + 1 \in 1 .. MaxShow /\ DOMAIN slots = 1 .. MaxShow
  <2>1. buttons \in Seq(Paths) /\ DOMAIN slots = 1 .. MaxShow
    BY DEF TypeOK, UiOK
  <2>2. Len(buttons) < MaxShow /\ MaxShow \in Nat
    BY BoundsAssumption DEF Walk, RoomForRow
  <2> QED
    BY <2>1, <2>2
<1>4. slots'[Len(buttons) + 1] = heap[Head(cur)] /\ \A i \in 1 .. Len(buttons) : slots'[i] = slots[i]
  BY <1>2, <1>3
<1> QED
  BY <1>1, <1>4 DEF Named, RowCopied

LEMMA RowNamesSlots ==
  ASSUME TypeOK, LockDebt, tears["message"] = 0, ListParts, Named, RowCopied, Row
  PROVE  Named' /\ RowCopied'
<1>1. pc[Refresh] = "row" /\ pc'[Refresh] = "walk" /\ cur # <<>> /\ slots' = slots
  BY ThreadsFacts DEF Row, Goto, TypeOK, PcOK, RowOK
<1>2. buttons' = Append(buttons, slots[Len(buttons) + 1])
  BY <1>1, NodeUnderCursor DEF Row, WalkPcs, RowCopied
<1>3. buttons \in Seq(Paths) /\ Len(buttons) \in Nat
  BY DEF TypeOK, UiOK
<1>4. /\ Len(buttons') = Len(buttons) + 1
      /\ buttons'[Len(buttons) + 1] = slots[Len(buttons) + 1]
      /\ \A i \in 1 .. Len(buttons) : buttons'[i] = buttons[i]
  BY <1>2, <1>3
<1>5. ASSUME NEW i \in 1 .. Len(buttons) + 1 PROVE slots'[i] = buttons'[i]
  <2>1. i = Len(buttons) + 1 \/ i \in 1 .. Len(buttons)
    BY <1>3
  <2> QED
    BY <1>1, <1>4, <2>1 DEF Named
<1> QED
  BY <1>1, <1>4, <1>5 DEF Named, RowCopied

\* No scanner frees or fills a node while refresh_ui is in the message section.
LEMMA HeapStays ==
  ASSUME TypeOK, LockDebt, tears["message"] = 0, pc[Refresh] \in Section["message"],
         NEW w \in Workers, HandlerStep(w)
  PROVE  heap' = heap
<1>1. pc[w] \notin Section["message"]
  BY Alone, ThreadsFacts DEF Locks
<1>2. ~LoopClean(w) /\ ~Add(w) /\ ~EndClean(w)
  BY <1>1, Sections DEF LoopClean, Add, EndClean, Goto
<1> QED
  BY <1>2 DEF HandlerStep, OpenStep, InitStep, LoopStep, UpdateStep, EndStep, CloseStep, ConnectStep,
     OpenLoad, OpenUsing, OpenPresent, ScanLock, InitCheck, InitMutexes, InitDone, InitFail, Start,
     Test, LoopAccepting, LoopMessage, LoopUnaccepting, LoopReset, Link, UpdateDone, LoopUnmessage,
     Stop, EndAccepting, EndMessage, EndUnaccepting, EndUnmessage, EndUnscan, CloseUsing, CloseLoad,
     ClosePresent, ConnLock, Proxy, Connect, ConnUnlock, data, list

\* Handlers leave the widgets, the slots and refresh_ui to refresh_ui.
LEMMA HandlersLeaveRows ==
  ASSUME TypeOK, NEW w \in Workers, HandlerStep(w)
  PROVE  UNCHANGED <<buttons, slots, cur>> /\ pc'[Refresh] = pc[Refresh]
<1>1. ASSUME NEW from, NEW to, Goto(w, from, to) PROVE pc'[Refresh] = pc[Refresh]
  BY <1>1, ThreadsFacts DEF Goto, TypeOK, PcOK
<1>2. CASE OpenStep(w) \/ InitStep(w)
  BY <1>1, <1>2 DEF OpenStep, OpenLoad, OpenUsing, OpenPresent, ScanLock, InitStep, InitCheck,
     InitMutexes, InitDone, InitFail, Lock, data, ui
<1>3. CASE CloseStep(w) \/ ConnectStep(w)
  BY <1>1, <1>3 DEF CloseStep, CloseUsing, CloseLoad, ClosePresent, ConnectStep, ConnLock, Proxy,
     Connect, ConnUnlock, Lock, Unlock, data, ui
<1>4. CASE LoopStep(w)
  BY <1>1, <1>4 DEF LoopStep, UpdateStep, Start, Test, LoopAccepting, LoopMessage, LoopClean,
     LoopUnaccepting, LoopReset, Add, Link, UpdateDone, LoopUnmessage, Lock, Unlock, data, ui
<1>5. CASE EndStep(w)
  BY <1>1, <1>5 DEF EndStep, Stop, EndAccepting, EndMessage, EndClean, EndUnaccepting, EndUnmessage,
     EndUnscan, Lock, Unlock, data, ui
<1> QED
  BY <1>2, <1>3, <1>4, <1>5 DEF HandlerStep

LEMMA InitSlots == Init => SlotInv
BY ThreadsFacts DEF Init, SlotInv, Named, RowCopied

LEMMA NextSlots == TypeOK /\ LockDebt /\ ListInv /\ SlotInv /\ [Next]_vars => SlotInv'
<1> SUFFICES ASSUME TypeOK, LockDebt, ListInv, SlotInv, [Next]_vars, tears'["message"] = 0
             PROVE  Named' /\ RowCopied'
  BY DEF SlotInv
<1> USE ThreadsFacts
<1>1. tears["message"] = 0 /\ ListParts /\ Named /\ RowCopied
  BY TearsGrow DEF Locks, ListInv, SlotInv
<1>2. ASSUME UNCHANGED <<buttons, slots, cur>>, pc'[Refresh] = "row" => pc[Refresh] = "row" /\ heap' = heap
      PROVE  Named' /\ RowCopied'
  BY <1>1, <1>2 DEF Named, RowCopied
<1>3. ASSUME NEW w \in Workers, HandlerStep(w) PROVE Named' /\ RowCopied'
  <2>1. UNCHANGED <<buttons, slots, cur>> /\ pc'[Refresh] = pc[Refresh]
    BY <1>3, HandlersLeaveRows
  <2>2. pc[Refresh] = "row" => heap' = heap
    BY <1>1, <1>3, HeapStays, Sections
  <2> QED
    BY <1>2, <2>1, <2>2
<1>4. CASE RefreshStep
  <2>1. ASSUME NEW from, NEW to, Goto(Refresh, from, to), to # "row" PROVE RowCopied'
    BY <2>1 DEF Goto, RowCopied, TypeOK, PcOK
  <2>2. CASE Rebuild
    BY <2>1, <2>2 DEF Rebuild, Named
  <2>3. CASE Walk \/ Row
    BY <1>1, <2>3, WalkNamesSlots, RowNamesSlots
  <2>4. CASE Switch
    BY <1>1, <2>1, <2>4 DEF Switch, Named, data, ui
  <2>5. CASE LabelLock \/ LabelUnlock \/ ListMessage \/ ListLvgl \/ WalkDone \/ ListUnlvgl \/ ListUnmessage
    BY <1>1, <2>1, <2>5 DEF LabelLock, LabelUnlock, ListMessage, ListLvgl, WalkDone, ListUnlvgl,
       ListUnmessage, Lock, Unlock, Named, data, ui
  <2> QED
    BY <1>4, <2>2, <2>3, <2>4, <2>5 DEF RefreshStep
<1>5. CASE LvglStep \/ UserStep
  <2>1. UNCHANGED <<heap, buttons, slots, cur>> /\ pc'[Refresh] = pc[Refresh]
    BY <1>5 DEF LvglStep, LvglLock, LvglUnlock, UserStep, Press, Release, Lock, Unlock, Goto, TypeOK,
       PcOK, data, list, ui
  <2> QED
    BY <1>2, <2>1
<1>6. CASE UNCHANGED vars
  BY <1>2, <1>6 DEF vars, data, list, ui
<1> QED
  BY <1>3, <1>4, <1>5, <1>6 DEF Next

LEMMA NamedNow == SlotInv => ButtonsNameSlots
BY DEF SlotInv, Named, ButtonsNameSlots

\* The slot behind a button names the device the button shows, though refresh_ui
\* reads the path and the name of a row one after the other, while no opening has
\* reinitialised a held message mutex.
THEOREM SlotsSafe == Spec => []ButtonsNameSlots
BY InitTypes, NextTypes, InitDebt, NextDebt, InitList, NextList, InitSlots, NextSlots, NamedNow,
   PTL DEF Spec

=============================================================================
