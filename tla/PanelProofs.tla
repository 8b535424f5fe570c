----------------------------- MODULE PanelProofs -----------------------------
(* Theorems about Panel, for every value of its constants.                 *)
EXTENDS Panel, TLAPS, SequenceTheorems

-----------------------------------------------------------------------------
(* Statements                                                               *)

Flags == {"camera_using", "bluetooth_scan_using"}
Names == {"loaded", "present_screen", "camera_using", "bluetooth_scan_using"}

ScreenNames == {"loaded", "present_screen"}
Calls       == {"camera_thread", "bluetooth_scan_thread"}

\* A write to one of the shared variables, or a call.
Statements ==
  {Set(v, s) : v \in ScreenNames, s \in Screens} \cup {Set(f, b) : f \in Flags, b \in BOOLEAN}
    \cup {Call(f) : f \in Calls}

\* What can be left of a case: the call of bluetooth_scan_thread is its last statement.
IsRest(r) ==
  /\ r \in Seq(Statements)
  /\ \A i \in 1 .. Len(r) : r[i] = Call("bluetooth_scan_thread") => i = Len(r)

LEMMA SetFacts ==
  ASSUME NEW v, NEW x
  PROVE  Set(v, x)[1] = v /\ Set(v, x)[2] = x
BY DEF Set

LEMMA CallFacts ==
  ASSUME NEW f
  PROVE  Call(f)[1] = f /\ Call(f)[2] = "call"
BY DEF Call

LEMMA Tails ==
  ASSUME NEW S, NEW r \in Seq(S), r # <<>>
  PROVE  /\ Head(r) = r[1] /\ Len(r) \in Nat \ {0} /\ Len(Tail(r)) = Len(r) - 1
         /\ Tail(r) \in Seq(S)
         /\ \A i \in 1 .. Len(Tail(r)) : Tail(r)[i] = r[i + 1]
OBVIOUS

LEMMA TailIsRest ==
  ASSUME NEW r, IsRest(r), r # <<>>
  PROVE  /\ IsRest(Tail(r)) /\ Head(r) \in Statements /\ Head(r) = r[1]
         /\ Head(r) = Call("bluetooth_scan_thread") => Tail(r) = <<>>
<1> DEFINE t == Tail(r)
<1>1. r \in Seq(Statements)
  BY DEF IsRest
<1>2. /\ Head(r) = r[1] /\ Len(r) \in Nat \ {0} /\ Len(t) = Len(r) - 1
      /\ t \in Seq(Statements)
      /\ \A i \in 1 .. Len(t) : t[i] = r[i + 1]
  BY <1>1, Tails
<1> HIDE DEF t
<1>3. Head(r) \in Statements
  BY <1>1, <1>2
<1>4. \A i \in 1 .. Len(t) : t[i] = Call("bluetooth_scan_thread") => i = Len(t)
  <2> SUFFICES ASSUME NEW i \in 1 .. Len(t), t[i] = Call("bluetooth_scan_thread")
               PROVE  i = Len(t)
    OBVIOUS
  <2>1. r[i + 1] = Call("bluetooth_scan_thread") /\ i + 1 \in 1 .. Len(r)
    BY <1>2
  <2>2. i + 1 = Len(r)
    BY <2>1 DEF IsRest
  <2> QED
    BY <1>2, <2>2
<1>5. Head(r) = Call("bluetooth_scan_thread") => t = <<>>
  <2> SUFFICES ASSUME Head(r) = Call("bluetooth_scan_thread") PROVE t = <<>>
    OBVIOUS
  <2>1. r[1] = Call("bluetooth_scan_thread") /\ 1 \in 1 .. Len(r)
    BY <1>2
  <2>2. Len(r) = 1
    BY <2>1 DEF IsRest
  <2>3. Len(t) = Len(r) - 1
    BY <1>2
  <2>4. Len(t) = 0
    BY <2>2, <2>3
  <2> QED
    BY <1>2, <2>4, EmptySeq
<1>6. IsRest(t)
  BY <1>2, <1>4 DEF IsRest
<1> QED
  BY <1>2, <1>3, <1>5, <1>6 DEF t

LEMMA ScriptFacts ==
  /\ DOMAIN Script = {"CAMERA_CLOSE", "CAMERA_START", "BLUETOOTH_OPEN", "BLUETOOTH_CLOSE",
                      "CAR_CTR_OPEN", "CAR_CTR_CLOSE"}
  /\ Script["CAMERA_CLOSE"] = <<Set("camera_using", FALSE), Set("loaded", "MENU_SCREEN"),
                                Set("present_screen", "MENU_SCREEN")>>
  /\ Script["CAMERA_START"] = <<Set("camera_using", TRUE), Set("loaded", "CAMERA_SCREEN"),
                                Call("camera_thread"), Set("present_screen", "CAMERA_SCREEN")>>
  /\ Script["BLUETOOTH_OPEN"] = <<Set("loaded", "BULETOOTH_SCREEN"), Set("bluetooth_scan_using", TRUE),
                                  Set("present_screen", "BULETOOTH_SCREEN"),
                                  Call("bluetooth_scan_thread")>>
  /\ Script["BLUETOOTH_CLOSE"] = <<Set("bluetooth_scan_using", FALSE), Set("loaded", "MENU_SCREEN"),
                                   Set("present_screen", "MENU_SCREEN")>>
  /\ Script["CAR_CTR_OPEN"] = <<Set("loaded", "CAR_CTR_SCREEN"), Set("present_screen", "CAR_CTR_SCREEN")>>
  /\ Script["CAR_CTR_CLOSE"] = <<Set("loaded", "MENU_SCREEN"), Set("present_screen", "MENU_SCREEN")>>
BY DEF Script, Back, Show, Present

LEMMA ButtonsFacts ==
  /\ \A s \in Screens : Buttons[s] \subseteq DOMAIN Script
  /\ Buttons["MENU_SCREEN"] = {"CAMERA_START", "BLUETOOTH_OPEN", "CAR_CTR_OPEN"}
  /\ Buttons["CAMERA_SCREEN"] = {"CAMERA_CLOSE"}
  /\ Buttons["BULETOOTH_SCREEN"] = {"BLUETOOTH_CLOSE"}
  /\ Buttons["CAR_CTR_SCREEN"] = {"CAR_CTR_CLOSE"}
BY ScriptFacts DEF Buttons, Screens

\* A statement that names a shared variable writes a value of its kind to it.
LEMMA WriteFacts ==
  ASSUME NEW s \in Statements
  PROVE  /\ s[1] \in ScreenNames => s[2] \in Screens
         /\ s[1] \in Flags => s[2] \in BOOLEAN
         /\ s[1] \in Names <=> s[1] \notin Calls
         /\ s[1] \in ScreenNames \cup Flags \cup Calls
         /\ \A f \in Calls : s[1] = f => s = Call(f)
<1>1. CASE \E v \in ScreenNames, x \in Screens : s = Set(v, x)
  BY <1>1, SetFacts DEF ScreenNames, Flags, Names, Calls
<1>2. CASE \E f \in Flags, b \in BOOLEAN : s = Set(f, b)
  BY <1>2, SetFacts DEF ScreenNames, Flags, Names, Calls
<1>3. CASE \E f \in Calls : s = Call(f)
  BY <1>3, CallFacts DEF ScreenNames, Flags, Names, Calls
<1> QED
  BY <1>1, <1>2, <1>3 DEF Statements

LEMMA InScreens ==
  /\ "MENU_SCREEN" \in Screens /\ "BULETOOTH_SCREEN" \in Screens
  /\ "CAMERA_SCREEN" \in Screens /\ "CAR_CTR_SCREEN" \in Screens
BY DEF Screens

LEMMA StatementsGiven ==
  /\ \A v \in ScreenNames, x \in Screens : Set(v, x) \in Statements /\ Set(v, x) # Call("bluetooth_scan_thread")
  /\ \A f \in Flags, b \in BOOLEAN : Set(f, b) \in Statements /\ Set(f, b) # Call("bluetooth_scan_thread")
  /\ \A f \in Calls : Call(f) \in Statements
  /\ Call("camera_thread") # Call("bluetooth_scan_thread")
<1>1. \A v, x : v # "bluetooth_scan_thread" => Set(v, x) # Call("bluetooth_scan_thread")
  BY SetFacts, CallFacts
<1>2. Call("camera_thread") # Call("bluetooth_scan_thread")
  BY CallFacts
<1> QED
  BY <1>1, <1>2 DEF Statements, ScreenNames, Flags, Calls

LEMMA ScriptIsRest == \A e \in DOMAIN Script : IsRest(Script[e])
<1> USE InScreens, StatementsGiven DEF ScreenNames, Flags, Calls
<1>1. \A a, b \in Statements \ {Call("bluetooth_scan_thread")} : IsRest(<<a, b>>)
  BY DEF IsRest
<1>2. \A a, b, c \in Statements \ {Call("bluetooth_scan_thread")} : IsRest(<<a, b, c>>)
  BY DEF IsRest
<1>3. \A a, b, c \in Statements \ {Call("bluetooth_scan_thread")} : \A d \in Statements :
        IsRest(<<a, b, c, d>>)
  BY DEF IsRest
<1>4. IsRest(Script["CAMERA_CLOSE"]) /\ IsRest(Script["BLUETOOTH_CLOSE"])
  BY <1>2, ScriptFacts
<1>5. IsRest(Script["CAMERA_START"]) /\ IsRest(Script["BLUETOOTH_OPEN"])
  BY <1>3, ScriptFacts
<1>6. IsRest(Script["CAR_CTR_OPEN"]) /\ IsRest(Script["CAR_CTR_CLOSE"])
  BY <1>1, ScriptFacts
<1> QED
  BY <1>4, <1>5, <1>6, ScriptFacts

-----------------------------------------------------------------------------
(* Type correctness                                                         *)

\* What is left of every case is well formed, and a handler in camera_thread is
\* at the call.
RestOK ==
  /\ DOMAIN rest = Workers /\ rest = [w \in Workers |-> rest[w]]
  /\ \A w \in Workers :
       /\ IsRest(rest[w])
       /\ pc[w] = "camera" => rest[w] # <<>> /\ Head(rest[w]) = Call("camera_thread")

PanelInv == PanelTypeOK /\ RestOK

LEMMA InitInv == PanelInit => PanelInv
<1> SUFFICES ASSUME PanelInit PROVE PanelInv
  OBVIOUS
<1>1. IsRest(<<>>)
  BY EmptySeq DEF IsRest
<1>2. RestOK
  BY <1>1 DEF PanelInit, Init, RestOK
<1>3. PanelTypeOK
  BY InScreens, ScriptFacts DEF PanelInit, Init, PanelTypeOK, WorkerPcs
<1> QED
  BY <1>2, <1>3 DEF PanelInv

\* A step of bluetooth_send or init_bluetooth stays among CarControl's places.
LEMMA CarMoves ==
  ASSUME PanelInv, NEW w \in Workers,
         \E from, to \in WorkerPcs : Goto(w, from, to), UNCHANGED <<finger, panel>>
  PROVE  PanelInv'
<1>1. PICK from \in WorkerPcs, to \in WorkerPcs : Goto(w, from, to)
  OBVIOUS
<1>2. "case" \notin WorkerPcs /\ "camera" \notin WorkerPcs
  BY DEF WorkerPcs, SendPcs, OpenPcs, CarryPcs
<1>3. \A v \in Workers : v # w => pc'[v] = pc[v]
  BY <1>1 DEF PanelInv, PanelTypeOK, Goto
<1>4. pc[w] \notin PanelPcs /\ pc'[w] \notin PanelPcs /\ pc' \in [Workers -> WorkerPcs \cup PanelPcs]
  BY <1>1, <1>2 DEF PanelInv, PanelTypeOK, Goto, PanelPcs
<1>5. RestOK'
  BY <1>3, <1>4 DEF PanelInv, RestOK, panel, PanelPcs
<1>6. PanelTypeOK'
  BY <1>3, <1>4 DEF PanelInv, PanelTypeOK, panel, history
<1> QED
  BY <1>5, <1>6 DEF PanelInv

LEMMA SendPlaces ==
  ASSUME NEW w \in Workers, SendStep(w)
  PROVE  (\E from, to \in WorkerPcs : Goto(w, from, to)) /\ UNCHANGED finger
BY DEF SendStep, SendLock, ProxyNull, ProxyMade, ProxyFails, WriteNull, Write, WriteFails, Cleanup,
       SendUnlock, Lock, Unlock, WorkerPcs, SendPcs, CarryPcs, OpenPcs, orders

LEMMA OpenPlaces ==
  ASSUME NEW w \in Workers, OpenStep(w)
  PROVE  (\E from, to \in WorkerPcs : Goto(w, from, to)) /\ UNCHANGED finger
BY DEF OpenStep, ScanLock, InitCheck, InitMutexes, InitDone, InitFail, ScanEnds, Lock, Unlock, WorkerPcs,
       SendPcs, CarryPcs, OpenPcs, orders

\* A handler that does the head of its rest is left with the tail.
LEMMA RestShrinks ==
  ASSUME PanelInv, NEW w \in Workers, rest[w] # <<>>, rest' = [rest EXCEPT ![w] = Tail(@)],
         pc' = [pc EXCEPT ![w] = "case"]
  PROVE  RestOK'
<1>1. rest'[w] = Tail(rest[w]) /\ IsRest(rest'[w])
  BY TailIsRest DEF PanelInv, RestOK
<1>2. \A v \in Workers : v # w => rest'[v] = rest[v] /\ pc'[v] = pc[v]
  BY DEF PanelInv, RestOK, PanelTypeOK
<1>3. pc'[w] # "camera"
  BY DEF PanelInv, PanelTypeOK
<1> QED
  BY <1>1, <1>2, <1>3 DEF PanelInv, RestOK

LEMMA WriteKeepsInv ==
  ASSUME PanelInv, NEW w \in Workers, Write1(w)
  PROVE  PanelInv'
<1>1. Head(rest[w]) \in Statements
  BY TailIsRest DEF PanelInv, RestOK, Write1
<1>2. /\ DOMAIN shared = Names /\ DOMAIN shared' = Names
      /\ \A v \in Names : shared'[v] = IF v = Head(rest[w])[1] THEN Head(rest[w])[2] ELSE shared[v]
  BY DEF Write1, PanelInv, PanelTypeOK, Names
<1>3. \A v \in ScreenNames : shared'[v] \in Screens
  BY <1>1, <1>2, WriteFacts DEF PanelInv, PanelTypeOK, ScreenNames, Names
<1>4. \A v \in Flags : shared'[v] \in BOOLEAN
  BY <1>1, <1>2, WriteFacts DEF PanelInv, PanelTypeOK, Flags, Names
<1>5. pc' = [pc EXCEPT ![w] = "case"] /\ UNCHANGED <<pc, touch, finger, early, alone, overlap>>
  BY DEF Write1, vars, orders, history, PanelInv, PanelTypeOK
<1>6. RestOK'
  BY <1>5, RestShrinks DEF Write1
<1>7. \A v \in Workers : rest'[v] # <<>> => pc'[v] \in PanelPcs
  BY <1>5 DEF Write1, PanelInv, PanelTypeOK, PanelPcs, RestOK
<1> QED
  BY <1>2, <1>3, <1>4, <1>5, <1>6, <1>7 DEF PanelInv, PanelTypeOK, ScreenNames, Flags, Names

LEMMA CameraKeepsInv ==
  ASSUME PanelInv, NEW w \in Workers, CallCamera(w) \/ CameraReturns(w)
  PROVE  PanelInv'
<1>1. UNCHANGED <<shared, touch, finger, early, alone, overlap>>
  BY DEF CallCamera, CameraReturns, panel, history, orders
<1>2. pc' \in [Workers -> WorkerPcs \cup PanelPcs] /\ pc'[w] \in PanelPcs
  BY DEF CallCamera, CameraReturns, Goto, PanelInv, PanelTypeOK, PanelPcs
<1>3. \A v \in Workers : v # w => pc'[v] = pc[v]
  BY DEF CallCamera, CameraReturns, Goto, PanelInv, PanelTypeOK
<1>4. RestOK'
  <2>1. CASE CallCamera(w)
    BY <1>3, <2>1 DEF CallCamera, panel, Goto, PanelInv, RestOK
  <2>2. CASE CameraReturns(w)
    BY <2>2, RestShrinks DEF CameraReturns, Goto, PanelInv, RestOK
  <2> QED
    BY <2>1, <2>2
<1>5. \A v \in Workers : v # w => rest'[v] = rest[v]
  BY DEF CallCamera, CameraReturns, panel, PanelInv, RestOK
<1> QED
  BY <1>1, <1>2, <1>3, <1>4, <1>5 DEF PanelInv, PanelTypeOK

LEMMA FinishKeepsInv ==
  ASSUME PanelInv, NEW w \in Workers, CallScan(w) \/ HandlerDone(w)
  PROVE  PanelInv'
<1>1. UNCHANGED <<shared, touch, finger, early, alone>> /\ rest' = [rest EXCEPT ![w] = <<>>]
  BY DEF CallScan, HandlerDone, Finish, orders
<1>2. overlap' \in {"never", "earlier", "last"}
  BY DEF CallScan, HandlerDone, Finish, PanelInv, PanelTypeOK
<1>3. pc' \in [Workers -> WorkerPcs \cup PanelPcs] /\ pc'[w] # "camera"
  BY DEF CallScan, HandlerDone, Goto, PanelInv, PanelTypeOK, WorkerPcs, OpenPcs
<1>4. \A v \in Workers : v # w => pc'[v] = pc[v] /\ rest'[v] = rest[v]
  BY <1>1 DEF CallScan, HandlerDone, Goto, PanelInv, PanelTypeOK, RestOK
<1>5. rest'[w] = <<>> /\ IsRest(<<>>)
  BY <1>1, EmptySeq DEF PanelInv, RestOK, IsRest
<1>6. RestOK'
  BY <1>1, <1>3, <1>4, <1>5 DEF PanelInv, RestOK
<1> QED
  BY <1>1, <1>2, <1>3, <1>4, <1>5, <1>6 DEF PanelInv, PanelTypeOK

LEMMA FingerKeepsInv ==
  ASSUME PanelInv, NEW w \in Workers, FingerStep(w)
  PROVE  PanelInv'
<1>1. CASE TouchSwitch
  <2>1. touch' \in DOMAIN Script /\ ~finger
    BY <1>1, ButtonsFacts DEF TouchSwitch, PanelInv, PanelTypeOK
  <2>2. touch' # "drive"
    BY <2>1, ScriptFacts
  <2>3. UNCHANGED <<pc, finger, shared, rest, alone, overlap>> /\ early' \in BOOLEAN
    BY <1>1 DEF TouchSwitch, vars, orders
  <2> QED
    BY <2>1, <2>2, <2>3 DEF PanelInv, PanelTypeOK, RestOK
<1>2. CASE TouchDrive(w) \/ LiftDrive(w)
  <2>1. /\ pc[w] = "idle" /\ pc' = [pc EXCEPT ![w] = "lock"]
        /\ UNCHANGED <<shared, rest, early, alone, overlap>>
        /\ (touch' = "drive" <=> finger') /\ touch' \in {"none", "drive"} /\ finger' \in BOOLEAN
    BY <1>2 DEF TouchDrive, LiftDrive, Press, Release, Give, Goto, history
  <2>2. pc' \in [Workers -> WorkerPcs \cup PanelPcs] /\ rest[w] = <<>> /\ pc'[w] = "lock"
    BY <2>1 DEF PanelInv, PanelTypeOK, WorkerPcs, SendPcs, CarryPcs, PanelPcs
  <2>3. \A v \in Workers : v # w => pc'[v] = pc[v]
    BY <2>1 DEF PanelInv, PanelTypeOK
  <2> QED
    BY <2>1, <2>2, <2>3 DEF PanelInv, PanelTypeOK, RestOK
<1>3. CASE LiftSwitch(w)
  <2>1. /\ pc[w] = "idle" /\ pc' = [pc EXCEPT ![w] = "case"] /\ touch \in DOMAIN Script /\ touch' = "none"
        /\ rest' = [rest EXCEPT ![w] = Script[touch]]
        /\ UNCHANGED <<shared, finger, early, overlap>>
    BY <1>3 DEF LiftSwitch, StartHandler, Goto, orders
  <2>2. alone' \in [Workers -> BOOLEAN]
    BY <1>3 DEF LiftSwitch, StartHandler, PanelInv, PanelTypeOK
  <2>3. pc' \in [Workers -> WorkerPcs \cup PanelPcs] /\ pc'[w] = "case"
    BY <2>1 DEF PanelInv, PanelTypeOK, PanelPcs
  <2>4. IsRest(Script[touch]) /\ touch # "drive"
    BY <2>1, ScriptIsRest, ScriptFacts
  <2>5. \A v \in Workers : v # w => pc'[v] = pc[v] /\ rest'[v] = rest[v]
    BY <2>1 DEF PanelInv, PanelTypeOK, RestOK
  <2>6. RestOK'
    BY <2>1, <2>3, <2>4, <2>5 DEF PanelInv, RestOK
  <2> QED
    BY <2>1, <2>2, <2>3, <2>4, <2>5, <2>6 DEF PanelInv, PanelTypeOK, PanelPcs
<1> QED
  BY <1>1, <1>2, <1>3 DEF FingerStep

LEMMA NextKeepsInv == PanelInv /\ [PanelNext]_pvars => PanelInv'
<1> SUFFICES ASSUME PanelInv, [PanelNext]_pvars PROVE PanelInv'
  OBVIOUS
<1>1. CASE UNCHANGED pvars
  BY <1>1 DEF pvars, vars, orders, panel, history, PanelInv, PanelTypeOK, RestOK
<1>2. ASSUME NEW w \in Workers, HandlerStep(w) PROVE PanelInv'
  BY <1>2, WriteKeepsInv, CameraKeepsInv, FinishKeepsInv DEF HandlerStep
<1>3. ASSUME NEW w \in Workers, ScanOver(w) \/ BluetoothStep(w) PROVE PanelInv'
  <2>1. (OpenStep(w) \/ SendStep(w)) /\ UNCHANGED panel
    BY <1>3 DEF ScanOver, BluetoothStep, OpenStep
  <2> QED
    BY <2>1, CarMoves, SendPlaces, OpenPlaces
<1> QED
  BY <1>1, <1>2, <1>3, FingerKeepsInv DEF PanelNext

\* Types of the panel are invariant: whatever the handlers and the finger do, the
\* screen that is loaded and the one redrawn are screens, what is left of a case is
\* in a handler, and a drive button is down exactly while its finger is.
THEOREM PanelTypeCorrect == PanelSpec => []PanelTypeOK
<1>1. PanelSpec => []PanelInv
  BY InitInv, NextKeepsInv, PTL DEF PanelSpec
<1> QED
  BY <1>1, PTL DEF PanelInv

-----------------------------------------------------------------------------
(* The panel runs car control                                               *)

\* pc as car control sees it.
Seen == [w \in Workers |-> IF pc[w] \in PanelPcs THEN "idle" ELSE pc[w]]

LEMMA PlacesApart == \A p \in WorkerPcs : p \notin PanelPcs
BY DEF WorkerPcs, SendPcs, CarryPcs, OpenPcs, PanelPcs

\* A move among car control's places is the same move in its view.
LEMMA SeenMoves ==
  ASSUME PanelInv, NEW w \in Workers, NEW from, NEW to, Goto(w, from, to), to \notin PanelPcs
  PROVE  /\ Seen' = [Seen EXCEPT ![w] = to]
         /\ Seen[w] = IF from \in PanelPcs THEN "idle" ELSE from
BY DEF Seen, Goto, PanelInv, PanelTypeOK

LEMMA ViewMoves ==
  ASSUME PanelInv, NEW w \in Workers, NEW from \in WorkerPcs, NEW to \in WorkerPcs, Goto(w, from, to)
  PROVE  CarView!Goto(w, from, to)
<1>1. Seen' = [Seen EXCEPT ![w] = to] /\ Seen[w] = from
  BY SeenMoves, PlacesApart
<1> QED
  BY <1>1 DEF CarView!Goto, Seen

LEMMA InPlaces == SendPcs \subseteq WorkerPcs /\ OpenPcs \subseteq WorkerPcs /\ "idle" \in WorkerPcs
BY DEF WorkerPcs

LEMMA SendSeen ==
  ASSUME PanelInv, NEW w \in Workers, SendStep(w)
  PROVE  CarView!SendStep(w)
<1> USE InPlaces DEF SendPcs, CarryPcs, locks, bus, orders, result, CarView!locks, CarView!bus,
                     CarView!orders, CarView!result
<1>1. CASE SendLock(w)
  BY <1>1, ViewMoves DEF SendLock, Lock, CarView!SendLock, CarView!Lock, CarView!SendStep
<1>2. CASE ProxyNull(w)
  BY <1>2, ViewMoves DEF ProxyNull, CarView!ProxyNull, CarView!SendStep
<1>3. CASE ProxyMade(w)
  BY <1>3, ViewMoves DEF ProxyMade, CarView!ProxyMade, CarView!SendStep
<1>4. CASE ProxyFails(w)
  BY <1>4, ViewMoves DEF ProxyFails, GiveUp, CarView!ProxyFails, CarView!GiveUp, CarView!SendStep
<1>5. CASE WriteNull(w)
  BY <1>5, ViewMoves DEF WriteNull, GiveUp, CarView!WriteNull, CarView!GiveUp, CarView!SendStep
<1>6. CASE Write(w)
  BY <1>6, ViewMoves DEF Write, CarView!Write, CarView!SendStep
<1>7. CASE WriteFails(w)
  BY <1>7, ViewMoves DEF WriteFails, GiveUp, CarView!WriteFails, CarView!GiveUp, CarView!SendStep
<1>8. CASE Cleanup(w)
  BY <1>8, ViewMoves DEF Cleanup, CarView!Cleanup, CarView!SendStep
<1>9. CASE SendUnlock(w)
  BY <1>9, ViewMoves DEF SendUnlock, Unlock, CarView!SendUnlock, CarView!Unlock, CarView!SendStep
<1> QED
  BY <1>1, <1>2, <1>3, <1>4, <1>5, <1>6, <1>7, <1>8, <1>9 DEF SendStep

LEMMA OpenSeen ==
  ASSUME PanelInv, NEW w \in Workers, OpenStep(w)
  PROVE  CarView!OpenStep(w)
<1> USE InPlaces DEF OpenPcs, Locks, CarView!Locks, locks, bus, orders, result, CarView!locks,
                     CarView!bus, CarView!orders, CarView!result
<1>1. CASE ScanLock(w)
  BY <1>1, ViewMoves DEF ScanLock, Lock, CarView!ScanLock, CarView!Lock, CarView!OpenStep
<1>2. CASE InitCheck(w)
  <2>1. PICK next \in {"scan", "mutexes"} : next = (IF initFlag THEN "scan" ELSE "mutexes")
    OBVIOUS
  <2>2. Goto(w, "init", next) /\ next \in WorkerPcs /\ "init" \in WorkerPcs
    BY <1>2, <2>1 DEF InitCheck
  <2>3. CarView!Goto(w, "init", next)
    BY <2>2, ViewMoves
  <2> QED
    BY <1>2, <2>1, <2>3 DEF InitCheck, CarView!Goto, CarView!InitCheck, CarView!OpenStep
<1>3. CASE InitMutexes(w)
  BY <1>3, ViewMoves DEF InitMutexes, CarView!InitMutexes, CarView!OpenStep
<1>4. CASE InitDone(w)
  BY <1>4, ViewMoves DEF InitDone, CarView!InitDone, CarView!OpenStep
<1>5. CASE InitFail(w)
  BY <1>5, ViewMoves DEF InitFail, CarView!InitFail, CarView!OpenStep
<1>6. CASE ScanEnds(w)
  BY <1>6, ViewMoves DEF ScanEnds, Unlock, CarView!ScanEnds, CarView!Unlock, CarView!OpenStep
<1> QED
  BY <1>1, <1>2, <1>3, <1>4, <1>5, <1>6 DEF OpenStep

LEMMA ScanSeen ==
  ASSUME PanelInv, NEW w \in Workers, CallScan(w)
  PROVE  CarView!OpenBluetooth(w)
<1>1. Goto(w, "case", "scan_lock") /\ "case" \in PanelPcs /\ "scan_lock" \notin PanelPcs
  BY DEF CallScan, PanelPcs
<1>2. Seen' = [Seen EXCEPT ![w] = "scan_lock"] /\ Seen[w] = "idle"
  BY <1>1, SeenMoves
<1> QED
  BY <1>2 DEF CallScan, Finish, CarView!OpenBluetooth, CarView!Goto, Seen, locks, bus, orders, result,
              CarView!locks, CarView!bus, CarView!orders, CarView!result

LEMMA DriveSeen ==
  ASSUME PanelInv, NEW w \in Workers, TouchDrive(w) \/ LiftDrive(w)
  PROVE  CarView!Press(w) \/ CarView!Release(w)
<1>1. ASSUME NEW c \in Commands, Give(w, c) PROVE CarView!Give(w, c)
  <2>1. CarView!Goto(w, "idle", "lock")
    BY <1>1, ViewMoves, InPlaces DEF Give, SendPcs, CarryPcs
  <2> QED
    BY <1>1, <2>1 DEF Give, CarView!Give, locks, bus, result, CarView!locks, CarView!bus, CarView!result
<1> QED
  BY <1>1 DEF TouchDrive, LiftDrive, Press, Release, CarView!Press, CarView!Release, Commands,
              CarView!Commands

\* Steps of a case leave a handler idle in the view.
LEMMA CaseUnseen ==
  ASSUME PanelInv, NEW w \in Workers,
         \/ Write1(w) \/ CallCamera(w) \/ CameraReturns(w) \/ HandlerDone(w) \/ TouchSwitch \/ LiftSwitch(w)
  PROVE  UNCHANGED CarView!vars
<1>1. UNCHANGED <<locks, bus, orders, result, crash>>
  BY DEF Write1, CallCamera, CameraReturns, HandlerDone, Finish, TouchSwitch, LiftSwitch, StartHandler, vars
<1>2. \/ UNCHANGED pc
      \/ \E from, to \in {"idle"} \cup PanelPcs : Goto(w, from, to)
  BY DEF Write1, CallCamera, CameraReturns, HandlerDone, TouchSwitch, LiftSwitch, StartHandler, vars, PanelPcs
<1>3. Seen' = Seen
  <2>1. CASE UNCHANGED pc
    BY <2>1 DEF Seen
  <2>2. ASSUME NEW from \in {"idle"} \cup PanelPcs, NEW to \in {"idle"} \cup PanelPcs, Goto(w, from, to)
        PROVE  Seen' = Seen
    BY <2>2 DEF Seen, Goto, PanelInv, PanelTypeOK
  <2> QED
    BY <1>2, <2>1, <2>2
<1> QED
  BY <1>1, <1>3 DEF CarView!vars, CarView!locks, CarView!bus, CarView!orders, CarView!result, locks, bus,
                    orders, result, Seen

LEMMA NextSeen == PanelInv /\ [PanelNext]_pvars => [CarView!Next]_(CarView!vars)
<1> SUFFICES ASSUME PanelInv, [PanelNext]_pvars PROVE [CarView!Next]_(CarView!vars)
  OBVIOUS
<1>1. CASE UNCHANGED pvars
  BY <1>1 DEF pvars, vars, locks, bus, orders, result, CarView!vars, CarView!locks, CarView!bus,
              CarView!orders, CarView!result
<1>2. ASSUME Running, NEW w \in Workers, HandlerStep(w) PROVE [CarView!Next]_(CarView!vars)
  BY <1>2, ScanSeen, CaseUnseen DEF HandlerStep, Running, CarView!Running, CarView!Next, CarView!UserStep
<1>3. ASSUME Running, NEW w \in Workers, FingerStep(w) PROVE [CarView!Next]_(CarView!vars)
  BY <1>3, DriveSeen, CaseUnseen DEF FingerStep, Running, CarView!Running, CarView!Next, CarView!UserStep
<1>4. ASSUME Running, NEW w \in Workers, ScanOver(w) \/ BluetoothStep(w)
      PROVE  [CarView!Next]_(CarView!vars)
  <2>1. OpenStep(w) \/ SendStep(w)
    BY <1>4 DEF ScanOver, BluetoothStep, OpenStep
  <2> QED
    BY <1>4, <2>1, OpenSeen, SendSeen DEF Running, CarView!Running, CarView!Next
<1> QED
  BY <1>1, <1>2, <1>3, <1>4 DEF PanelNext

LEMMA InitSeen == PanelInit => CarView!Init
BY DEF PanelInit, Init, CarView!Init, Locks, CarView!Locks, PanelPcs

\* The panel implements car control: what CarControl guarantees of the commands it
\* guarantees whatever screens are opened and closed around it.
THEOREM PanelImplementsCar == PanelSpec => CarSpec
<1>1. PanelSpec => []PanelInv
  BY InitInv, NextKeepsInv, PTL DEF PanelSpec
<1> QED
  BY <1>1, InitSeen, NextSeen, PTL DEF PanelSpec, CarSpec, CarView!Spec

-----------------------------------------------------------------------------
(* What is proved of car control holds of the panel.  CarFacts are the      *)
(* theorems of CarControlProofs about what the panel shows of itself.       *)

CarFacts == INSTANCE CarControlProofs WITH pc <- Seen

LEMMA SameInit == CarView!Init => CarFacts!Init
BY DEF CarView!Init, CarFacts!Init, CarView!Locks, CarFacts!Locks, Seen

LEMMA SameNext == [CarView!Next]_(CarView!vars) => [CarFacts!Next]_(CarFacts!vars)
BY DEF CarView!OpenBluetooth, CarFacts!OpenBluetooth, CarView!ScanLock, CarFacts!ScanLock,
     CarView!InitCheck, CarFacts!InitCheck, CarView!InitMutexes, CarFacts!InitMutexes,
     CarView!InitDone, CarFacts!InitDone, CarView!InitFail, CarFacts!InitFail, CarView!ScanEnds,
     CarFacts!ScanEnds, CarView!SendLock, CarFacts!SendLock, CarView!ProxyNull, CarFacts!ProxyNull,
     CarView!ProxyMade, CarFacts!ProxyMade, CarView!ProxyFails, CarFacts!ProxyFails,
     CarView!WriteNull, CarFacts!WriteNull, CarView!Write, CarFacts!Write, CarView!WriteFails,
     CarFacts!WriteFails, CarView!Cleanup, CarFacts!Cleanup, CarView!SendUnlock,
     CarFacts!SendUnlock, CarView!Press, CarFacts!Press, CarView!Release, CarFacts!Release,
     CarView!Give, CarFacts!Give, CarView!GiveUp, CarFacts!GiveUp, CarView!Lock, CarFacts!Lock,
     CarView!Unlock, CarFacts!Unlock, CarView!Goto, CarFacts!Goto, CarView!Running,
     CarFacts!Running, CarView!OpenStep, CarFacts!OpenStep, CarView!SendStep, CarFacts!SendStep,
     CarView!UserStep, CarFacts!UserStep, CarView!Next, CarFacts!Next, CarView!vars, CarFacts!vars,
     CarView!locks, CarFacts!locks, CarView!bus, CarFacts!bus, CarView!orders, CarFacts!orders,
     CarView!result, CarFacts!result, CarView!Locks, CarFacts!Locks, CarView!Commands,
     CarFacts!Commands, Seen

LEMMA SeenBehaves == PanelSpec => CarFacts!Spec
<1>1. PanelSpec => []PanelInv
  BY InitInv, NextKeepsInv, PTL DEF PanelSpec
<1> QED
  BY <1>1, InitSeen, NextSeen, SameInit, SameNext, PTL DEF PanelSpec, CarFacts!Spec

\* The assumptions of CarControl, as CarFacts has them.
LEMMA CarAssumptions ==
  /\ Workers # {} /\ CarFacts!IsFiniteSet(Workers)
  /\ Stop \notin Drives
  /\ MaxGiven \in Nat /\ MaxFailures \in Nat
BY WorkersAssumption, CommandsAssumption, BoundsAssumption DEF IsFiniteSet, CarFacts!IsFiniteSet

\* A handler that carries a command shows it.
LEMMA SeenCarries ==
  /\ \A w \in Workers : Seen[w] \in CarFacts!CarryPcs <=> pc[w] \in CarryPcs
  /\ CarFacts!InHand = InHand
<1>1. ASSUME NEW w \in Workers PROVE Seen[w] \in CarFacts!CarryPcs <=> pc[w] \in CarryPcs
  BY DEF Seen, PanelPcs, CarFacts!CarryPcs, CarryPcs
<1> QED
  BY <1>1 DEF CarFacts!InHand, InHand

\* With every screen around them, commands are still in one place each: sent once,
\* given up or under way.
THEOREM PanelAccounted == PanelSpec => []CommandsAccounted
<1>1. CarFacts!CommandsAccounted => CommandsAccounted
  BY SeenCarries DEF CarFacts!CommandsAccounted, CommandsAccounted, CarFacts!ToSet, ToSet,
     CarFacts!IsInjective, IsInjective
<1>2. CarFacts!Spec => []CarFacts!CommandsAccounted
  BY CarAssumptions, CarFacts!Accounted
<1> QED
  BY <1>1, <1>2, SeenBehaves, PTL

\* And a car that nobody drives stands still, unless a Stop was overtaken or lost:
\* no change of the screen under the finger swallows one.
THEOREM PanelStopSafe == PanelSpec => []StopsUnlessOvertaken
<1>1. CarFacts!StopsUnlessOvertaken => StopsUnlessOvertaken
  BY SeenCarries DEF CarFacts!StopsUnlessOvertaken, StopsUnlessOvertaken, CarFacts!Last, Last
<1>2. CarFacts!Spec => []CarFacts!StopsUnlessOvertaken
  BY CarAssumptions, CarFacts!StopSafe
<1> QED
  BY <1>1, <1>2, SeenBehaves, PTL

\* The panel implements the abstract link of commands, through car control.
THEOREM PanelImplementsLink == PanelSpec => LinkSpec
<1>1. CarFacts!Link!Init => Link!Init
  BY SeenCarries DEF CarFacts!Link!Init, Link!Init
<1>2. ASSUME [CarFacts!Link!Next]_(CarFacts!Link!vars)
      PROVE  [Link!Next]_(Link!vars)
  <2>1. \A w \in Workers : Seen'[w] \in CarFacts!CarryPcs <=> pc'[w] \in CarryPcs
    BY DEF Seen, PanelPcs, CarFacts!CarryPcs, CarryPcs
  <2>2. CarFacts!InHand' = InHand'
    BY <2>1 DEF CarFacts!InHand, InHand, CarFacts!CarryPcs, CarryPcs
  <2> QED
    BY <1>2, <2>2, SeenCarries DEF CarFacts!Link!Next, CarFacts!Link!vars, CarFacts!Link!Give,
       CarFacts!Link!Deliver, CarFacts!Link!GiveUp, Link!Next, Link!vars, Link!Give, Link!Deliver, Link!GiveUp
<1>3. CarFacts!Spec => CarFacts!LinkSpec
  BY CarAssumptions, CarFacts!Implements
<1> QED
  BY <1>1, <1>2, <1>3, SeenBehaves, PTL DEF LinkSpec, Link!Spec, CarFacts!LinkSpec, CarFacts!Link!Spec

-----------------------------------------------------------------------------
(* The screens agree                                                        *)

\* The two halves of ScreensAgree, of any values of the shared variables.
Shown(f) ==
  /\ f["present_screen"] = f["loaded"]
  /\ f["loaded"] = "BULETOOTH_SCREEN" => f["bluetooth_scan_using"]
  /\ f["loaded"] = "CAMERA_SCREEN" => f["camera_using"]

Clean(f) ==
  /\ f["bluetooth_scan_using"] => f["loaded"] = "BULETOOTH_SCREEN"
  /\ f["camera_using"] => f["loaded"] = "CAMERA_SCREEN"

\* f is what the shared variables come to when r has been done and nothing else.
Outcome(r, f) ==
  \A v \in Names :
    /\ \A i \in 1 .. Len(r) : r[i][1] = v => f[v] = r[i][2]
    /\ (\A i \in 1 .. Len(r) : r[i][1] # v) => f[v] = shared[v]

\* A button touched when all was quiet is still a button of the screen.
TouchQuiet == touch \in DOMAIN Script /\ ~early => AtWork = {} /\ touch \in Buttons[shared["loaded"]]

\* A handler that is alone will leave the screens in agreement.
AloneAgrees ==
  \A w \in AtWork : alone[w] =>
    /\ AtWork = {w}
    /\ \E f : Outcome(rest[w], f) /\ Shown(f) /\ (overlap = "never" => Clean(f))

AgreeInv == PanelInv /\ TouchQuiet /\ AloneAgrees /\ ScreensAgree

LEMMA AtWorkMoves ==
  ASSUME PanelInv, NEW w \in Workers, NEW from, NEW to, Goto(w, from, to)
  PROVE  /\ AtWork' = IF to \in PanelPcs THEN AtWork \cup {w} ELSE AtWork \ {w}
         /\ w \in AtWork <=> from \in PanelPcs
BY DEF AtWork, Goto, PanelInv, PanelTypeOK

LEMMA OutcomeOfTwo ==
  ASSUME NEW v, NEW x, NEW u, NEW y, NEW f,
         u # v, f[v] = x, f[u] = y,
         \A n \in Names \ {u, v} : f[n] = shared[n]
  PROVE  Outcome(<<Set(v, x), Set(u, y)>>, f)
BY SetFacts DEF Outcome

LEMMA OutcomeOfThree ==
  ASSUME NEW v, NEW x, NEW u, NEW y, NEW t, NEW z, NEW f,
         u # v, t # v, t # u, f[v] = x, f[u] = y, f[t] = z,
         \A n \in Names \ {u, v, t} : f[n] = shared[n]
  PROVE  Outcome(<<Set(v, x), Set(u, y), Set(t, z)>>, f)
BY SetFacts DEF Outcome

LEMMA FourElements ==
  ASSUME NEW a, NEW b, NEW c, NEW d
  PROVE  /\ Len(<<a, b, c, d>>) = 4
         /\ <<a, b, c, d>>[1] = a /\ <<a, b, c, d>>[2] = b
         /\ <<a, b, c, d>>[3] = c /\ <<a, b, c, d>>[4] = d
OBVIOUS

LEMMA CallsApart == \A n \in Names : n \notin Calls
BY DEF Names, Calls

\* The same for a case of four statements, one of which, at c, is a call.
LEMMA OutcomeOfFour ==
  ASSUME NEW r, NEW v, NEW x, NEW u, NEW y, NEW t, NEW z, NEW call \in Calls, NEW c \in {3, 4}, NEW f,
         Len(r) = 4, r[1] = Set(v, x), r[2] = Set(u, y), r[c] = Call(call), r[7 - c] = Set(t, z),
         f[v] = x, f[u] = y, f[t] = z,
         \A n \in Names \ {u, v, t} : f[n] = shared[n]
  PROVE  Outcome(r, f)
<1>1. /\ Set(v, x)[1] = v /\ Set(v, x)[2] = x /\ Set(u, y)[1] = u /\ Set(u, y)[2] = y
      /\ Set(t, z)[1] = t /\ Set(t, z)[2] = z /\ Call(call)[1] = call
  BY SetFacts, CallFacts
<1>2. ASSUME NEW n \in Names, NEW i \in 1 .. 4, r[i][1] = n PROVE f[n] = r[i][2]
  <2>1. i = 1 \/ i = 2 \/ i = c \/ i = 7 - c
    OBVIOUS
  <2> QED
    BY <1>1, <1>2, <2>1, CallsApart
<1>3. ASSUME NEW n \in Names, \A i \in 1 .. 4 : r[i][1] # n PROVE f[n] = shared[n]
  <2>1. r[1][1] # n /\ r[2][1] # n /\ r[7 - c][1] # n
    BY <1>3
  <2> QED
    BY <1>1, <2>1
<1> QED
  BY <1>2, <1>3 DEF Outcome

\* The scripts, with names for the values of the flags.
LEMMA FlagScripts ==
  \E off, on \in BOOLEAN :
    /\ ~off /\ on
    /\ Script["CAMERA_CLOSE"] = <<Set("camera_using", off), Set("loaded", "MENU_SCREEN"),
                                  Set("present_screen", "MENU_SCREEN")>>
    /\ Script["BLUETOOTH_CLOSE"] = <<Set("bluetooth_scan_using", off), Set("loaded", "MENU_SCREEN"),
                                     Set("present_screen", "MENU_SCREEN")>>
    /\ Script["CAMERA_START"] = <<Set("camera_using", on), Set("loaded", "CAMERA_SCREEN"),
                                  Call("camera_thread"), Set("present_screen", "CAMERA_SCREEN")>>
    /\ Script["BLUETOOTH_OPEN"] = <<Set("loaded", "BULETOOTH_SCREEN"), Set("bluetooth_scan_using", on),
                                    Set("present_screen", "BULETOOTH_SCREEN"),
                                    Call("bluetooth_scan_thread")>>
<1> WITNESS FALSE \in BOOLEAN, TRUE \in BOOLEAN
<1> QED
  BY ScriptFacts

\* Each case, done from the screen its button is on, leads to agreement.
LEMMA CaseAgrees ==
  ASSUME PanelInv, NEW e \in Buttons[shared["loaded"]]
  PROVE  \E f : Outcome(Script[e], f) /\ Shown(f) /\ (Clean(shared) => Clean(f))
<1>0. /\ shared["loaded"] \in Screens /\ DOMAIN shared = Names
      /\ shared["camera_using"] \in BOOLEAN /\ shared["bluetooth_scan_using"] \in BOOLEAN
  BY DEF PanelInv, PanelTypeOK, Names
<1>a. PICK off \in BOOLEAN, on \in BOOLEAN :
    /\ ~off /\ on
    /\ Script["CAMERA_CLOSE"] = <<Set("camera_using", off), Set("loaded", "MENU_SCREEN"),
                                  Set("present_screen", "MENU_SCREEN")>>
    /\ Script["BLUETOOTH_CLOSE"] = <<Set("bluetooth_scan_using", off), Set("loaded", "MENU_SCREEN"),
                                     Set("present_screen", "MENU_SCREEN")>>
    /\ Script["CAMERA_START"] = <<Set("camera_using", on), Set("loaded", "CAMERA_SCREEN"),
                                  Call("camera_thread"), Set("present_screen", "CAMERA_SCREEN")>>
    /\ Script["BLUETOOTH_OPEN"] = <<Set("loaded", "BULETOOTH_SCREEN"), Set("bluetooth_scan_using", on),
                                    Set("present_screen", "BULETOOTH_SCREEN"),
                                    Call("bluetooth_scan_thread")>>
  BY FlagScripts
<1>1. CASE e = "CAMERA_CLOSE" /\ shared["loaded"] = "CAMERA_SCREEN"
  <2> DEFINE f == [shared EXCEPT !["camera_using"] = off, !["loaded"] = "MENU_SCREEN",
                                 !["present_screen"] = "MENU_SCREEN"]
  <2>1. /\ f["camera_using"] = off /\ f["loaded"] = "MENU_SCREEN" /\ f["present_screen"] = "MENU_SCREEN"
        /\ f["bluetooth_scan_using"] = shared["bluetooth_scan_using"]
    BY <1>0 DEF Names
  <2> HIDE DEF f
  <2>2. Outcome(Script[e], f)
    BY <1>a, <1>1, <2>1, OutcomeOfThree DEF Names
  <2> QED
    BY <1>a, <1>1, <2>1, <2>2 DEF Shown, Clean
<1>2. CASE e = "BLUETOOTH_CLOSE" /\ shared["loaded"] = "BULETOOTH_SCREEN"
  <2> DEFINE f == [shared EXCEPT !["bluetooth_scan_using"] = off, !["loaded"] = "MENU_SCREEN",
                                 !["present_screen"] = "MENU_SCREEN"]
  <2>1. /\ f["bluetooth_scan_using"] = off /\ f["loaded"] = "MENU_SCREEN"
        /\ f["present_screen"] = "MENU_SCREEN" /\ f["camera_using"] = shared["camera_using"]
    BY <1>0 DEF Names
  <2> HIDE DEF f
  <2>2. Outcome(Script[e], f)
    BY <1>a, <1>2, <2>1, OutcomeOfThree DEF Names
  <2> QED
    BY <1>a, <1>2, <2>1, <2>2 DEF Shown, Clean
<1>3. CASE e = "CAR_CTR_CLOSE" /\ shared["loaded"] = "CAR_CTR_SCREEN"
  <2> DEFINE f == [shared EXCEPT !["loaded"] = "MENU_SCREEN", !["present_screen"] = "MENU_SCREEN"]
  <2>1. /\ f["loaded"] = "MENU_SCREEN" /\ f["present_screen"] = "MENU_SCREEN"
        /\ f["bluetooth_scan_using"] = shared["bluetooth_scan_using"]
        /\ f["camera_using"] = shared["camera_using"]
    BY <1>0 DEF Names
  <2> HIDE DEF f
  <2>2. Outcome(Script[e], f)
    BY <1>3, <2>1, ScriptFacts, OutcomeOfTwo DEF Names
  <2> QED
    BY <1>3, <2>1, <2>2 DEF Shown, Clean
<1>4. CASE e = "CAR_CTR_OPEN" /\ shared["loaded"] = "MENU_SCREEN"
  <2> DEFINE f == [shared EXCEPT !["loaded"] = "CAR_CTR_SCREEN", !["present_screen"] = "CAR_CTR_SCREEN"]
  <2>1. /\ f["loaded"] = "CAR_CTR_SCREEN" /\ f["present_screen"] = "CAR_CTR_SCREEN"
        /\ f["bluetooth_scan_using"] = shared["bluetooth_scan_using"]
        /\ f["camera_using"] = shared["camera_using"]
    BY <1>0 DEF Names
  <2> HIDE DEF f
  <2>2. Outcome(Script[e], f)
    BY <1>4, <2>1, ScriptFacts, OutcomeOfTwo DEF Names
  <2> QED
    BY <1>4, <2>1, <2>2 DEF Shown, Clean
<1>5. CASE e = "CAMERA_START" /\ shared["loaded"] = "MENU_SCREEN"
  <2> DEFINE f == [shared EXCEPT !["camera_using"] = on, !["loaded"] = "CAMERA_SCREEN",
                                 !["present_screen"] = "CAMERA_SCREEN"]
  <2>1. /\ f["camera_using"] = on /\ f["loaded"] = "CAMERA_SCREEN" /\ f["present_screen"] = "CAMERA_SCREEN"
        /\ f["bluetooth_scan_using"] = shared["bluetooth_scan_using"]
    BY <1>0 DEF Names
  <2> HIDE DEF f
  <2>2. Outcome(Script[e], f)
    <3>1. \A n \in Names \ {"camera_using", "loaded", "present_screen"} : f[n] = shared[n]
      BY <2>1 DEF Names
    <3>2. "camera_thread" \in Calls
      BY DEF Calls
    <3>3. /\ Len(Script[e]) = 4
          /\ Script[e][1] = Set("camera_using", on) /\ Script[e][2] = Set("loaded", "CAMERA_SCREEN")
          /\ Script[e][3] = Call("camera_thread")
          /\ Script[e][7 - 3] = Set("present_screen", "CAMERA_SCREEN")
      <4>1. Script[e] = <<Set("camera_using", on), Set("loaded", "CAMERA_SCREEN"),
                          Call("camera_thread"), Set("present_screen", "CAMERA_SCREEN")>>
        BY <1>a, <1>5
      <4>2. 7 - 3 = 4
        OBVIOUS
      <4> QED
        BY ONLY <4>1, <4>2, FourElements
    <3> QED
      BY <2>1, <3>1, <3>2, <3>3, OutcomeOfFour
  <2> QED
    BY <1>a, <1>5, <2>1, <2>2 DEF Shown, Clean
<1>6. CASE e = "BLUETOOTH_OPEN" /\ shared["loaded"] = "MENU_SCREEN"
  <2> DEFINE f == [shared EXCEPT !["bluetooth_scan_using"] = on, !["loaded"] = "BULETOOTH_SCREEN",
                                 !["present_screen"] = "BULETOOTH_SCREEN"]
  <2>1. /\ f["bluetooth_scan_using"] = on /\ f["loaded"] = "BULETOOTH_SCREEN"
        /\ f["present_screen"] = "BULETOOTH_SCREEN" /\ f["camera_using"] = shared["camera_using"]
    BY <1>0 DEF Names
  <2> HIDE DEF f
  <2>2. Outcome(Script[e], f)
    <3>1. \A n \in Names \ {"loaded", "bluetooth_scan_using", "present_screen"} : f[n] = shared[n]
      BY <2>1 DEF Names
    <3>2. "bluetooth_scan_thread" \in Calls
      BY DEF Calls
    <3>3. /\ Len(Script[e]) = 4
          /\ Script[e][1] = Set("loaded", "BULETOOTH_SCREEN") /\ Script[e][2] = Set("bluetooth_scan_using", on)
          /\ Script[e][4] = Call("bluetooth_scan_thread")
          /\ Script[e][7 - 4] = Set("present_screen", "BULETOOTH_SCREEN")
      <4>1. Script[e] = <<Set("loaded", "BULETOOTH_SCREEN"), Set("bluetooth_scan_using", on),
                          Set("present_screen", "BULETOOTH_SCREEN"), Call("bluetooth_scan_thread")>>
        BY <1>a, <1>6
      <4>2. 7 - 4 = 3
        OBVIOUS
      <4> QED
        BY ONLY <4>1, <4>2, FourElements
    <3> QED
      BY <2>1, <3>1, <3>2, <3>3, OutcomeOfFour
  <2> QED
    BY <1>a, <1>6, <2>1, <2>2 DEF Shown, Clean
<1> QED
  BY <1>0, <1>1, <1>2, <1>3, <1>4, <1>5, <1>6, ButtonsFacts DEF Screens

LEMMA OutcomeOfNone ==
  ASSUME NEW f, Outcome(<<>>, f)
  PROVE  \A v \in Names : f[v] = shared[v]
BY DEF Outcome

\* A call writes nothing.
LEMMA OutcomeAfterCall ==
  ASSUME NEW r, IsRest(r), r # <<>>, Head(r)[1] \in Calls, NEW f, Outcome(r, f)
  PROVE  Outcome(Tail(r), f)
<1> DEFINE t == Tail(r)
<1>1. /\ Head(r) = r[1] /\ Len(r) \in Nat \ {0} /\ Len(t) = Len(r) - 1
      /\ \A i \in 1 .. Len(t) : t[i] = r[i + 1]
  BY Tails DEF IsRest
<1> HIDE DEF t
<1>2. ASSUME NEW v \in Names, NEW i \in 1 .. Len(t), t[i][1] = v PROVE f[v] = t[i][2]
  <2>1. r[i + 1][1] = v /\ i + 1 \in 1 .. Len(r) /\ t[i] = r[i + 1]
    BY <1>1, <1>2
  <2> QED
    BY <2>1 DEF Outcome
<1>3. ASSUME NEW v \in Names, \A i \in 1 .. Len(t) : t[i][1] # v PROVE f[v] = shared[v]
  <2> SUFFICES ASSUME NEW j \in 1 .. Len(r) PROVE r[j][1] # v
    BY DEF Outcome
  <2>1. CASE j = 1
    BY <1>1, <2>1, CallsApart
  <2>2. CASE j # 1
    <3>1. j - 1 \in 1 .. Len(t) /\ (j - 1) + 1 = j
      BY <1>1, <2>2
    <3> QED
      BY <1>1, <1>3, <3>1
  <2> QED
    BY <2>1, <2>2
<1> QED
  BY <1>2, <1>3 DEF Outcome, t

\* A write brings its variable to its outcome, unless it is written again.
LEMMA OutcomeAfterWrite ==
  ASSUME PanelInv, NEW w \in Workers, Write1(w), NEW f, Outcome(rest[w], f)
  PROVE  Outcome(rest[w], f)' 
<1> DEFINE r == rest[w]
           t == Tail(r)
<1>1. /\ Head(r) = r[1] /\ Len(r) \in Nat \ {0} /\ Len(t) = Len(r) - 1
      /\ \A i \in 1 .. Len(t) : t[i] = r[i + 1]
  BY Tails DEF IsRest, PanelInv, RestOK, Write1
<1>2. rest'[w] = t
  BY DEF Write1, PanelInv, RestOK
<1>3. \A v \in Names : shared'[v] = IF v = r[1][1] THEN r[1][2] ELSE shared[v]
  BY <1>1 DEF Write1, PanelInv, PanelTypeOK, Names
<1>a. /\ \A v \in Names : \A i \in 1 .. Len(r) : r[i][1] = v => f[v] = r[i][2]
      /\ \A v \in Names : (\A i \in 1 .. Len(r) : r[i][1] # v) => f[v] = shared[v]
  BY DEF Outcome
<1> HIDE DEF r, t
<1>4. ASSUME NEW v \in Names, NEW i \in 1 .. Len(t), t[i][1] = v PROVE f[v] = t[i][2]
  <2>1. r[i + 1][1] = v /\ i + 1 \in 1 .. Len(r) /\ t[i] = r[i + 1]
    BY <1>1, <1>4
  <2> QED
    BY <1>a, <2>1
<1>5. ASSUME NEW v \in Names, \A i \in 1 .. Len(t) : t[i][1] # v PROVE f[v] = shared'[v]
  <2>1. CASE v = r[1][1]
    <3>1. 1 \in 1 .. Len(r)
      BY <1>1
    <3> QED
      BY <1>3, <1>a, <2>1, <3>1
  <2>2. CASE v # r[1][1]
    <3>1. ASSUME NEW j \in 1 .. Len(r) PROVE r[j][1] # v
      <4>1. CASE j = 1
        BY <2>2, <4>1
      <4>2. CASE j # 1
        <5>1. j - 1 \in 1 .. Len(t) /\ (j - 1) + 1 = j
          BY <1>1, <4>2
        <5> QED
          BY <1>1, <1>5, <5>1
      <4> QED
        BY <4>1, <4>2
    <3> QED
      BY <1>3, <1>a, <2>2, <3>1
  <2> QED
    BY <2>1, <2>2
<1>6. /\ \A v \in Names : \A i \in 1 .. Len(rest'[w]) : rest'[w][i][1] = v => f[v] = rest'[w][i][2]
      /\ \A v \in Names : (\A i \in 1 .. Len(rest'[w]) : rest'[w][i][1] # v) => f[v] = shared'[v]
  BY <1>2, <1>4, <1>5
<1> QED
  BY <1>6 DEF Outcome

-----------------------------------------------------------------------------

LEMMA InitAgrees == PanelInit => AgreeInv
<1> SUFFICES ASSUME PanelInit PROVE AgreeInv
  OBVIOUS
<1>1. AtWork = {}
  BY DEF PanelInit, Init, AtWork, PanelPcs
<1>2. TouchQuiet /\ AloneAgrees
  BY <1>1, ScriptFacts DEF PanelInit, TouchQuiet, AloneAgrees
<1>3. ScreensAgree
  BY DEF PanelInit, ScreensAgree
<1> QED
  BY <1>2, <1>3, InitInv DEF AgreeInv

\* A step of another handler is not in a case.
LEMMA OutsideAgrees ==
  ASSUME AgreeInv, AtWork' = AtWork, UNCHANGED <<shared, touch, rest, early, alone, overlap>>
  PROVE  TouchQuiet' /\ AloneAgrees' /\ ScreensAgree'
<1>1. TouchQuiet' /\ ScreensAgree'
  BY DEF AgreeInv, TouchQuiet, ScreensAgree
<1>2. AloneAgrees'
  BY DEF AgreeInv, AloneAgrees, Outcome
<1> QED
  BY <1>1, <1>2

\* Steps of a case but the last: the handler is at work before and after.
LEMMA WriteAgrees ==
  ASSUME AgreeInv, NEW w \in Workers, Write1(w)
  PROVE  TouchQuiet' /\ AloneAgrees' /\ ScreensAgree'
<1>1. w \in AtWork /\ AtWork' = AtWork
  BY DEF Write1, AtWork, PanelPcs, vars
<1>2. UNCHANGED <<touch, early, alone, overlap>>
  BY DEF Write1, history
<1>3. AloneAgrees'
  <2> SUFFICES ASSUME NEW v \in AtWork', alone'[v]
               PROVE  /\ AtWork' = {v}
                      /\ \E f : Outcome(rest[v], f)' /\ Shown(f) /\ (overlap' = "never" => Clean(f))
    BY DEF AloneAgrees, Shown, Clean
  <2>1. AtWork = {v} /\ v = w
    BY <1>1, <1>2 DEF AgreeInv, AloneAgrees
  <2>2. PICK f : Outcome(rest[w], f) /\ Shown(f) /\ (overlap = "never" => Clean(f))
    BY <1>1, <1>2, <2>1 DEF AgreeInv, AloneAgrees
  <2>3. Outcome(rest[w], f)'
    BY <2>2, OutcomeAfterWrite DEF AgreeInv
  <2> QED
    BY <1>1, <1>2, <2>1, <2>2, <2>3
<1> QED
  BY <1>1, <1>2, <1>3 DEF AgreeInv, TouchQuiet, ScreensAgree

LEMMA CameraAgrees ==
  ASSUME AgreeInv, NEW w \in Workers, CallCamera(w) \/ CameraReturns(w)
  PROVE  TouchQuiet' /\ AloneAgrees' /\ ScreensAgree'
<1>1. w \in AtWork /\ AtWork' = AtWork
  BY AtWorkMoves DEF CallCamera, CameraReturns, AgreeInv, PanelPcs
<1>2. UNCHANGED <<shared, touch, early, alone, overlap>>
  BY DEF CallCamera, CameraReturns, panel, history
<1>3. ASSUME NEW f, Outcome(rest[w], f) PROVE Outcome(rest'[w], f)
  <2>1. CASE CallCamera(w)
    BY <1>3, <2>1 DEF CallCamera, panel
  <2>2. CASE CameraReturns(w)
    <3>1. rest[w] # <<>> /\ IsRest(rest[w]) /\ Head(rest[w]) = Call("camera_thread")
      BY <2>2 DEF CameraReturns, Goto, AgreeInv, PanelInv, RestOK
    <3>2. rest'[w] = Tail(rest[w]) /\ Head(rest[w])[1] \in Calls
      BY <2>2, <3>1, CallFacts DEF CameraReturns, AgreeInv, PanelInv, RestOK, Calls
    <3> QED
      BY <1>3, <3>1, <3>2, OutcomeAfterCall
  <2> QED
    BY <2>1, <2>2
<1>4. AloneAgrees'
  <2> SUFFICES ASSUME NEW v \in AtWork', alone'[v]
               PROVE  /\ AtWork' = {v}
                      /\ \E f : Outcome(rest[v], f)' /\ Shown(f) /\ (overlap' = "never" => Clean(f))
    BY DEF AloneAgrees, Shown, Clean
  <2>1. AtWork = {v} /\ v = w
    BY <1>1, <1>2 DEF AgreeInv, AloneAgrees
  <2>2. PICK f : Outcome(rest[w], f) /\ Shown(f) /\ (overlap = "never" => Clean(f))
    BY <1>1, <1>2, <2>1 DEF AgreeInv, AloneAgrees
  <2>3. Outcome(rest'[w], f)
    BY <1>3, <2>2
  <2>4. Outcome(rest[w], f)'
    BY <1>2, <2>3 DEF Outcome
  <2> QED
    BY <1>1, <1>2, <2>1, <2>2, <2>4
<1> QED
  BY <1>1, <1>2, <1>4 DEF AgreeInv, TouchQuiet, ScreensAgree

\* The last step of a case: if the handler was alone, the outcome is reached.
LEMMA FinishAgrees ==
  ASSUME AgreeInv, NEW w \in Workers, CallScan(w) \/ HandlerDone(w)
  PROVE  TouchQuiet' /\ AloneAgrees' /\ ScreensAgree'
<1>1. w \in AtWork /\ AtWork' = AtWork \ {w}
  BY AtWorkMoves DEF CallScan, HandlerDone, AgreeInv, PanelPcs
<1>2. UNCHANGED <<shared, touch, early, alone>> /\ Finish(w)
  BY DEF CallScan, HandlerDone, Finish
<1>3. \A v \in AtWork' : ~alone'[v]
  BY <1>1, <1>2 DEF AgreeInv, AloneAgrees
<1>4. ASSUME alone[w] PROVE Shown(shared) /\ (overlap = "never" => Clean(shared))
  <2>1. PICK f : Outcome(rest[w], f) /\ Shown(f) /\ (overlap = "never" => Clean(f))
    BY <1>1, <1>4 DEF AgreeInv, AloneAgrees
  <2>2. Outcome(<<>>, f)
    <3>1. CASE CallScan(w)
      <4>1. rest[w] # <<>> /\ Head(rest[w]) = Call("bluetooth_scan_thread") /\ IsRest(rest[w])
        BY <3>1 DEF CallScan, AgreeInv, PanelInv, RestOK
      <4>2. Head(rest[w])[1] \in Calls /\ Tail(rest[w]) = <<>>
        BY <4>1, CallFacts, TailIsRest DEF Calls
      <4> QED
        BY <2>1, <4>1, <4>2, OutcomeAfterCall
    <3>2. CASE HandlerDone(w)
      BY <2>1, <3>2 DEF HandlerDone
    <3> QED
      BY <3>1, <3>2
  <2>3. \A v \in Names : f[v] = shared[v]
    BY <2>2, OutcomeOfNone
  <2> QED
    BY <2>1, <2>3 DEF Shown, Clean, Names
<1>5. ScreensAgree'
  <2>1. CASE alone[w]
    <3>1. overlap' = "never" => overlap = "never"
      BY <1>2, <2>1 DEF Finish
    <3> QED
      BY <1>2, <1>4, <2>1, <3>1 DEF ScreensAgree, Shown, Clean
  <2>2. CASE ~alone[w]
    BY <1>2, <2>2 DEF Finish, ScreensAgree
  <2> QED
    BY <2>1, <2>2
<1>6. TouchQuiet'
  BY <1>1, <1>2 DEF AgreeInv, TouchQuiet
<1> QED
  BY <1>3, <1>5, <1>6 DEF AloneAgrees

LEMMA StartAgrees ==
  ASSUME AgreeInv, NEW w \in Workers, LiftSwitch(w)
  PROVE  TouchQuiet' /\ AloneAgrees' /\ ScreensAgree'
<1>1. AtWork' = AtWork \cup {w} /\ w \notin AtWork
  BY AtWorkMoves DEF LiftSwitch, StartHandler, AgreeInv, PanelPcs
<1>2. UNCHANGED <<shared, overlap>> /\ touch' = "none" /\ rest'[w] = Script[touch] /\ touch \in DOMAIN Script
  BY DEF LiftSwitch, StartHandler, AgreeInv, PanelInv, RestOK
<1>3. \A v \in Workers : alone'[v] = IF v = w THEN AtWork = {} /\ ~early ELSE alone[v] /\ v \notin AtWork
  BY DEF LiftSwitch, StartHandler
<1>4. AloneAgrees'
  <2> SUFFICES ASSUME NEW v \in AtWork', alone'[v]
               PROVE  /\ AtWork' = {v}
                      /\ \E f : Outcome(rest[v], f)' /\ Shown(f) /\ (overlap' = "never" => Clean(f))
    BY DEF AloneAgrees, Shown, Clean
  <2>1. v = w /\ AtWork = {} /\ ~early
    BY <1>1, <1>3 DEF AtWork
  <2>2. touch \in Buttons[shared["loaded"]]
    BY <1>2, <2>1 DEF AgreeInv, TouchQuiet
  <2>3. PICK f : Outcome(Script[touch], f) /\ Shown(f) /\ (Clean(shared) => Clean(f))
    BY <2>2, CaseAgrees DEF AgreeInv
  <2>4. overlap = "never" => Clean(shared)
    BY <2>1 DEF AgreeInv, ScreensAgree, Clean
  <2>5. Outcome(rest[w], f)'
    BY <1>2, <2>3 DEF Outcome
  <2> QED
    BY <1>1, <1>2, <2>1, <2>3, <2>4, <2>5
<1>5. ScreensAgree'
  BY <1>1 DEF ScreensAgree
<1>6. TouchQuiet'
  BY <1>2, ScriptFacts DEF TouchQuiet
<1> QED
  BY <1>4, <1>5, <1>6

LEMMA TouchAgrees ==
  ASSUME AgreeInv, NEW w \in Workers, TouchSwitch \/ TouchDrive(w) \/ LiftDrive(w)
  PROVE  TouchQuiet' /\ AloneAgrees' /\ ScreensAgree'
<1>1. AtWork' = AtWork
  <2>1. CASE TouchSwitch
    BY <2>1 DEF TouchSwitch, vars, AtWork
  <2>2. CASE TouchDrive(w) \/ LiftDrive(w)
    <3>1. Goto(w, "idle", "lock") /\ "idle" \notin PanelPcs /\ "lock" \notin PanelPcs
      BY <2>2 DEF TouchDrive, LiftDrive, Press, Release, Give, PanelPcs
    <3>2. AtWork' = AtWork \ {w} /\ w \notin AtWork
      BY <3>1, AtWorkMoves DEF AgreeInv
    <3> QED
      BY <3>2
  <2> QED
    BY <2>1, <2>2
<1>2. UNCHANGED <<shared, rest, alone, overlap>>
  BY DEF TouchSwitch, TouchDrive, LiftDrive, history
<1>3. TouchQuiet'
  <2>1. CASE TouchSwitch
    BY <1>1, <1>2, <2>1 DEF TouchSwitch, TouchQuiet
  <2>2. CASE TouchDrive(w) \/ LiftDrive(w)
    BY <2>2, ScriptFacts DEF TouchDrive, LiftDrive, TouchQuiet
  <2> QED
    BY <2>1, <2>2
<1>4. AloneAgrees'
  BY <1>1, <1>2 DEF AgreeInv, AloneAgrees, Outcome
<1>5. ScreensAgree'
  BY <1>1, <1>2 DEF AgreeInv, ScreensAgree
<1> QED
  BY <1>3, <1>4, <1>5

LEMMA NextAgrees == AgreeInv /\ [PanelNext]_pvars => AgreeInv'
<1> SUFFICES ASSUME AgreeInv, [PanelNext]_pvars PROVE TouchQuiet' /\ AloneAgrees' /\ ScreensAgree'
  BY NextKeepsInv DEF AgreeInv
<1>1. CASE UNCHANGED pvars
  BY <1>1, OutsideAgrees DEF pvars, vars, panel, history, AtWork
<1>2. ASSUME NEW w \in Workers, HandlerStep(w) PROVE TouchQuiet' /\ AloneAgrees' /\ ScreensAgree'
  BY <1>2, WriteAgrees, CameraAgrees, FinishAgrees DEF HandlerStep
<1>3. ASSUME NEW w \in Workers, FingerStep(w) PROVE TouchQuiet' /\ AloneAgrees' /\ ScreensAgree'
  BY <1>3, StartAgrees, TouchAgrees DEF FingerStep
<1>4. ASSUME NEW w \in Workers, ScanOver(w) \/ BluetoothStep(w)
      PROVE  TouchQuiet' /\ AloneAgrees' /\ ScreensAgree'
  <2>1. (OpenStep(w) \/ SendStep(w)) /\ UNCHANGED panel
    BY <1>4 DEF ScanOver, BluetoothStep, OpenStep
  <2>2. PICK from \in WorkerPcs, to \in WorkerPcs : Goto(w, from, to)
    BY <2>1, SendPlaces, OpenPlaces
  <2>3. AtWork' = AtWork
    <3>1. from \notin PanelPcs /\ to \notin PanelPcs
      BY PlacesApart
    <3>2. AtWork' = AtWork \ {w} /\ w \notin AtWork
      BY <2>2, <3>1, AtWorkMoves DEF AgreeInv
    <3> QED
      BY <3>2
  <2> QED
    BY <2>1, <2>3, OutsideAgrees DEF panel, history
<1> QED
  BY <1>1, <1>2, <1>3, <1>4 DEF PanelNext

\* When the handlers are done, and the last of them worked alone after a touch made
\* in quiet, what is redrawn, wanted and loaded agree; in a history of such handlers
\* nothing is left wanted without its screen.  For any number of handler threads.
THEOREM ScreensSafe == PanelSpec => []ScreensAgree
<1>1. PanelSpec => []AgreeInv
  BY InitAgrees, NextAgrees, PTL DEF PanelSpec
<1> QED
  BY <1>1, PTL DEF AgreeInv

=============================================================================
