-------------------------- MODULE CarControlProofs --------------------------
(* Theorems about CarControl, for every value of its constants.            *)
EXTENDS CarControl, TLAPS, FiniteSetTheorems, SequenceTheorems

-----------------------------------------------------------------------------
(* Sequences                                                                *)

LEMMA SeqWidens ==
  ASSUME NEW S, NEW T, S \subseteq T, NEW s \in Seq(S)
  PROVE  s \in Seq(T)
OBVIOUS

LEMMA AppendFacts ==
  ASSUME NEW S, NEW s \in Seq(S), NEW x \in S
  PROVE  /\ Append(s, x) \in Seq(S)
         /\ Len(Append(s, x)) = Len(s) + 1
         /\ Append(s, x)[Len(s) + 1] = x
         /\ \A i \in 1 .. Len(s) : Append(s, x)[i] = s[i]
OBVIOUS

-----------------------------------------------------------------------------
(* Type correctness                                                         *)

LEMMA InitType == Init => TypeOK
<1> SUFFICES ASSUME Init PROVE TypeOK
  OBVIOUS
<1>1. Len(given) = 0 /\ given \in Seq(Commands) /\ sent \in Seq(1 .. Len(given))
  BY DEF Init
<1>2. 0 \in 0 .. MaxFailures
  BY BoundsAssumption
<1>3. cmd \in [Workers -> 0 .. Len(given)] /\ \A w \in Workers : pc[w] \in SendPcs <=> cmd[w] # 0
  BY <1>1 DEF Init, SendPcs, CarryPcs
<1>4. /\ pc \in [Workers -> WorkerPcs]
      /\ word \in [Locks -> 0 .. 1] /\ tears \in [Locks -> Nat]
  BY DEF Init, WorkerPcs
<1> QED
  BY <1>1, <1>2, <1>3, <1>4 DEF Init, TypeOK, Crashes

\* The steps of an opening carry no command.
LEMMA OpenKeepsType ==
  ASSUME TypeOK, Running, NEW w \in Workers, OpenStep(w) \/ OpenBluetooth(w)
  PROVE  TypeOK'
<1> USE DEF TypeOK, Running, WorkerPcs, SendPcs, CarryPcs, OpenPcs, Locks, Crashes, Goto, locks, bus,
            orders, result
<1>1. CASE OpenBluetooth(w)
  BY <1>1 DEF OpenBluetooth
<1>2. CASE ScanLock(w)
  BY <1>2 DEF ScanLock, Lock
<1>3. CASE InitCheck(w)
  BY <1>3 DEF InitCheck
<1>4. CASE InitMutexes(w)
  BY <1>4 DEF InitMutexes
<1>5. CASE InitDone(w)
  BY <1>5 DEF InitDone
<1>6. CASE InitFail(w)
  BY <1>6, BoundsAssumption DEF InitFail
<1>7. CASE ScanEnds(w)
  BY <1>7 DEF ScanEnds, Unlock
<1> QED
  BY <1>1, <1>2, <1>3, <1>4, <1>5, <1>6, <1>7 DEF OpenStep

\* A handler in bluetooth_send has a command in range.
LEMMA CommandInRange ==
  ASSUME TypeOK, NEW w \in Workers, pc[w] \in SendPcs
  PROVE  cmd[w] \in 1 .. Len(given)
BY DEF TypeOK

LEMMA SendKeepsType ==
  ASSUME TypeOK, Running, NEW w \in Workers, SendStep(w)
  PROVE  TypeOK'
<1>0. pc[w] \in SendPcs /\ cmd[w] \in 1 .. Len(given)
  <2>1. pc[w] \in SendPcs
    BY DEF SendStep, SendLock, ProxyNull, ProxyMade, ProxyFails, WriteNull, Write, WriteFails, Cleanup,
           SendUnlock, Lock, Unlock, Goto, SendPcs, CarryPcs
  <2> QED
    BY <2>1, CommandInRange
<1> USE <1>0 DEF TypeOK, Running, WorkerPcs, SendPcs, CarryPcs, OpenPcs, Locks, Crashes, Goto, locks,
                 bus, orders, result
<1>1. CASE SendLock(w)
  BY <1>1 DEF SendLock, Lock
<1>2. CASE ProxyNull(w)
  BY <1>2 DEF ProxyNull
<1>3. CASE ProxyMade(w)
  BY <1>3 DEF ProxyMade
<1>4. CASE ProxyFails(w)
  BY <1>4 DEF ProxyFails, GiveUp
<1>5. CASE WriteNull(w)
  BY <1>5 DEF WriteNull, GiveUp
<1>6. CASE Write(w)
  BY <1>6 DEF Write
<1>7. CASE WriteFails(w)
  BY <1>7 DEF WriteFails, GiveUp
<1>8. CASE Cleanup(w)
  BY <1>8 DEF Cleanup
<1>9. CASE SendUnlock(w)
  BY <1>9 DEF SendUnlock, Unlock
<1> QED
  BY <1>1, <1>2, <1>3, <1>4, <1>5, <1>6, <1>7, <1>8, <1>9 DEF SendStep

\* A press and a release give a command to a handler that had none.
LEMMA GiveKeepsType ==
  ASSUME TypeOK, Running, NEW w \in Workers, Press(w) \/ Release(w)
  PROVE  TypeOK'
<1>1. PICK c \in Commands : Give(w, c)
  BY DEF Press, Release, Commands
<1>2. given' \in Seq(Commands) /\ Len(given') = Len(given) + 1 /\ Len(given) \in Nat
  BY <1>1, AppendFacts DEF Give, TypeOK
<1>3. 1 .. Len(given) \subseteq 1 .. Len(given') /\ 0 .. Len(given) \subseteq 0 .. Len(given')
  BY <1>2
<1>4. sent' \in Seq(1 .. Len(given')) /\ lost' \subseteq 1 .. Len(given')
  BY <1>1, <1>3, SeqWidens DEF Give, TypeOK, result
<1>5. cmd' \in [Workers -> 0 .. Len(given')]
  BY <1>1, <1>2, <1>3 DEF Give, TypeOK
<1>6. pc' \in [Workers -> WorkerPcs] /\ finger' \in BOOLEAN
  BY <1>1 DEF Give, Goto, TypeOK, WorkerPcs, SendPcs, CarryPcs, Press, Release
<1>7. \A v \in Workers : pc'[v] \in SendPcs <=> cmd'[v] # 0
  <2> SUFFICES ASSUME NEW v \in Workers PROVE pc'[v] \in SendPcs <=> cmd'[v] # 0
    OBVIOUS
  <2>1. CASE v = w
    BY <1>1, <1>2, <2>1 DEF Give, Goto, TypeOK, SendPcs, CarryPcs
  <2>2. CASE v # w
    BY <1>1, <2>2 DEF Give, Goto, TypeOK
  <2> QED
    BY <2>1, <2>2
<1> QED
  BY <1>1, <1>2, <1>4, <1>5, <1>6, <1>7 DEF Give, TypeOK, locks, bus

LEMMA NextKeepsType == TypeOK /\ [Next]_vars => TypeOK'
<1> SUFFICES ASSUME TypeOK, [Next]_vars PROVE TypeOK'
  OBVIOUS
<1>1. CASE Next
  BY <1>1, OpenKeepsType, SendKeepsType, GiveKeepsType DEF Next, UserStep
<1>2. CASE UNCHANGED vars
  BY <1>2 DEF TypeOK, vars, locks, bus, orders, result
<1> QED
  BY <1>1, <1>2

\* Types are invariant: in particular a handler has a command exactly while it is
\* in bluetooth_send, and what was sent or given up had been given.
THEOREM TypeCorrect == Spec => []TypeOK
BY InitType, NextKeepsType, PTL DEF Spec

-----------------------------------------------------------------------------
(* The debt of the mutexes                                                  *)

LEMMA InsideFinite ==
  ASSUME NEW m \in Locks
  PROVE  IsFiniteSet(Inside(m)) /\ Cardinality(Inside(m)) \in Nat
BY WorkersAssumption, FS_Subset, FS_CardinalityType DEF Inside

\* A handler that goes to q enters or leaves exactly the sections q says.
LEMMA Moves ==
  ASSUME TypeOK, NEW w \in Workers, NEW from, NEW to, Goto(w, from, to), NEW m \in Locks
  PROVE  /\ Inside(m)' = IF to \in Section[m] THEN Inside(m) \cup {w} ELSE Inside(m) \ {w}
         /\ w \in Inside(m) <=> from \in Section[m]
BY DEF Inside, Goto, TypeOK

LEMMA Sections ==
  /\ Section["send"] = {"proxy", "write", "write_null", "cleanup", "cleanup_bad", "unlock"}
  /\ Section["scan"] = {"init", "mutexes", "bus", "scan"}
BY DEF Section, SendPcs, CarryPcs, OpenPcs

\* The owners of a mutex k, when others of Locks are left as they are.
OthersKept(k, from, to) ==
  \A m \in Locks \ {k} : from \in Section[m] <=> to \in Section[m]

LEMMA StayKeepsDebt ==
  ASSUME TypeOK, SendDebt, NEW w \in Workers, NEW from, NEW to, Goto(w, from, to), UNCHANGED locks,
         \A m \in Locks : from \in Section[m] <=> to \in Section[m]
  PROVE  SendDebt'
<1> SUFFICES ASSUME NEW m \in Locks PROVE (Cardinality(Inside(m)) <= word[m] + tears[m])'
  BY DEF SendDebt
<1>1. Inside(m)' = Inside(m)
  BY Moves DEF Inside
<1> QED
  BY <1>1 DEF SendDebt, locks

LEMMA LockKeepsDebt ==
  ASSUME TypeOK, SendDebt, NEW w \in Workers, NEW k \in Locks, NEW from, NEW to,
         Lock(w, k, from, to), OthersKept(k, from, to), from \notin Section[k], to \in Section[k]
  PROVE  SendDebt'
<1> SUFFICES ASSUME NEW m \in Locks PROVE (Cardinality(Inside(m)) <= word[m] + tears[m])'
  BY DEF SendDebt
<1>1. CASE m = k
  <2>1. Inside(m)' = Inside(m) \cup {w} /\ w \notin Inside(m)
    BY <1>1, Moves DEF Lock
  <2>2. Cardinality(Inside(m)') = Cardinality(Inside(m)) + 1
    BY <2>1, InsideFinite, FS_AddElement
  <2>3. word'[m] = 1 /\ tears'[m] = tears[m] /\ word[m] = 0 /\ tears[m] \in Nat
    BY <1>1 DEF Lock, TypeOK
  <2>4. Cardinality(Inside(m)) <= word[m] + tears[m]
    BY DEF SendDebt
  <2> QED
    BY <2>2, <2>3, <2>4, InsideFinite
<1>2. CASE m # k
  <2>1. Inside(m)' = Inside(m)
    BY <1>2, Moves DEF OthersKept, Lock, Inside
  <2>2. word'[m] = word[m] /\ tears'[m] = tears[m]
    BY <1>2 DEF Lock, TypeOK
  <2> QED
    BY <2>1, <2>2 DEF SendDebt
<1> QED
  BY <1>1, <1>2

LEMMA UnlockKeepsDebt ==
  ASSUME TypeOK, SendDebt, NEW w \in Workers, NEW k \in Locks, NEW from, NEW to,
         Unlock(w, k, from, to), OthersKept(k, from, to), from \in Section[k], to \notin Section[k]
  PROVE  SendDebt'
<1> SUFFICES ASSUME NEW m \in Locks PROVE (Cardinality(Inside(m)) <= word[m] + tears[m])'
  BY DEF SendDebt
<1>1. CASE m = k
  <2>1. Inside(m)' = Inside(m) \ {w} /\ w \in Inside(m)
    BY <1>1, Moves DEF Unlock
  <2>2. Cardinality(Inside(m)') = Cardinality(Inside(m)) - 1
    BY <2>1, InsideFinite, FS_RemoveElement
  <2>3. word'[m] = 0 /\ tears'[m] = tears[m] /\ word[m] \in 0 .. 1 /\ tears[m] \in Nat
    BY <1>1 DEF Unlock, TypeOK
  <2>4. Cardinality(Inside(m)) <= word[m] + tears[m]
    BY DEF SendDebt
  <2> QED
    BY <2>2, <2>3, <2>4, InsideFinite
<1>2. CASE m # k
  <2>1. Inside(m)' = Inside(m)
    BY <1>2, Moves DEF OthersKept, Unlock, Inside
  <2>2. word'[m] = word[m] /\ tears'[m] = tears[m]
    BY <1>2 DEF Unlock, TypeOK
  <2> QED
    BY <2>1, <2>2 DEF SendDebt
<1> QED
  BY <1>1, <1>2

\* Clearing every word moves the holders to the debt.
LEMMA InitMutexesKeepsDebt ==
  ASSUME TypeOK, SendDebt, NEW w \in Workers, InitMutexes(w)
  PROVE  SendDebt'
<1> SUFFICES ASSUME NEW m \in Locks PROVE (Cardinality(Inside(m)) <= word[m] + tears[m])'
  BY DEF SendDebt
<1>1. Inside(m)' = Inside(m)
  BY Moves, Sections DEF InitMutexes, Locks, Inside
<1>2. word'[m] = 0 /\ tears'[m] = tears[m] + word[m] /\ word[m] \in 0 .. 1 /\ tears[m] \in Nat
  BY DEF InitMutexes, TypeOK
<1>3. Cardinality(Inside(m)) <= word[m] + tears[m]
  BY DEF SendDebt
<1> QED
  BY <1>1, <1>2, <1>3, InsideFinite

LEMMA InitDebt == Init => SendDebt
<1> SUFFICES ASSUME Init, NEW m \in Locks PROVE Cardinality(Inside(m)) <= word[m] + tears[m]
  BY DEF SendDebt
<1>1. Inside(m) = {}
  BY Sections DEF Init, Inside, Locks
<1> QED
  BY <1>1, FS_EmptySet DEF Init

LEMMA NextKeepsDebt == TypeOK /\ SendDebt /\ [Next]_vars => SendDebt'
<1> SUFFICES ASSUME TypeOK, SendDebt, [Next]_vars PROVE SendDebt'
  OBVIOUS
<1>1. ASSUME NEW w \in Workers, OpenStep(w) PROVE SendDebt'
  <2>1. CASE ScanLock(w)
    BY <2>1, LockKeepsDebt, Sections DEF ScanLock, OthersKept, Locks
  <2>2. CASE InitMutexes(w)
    BY <2>2, InitMutexesKeepsDebt
  <2>3. CASE InitCheck(w)
    BY <2>3, StayKeepsDebt, Sections DEF InitCheck, Locks
  <2>4. CASE InitDone(w)
    BY <2>4, StayKeepsDebt, Sections DEF InitDone, Locks
  <2>5. CASE InitFail(w)
    BY <2>5, StayKeepsDebt, Sections DEF InitFail, Locks
  <2>6. CASE ScanEnds(w)
    BY <2>6, UnlockKeepsDebt, Sections DEF ScanEnds, OthersKept, Locks
  <2> QED
    BY <1>1, <2>1, <2>2, <2>3, <2>4, <2>5, <2>6 DEF OpenStep
<1>2. ASSUME NEW w \in Workers, SendStep(w) PROVE SendDebt'
  <2>1. CASE SendLock(w)
    BY <2>1, LockKeepsDebt, Sections DEF SendLock, OthersKept, Locks
  <2>2. CASE SendUnlock(w)
    BY <2>2, UnlockKeepsDebt, Sections DEF SendUnlock, OthersKept, Locks
  <2>3. CASE ProxyNull(w)
    BY <2>3, StayKeepsDebt, Sections DEF ProxyNull, Locks
  <2>4. CASE ProxyMade(w)
    BY <2>4, StayKeepsDebt, Sections DEF ProxyMade, Locks
  <2>5. CASE ProxyFails(w)
    BY <2>5, StayKeepsDebt, Sections DEF ProxyFails, Locks
  <2>6. CASE WriteNull(w)
    BY <2>6, StayKeepsDebt, Sections DEF WriteNull, Locks
  <2>7. CASE Write(w)
    BY <2>7, StayKeepsDebt, Sections DEF Write, Locks
  <2>8. CASE WriteFails(w)
    BY <2>8, StayKeepsDebt, Sections DEF WriteFails, Locks
  <2>9. CASE Cleanup(w)
    BY <2>9, StayKeepsDebt, Sections DEF Cleanup, Locks
  <2> QED
    BY <1>2, <2>1, <2>2, <2>3, <2>4, <2>5, <2>6, <2>7, <2>8, <2>9 DEF SendStep
<1>3. ASSUME NEW w \in Workers, UserStep(w) PROVE SendDebt'
  <2>1. Goto(w, "idle", "scan_lock") \/ Goto(w, "idle", "lock")
    BY <1>3 DEF UserStep, OpenBluetooth, Press, Release, Give
  <2>2. UNCHANGED locks
    BY <1>3 DEF UserStep, OpenBluetooth, Press, Release, Give
  <2> QED
    BY <2>1, <2>2, StayKeepsDebt, Sections DEF Locks
<1>4. CASE UNCHANGED vars
  BY <1>4 DEF SendDebt, Inside, vars, locks
<1> QED
  BY <1>1, <1>2, <1>3, <1>4 DEF Next

\* However often Bluetooth is opened, the handlers in bluetooth_send are at most
\* one more than the times its mutex was initialised under one of them.
THEOREM DebtBounded == Spec => []SendDebt
<1>1. Init => TypeOK /\ SendDebt
  BY InitType, InitDebt
<1>2. TypeOK /\ SendDebt /\ [Next]_vars => TypeOK' /\ SendDebt'
  BY NextKeepsType, NextKeepsDebt
<1> QED
  BY <1>1, <1>2, PTL DEF Spec

-----------------------------------------------------------------------------
(* A held mutex has an owner                                                *)

LEMMA StayKeepsOwner ==
  ASSUME TypeOK, HeldHasOwner, NEW w \in Workers, NEW from, NEW to, Goto(w, from, to), UNCHANGED locks,
         \A m \in Locks : from \in Section[m] <=> to \in Section[m]
  PROVE  HeldHasOwner'
<1>1. \A m \in Locks : Inside(m)' = Inside(m)
  BY Moves DEF Inside
<1> QED
  BY <1>1 DEF HeldHasOwner, locks

LEMMA LockKeepsOwner ==
  ASSUME TypeOK, HeldHasOwner, NEW w \in Workers, NEW k \in Locks, NEW from, NEW to,
         Lock(w, k, from, to), OthersKept(k, from, to), to \in Section[k]
  PROVE  HeldHasOwner'
<1>1. w \in Inside(k)'
  BY Moves DEF Lock
<1>2. \A m \in Locks \ {k} : Inside(m)' = Inside(m) /\ word'[m] = word[m]
  BY Moves DEF OthersKept, Lock, Inside, TypeOK
<1> QED
  BY <1>1, <1>2 DEF HeldHasOwner

LEMMA UnlockKeepsOwner ==
  ASSUME TypeOK, HeldHasOwner, NEW w \in Workers, NEW k \in Locks, NEW from, NEW to,
         Unlock(w, k, from, to), OthersKept(k, from, to)
  PROVE  HeldHasOwner'
<1>1. word'[k] = 0
  BY DEF Unlock, TypeOK
<1>2. \A m \in Locks \ {k} : Inside(m)' = Inside(m) /\ word'[m] = word[m]
  BY Moves DEF OthersKept, Unlock, Inside, TypeOK
<1> QED
  BY <1>1, <1>2 DEF HeldHasOwner

LEMMA InitOwner == Init => HeldHasOwner
BY DEF Init, HeldHasOwner

LEMMA NextKeepsOwner == TypeOK /\ HeldHasOwner /\ [Next]_vars => HeldHasOwner'
<1> SUFFICES ASSUME TypeOK, HeldHasOwner, [Next]_vars PROVE HeldHasOwner'
  OBVIOUS
<1>1. ASSUME NEW w \in Workers, OpenStep(w) PROVE HeldHasOwner'
  <2>1. CASE ScanLock(w)
    BY <2>1, LockKeepsOwner, Sections DEF ScanLock, OthersKept, Locks
  <2>2. CASE InitMutexes(w)
    BY <2>2 DEF InitMutexes, HeldHasOwner
  <2>3. CASE InitCheck(w)
    BY <2>3, StayKeepsOwner, Sections DEF InitCheck, Locks
  <2>4. CASE InitDone(w)
    BY <2>4, StayKeepsOwner, Sections DEF InitDone, Locks
  <2>5. CASE InitFail(w)
    BY <2>5, StayKeepsOwner, Sections DEF InitFail, Locks
  <2>6. CASE ScanEnds(w)
    BY <2>6, UnlockKeepsOwner, Sections DEF ScanEnds, OthersKept, Locks
  <2> QED
    BY <1>1, <2>1, <2>2, <2>3, <2>4, <2>5, <2>6 DEF OpenStep
<1>2. ASSUME NEW w \in Workers, SendStep(w) PROVE HeldHasOwner'
  <2>1. CASE SendLock(w)
    BY <2>1, LockKeepsOwner, Sections DEF SendLock, OthersKept, Locks
  <2>2. CASE SendUnlock(w)
    BY <2>2, UnlockKeepsOwner, Sections DEF SendUnlock, OthersKept, Locks
  <2>3. CASE ProxyNull(w)
    BY <2>3, StayKeepsOwner, Sections DEF ProxyNull, Locks
  <2>4. CASE ProxyMade(w)
    BY <2>4, StayKeepsOwner, Sections DEF ProxyMade, Locks
  <2>5. CASE ProxyFails(w)
    BY <2>5, StayKeepsOwner, Sections DEF ProxyFails, Locks
  <2>6. CASE WriteNull(w)
    BY <2>6, StayKeepsOwner, Sections DEF WriteNull, Locks
  <2>7. CASE Write(w)
    BY <2>7, StayKeepsOwner, Sections DEF Write, Locks
  <2>8. CASE WriteFails(w)
    BY <2>8, StayKeepsOwner, Sections DEF WriteFails, Locks
  <2>9. CASE Cleanup(w)
    BY <2>9, StayKeepsOwner, Sections DEF Cleanup, Locks
  <2> QED
    BY <1>2, <2>1, <2>2, <2>3, <2>4, <2>5, <2>6, <2>7, <2>8, <2>9 DEF SendStep
<1>3. ASSUME NEW w \in Workers, UserStep(w) PROVE HeldHasOwner'
  <2>1. Goto(w, "idle", "scan_lock") \/ Goto(w, "idle", "lock")
    BY <1>3 DEF UserStep, OpenBluetooth, Press, Release, Give
  <2>2. UNCHANGED locks
    BY <1>3 DEF UserStep, OpenBluetooth, Press, Release, Give
  <2> QED
    BY <2>1, <2>2, StayKeepsOwner, Sections DEF Locks
<1>4. CASE UNCHANGED vars
  BY <1>4 DEF HeldHasOwner, Inside, vars, locks
<1> QED
  BY <1>1, <1>2, <1>3, <1>4 DEF Next

\* However the words were cleared, no mutex is left locked without an owner.
THEOREM OwnersSafe == Spec => []HeldHasOwner
<1>1. Init => TypeOK /\ HeldHasOwner
  BY InitType, InitOwner
<1>2. TypeOK /\ HeldHasOwner /\ [Next]_vars => TypeOK' /\ HeldHasOwner'
  BY NextKeepsType, NextKeepsOwner
<1> QED
  BY <1>1, <1>2, PTL DEF Spec

-----------------------------------------------------------------------------
(* What a step does to the commands                                         *)

Carrying == {w \in Workers : pc[w] \in CarryPcs}

LEMMA HandIsCarried == InHand = {cmd[w] : w \in Carrying}
BY DEF InHand, Carrying

\* Nothing moves; a handler whose command is settled may drop it.
Quiet ==
  /\ Carrying' = Carrying
  /\ \A v \in Carrying : cmd'[v] = cmd[v]
  /\ \A v \in Workers : cmd'[v] \in {cmd[v], 0}
  /\ UNCHANGED <<given, sent, lost>>

\* The command of w reaches the car, or is given up.
Settles(w) ==
  /\ w \in Carrying /\ Carrying' = Carrying \ {w}
  /\ UNCHANGED <<given, cmd>>
  /\ \/ sent' = Append(sent, cmd[w]) /\ lost' = lost
     \/ sent' = sent /\ lost' = lost \cup {cmd[w]}

\* A command is given to w.
Takes(w) ==
  /\ w \notin Carrying /\ Carrying' = Carrying \cup {w}
  /\ \E c \in Commands : given' = Append(given, c)
  /\ cmd' = [cmd EXCEPT ![w] = Len(given) + 1]
  /\ UNCHANGED <<sent, lost>>

LEMMA CarryingMoves ==
  ASSUME TypeOK, NEW w \in Workers, NEW from, NEW to, Goto(w, from, to)
  PROVE  /\ Carrying' = IF to \in CarryPcs THEN Carrying \cup {w} ELSE Carrying \ {w}
         /\ w \in Carrying <=> from \in CarryPcs
BY DEF Carrying, Goto, TypeOK

LEMMA OpenIsQuiet ==
  ASSUME TypeOK, NEW w \in Workers, OpenStep(w) \/ OpenBluetooth(w)
  PROVE  Quiet
<1>1. UNCHANGED <<orders, result>>
  BY DEF OpenStep, OpenBluetooth, ScanLock, InitCheck, InitMutexes, InitDone, InitFail, ScanEnds
<1>2. \E from, to \in WorkerPcs \ CarryPcs : Goto(w, from, to)
  BY DEF OpenStep, OpenBluetooth, ScanLock, InitCheck, InitMutexes, InitDone, InitFail, ScanEnds, Lock,
         Unlock, WorkerPcs, SendPcs, OpenPcs, CarryPcs
<1>3. Carrying' = Carrying
  BY <1>2, CarryingMoves
<1> QED
  BY <1>1, <1>3 DEF Quiet, orders, result

LEMMA SendMoves ==
  ASSUME TypeOK, NEW w \in Workers, SendStep(w)
  PROVE  Quiet \/ Settles(w)
<1> USE DEF orders, result
<1>1. CASE SendLock(w)
  <2>1. Carrying' = Carrying
    BY <1>1, CarryingMoves DEF SendLock, Lock, CarryPcs
  <2> QED
    BY <1>1, <2>1 DEF SendLock, Quiet
<1>2. CASE ProxyNull(w)
  <2>1. Carrying' = Carrying
    BY <1>2, CarryingMoves DEF ProxyNull, CarryPcs
  <2> QED
    BY <1>2, <2>1 DEF ProxyNull, Quiet
<1>3. CASE ProxyMade(w)
  <2>1. Carrying' = Carrying
    BY <1>3, CarryingMoves DEF ProxyMade, CarryPcs
  <2> QED
    BY <1>3, <2>1 DEF ProxyMade, Quiet
<1>4. CASE Cleanup(w)
  <2>1. Carrying' = Carrying
    BY <1>4, CarryingMoves DEF Cleanup, CarryPcs
  <2> QED
    BY <1>4, <2>1 DEF Cleanup, Quiet
<1>5. CASE SendUnlock(w)
  <2>1. Carrying' = Carrying /\ w \notin Carrying
    BY <1>5, CarryingMoves DEF SendUnlock, Unlock, CarryPcs
  <2>2. \A v \in Workers : v # w => cmd'[v] = cmd[v]
    BY <1>5 DEF SendUnlock, TypeOK
  <2> QED
    BY <1>5, <2>1, <2>2 DEF SendUnlock, Quiet, Carrying
<1>6. CASE ProxyFails(w)
  <2>1. w \in Carrying /\ Carrying' = Carrying \ {w}
    BY <1>6, CarryingMoves DEF ProxyFails, CarryPcs
  <2> QED
    BY <1>6, <2>1 DEF ProxyFails, GiveUp, Settles
<1>7. CASE WriteNull(w)
  <2>1. w \in Carrying /\ Carrying' = Carrying \ {w}
    BY <1>7, CarryingMoves DEF WriteNull, CarryPcs
  <2> QED
    BY <1>7, <2>1 DEF WriteNull, GiveUp, Settles
<1>8. CASE Write(w)
  <2>1. w \in Carrying /\ Carrying' = Carrying \ {w}
    BY <1>8, CarryingMoves DEF Write, CarryPcs
  <2> QED
    BY <1>8, <2>1 DEF Write, Settles
<1>9. CASE WriteFails(w)
  <2>1. w \in Carrying /\ Carrying' = Carrying \ {w}
    BY <1>9, CarryingMoves DEF WriteFails, CarryPcs
  <2> QED
    BY <1>9, <2>1 DEF WriteFails, GiveUp, Settles
<1> QED
  BY <1>1, <1>2, <1>3, <1>4, <1>5, <1>6, <1>7, <1>8, <1>9 DEF SendStep

LEMMA GiveTakes ==
  ASSUME TypeOK, NEW w \in Workers, Press(w) \/ Release(w)
  PROVE  Takes(w)
<1>1. PICK c \in Commands : Give(w, c)
  BY DEF Press, Release, Commands
<1>2. w \notin Carrying /\ Carrying' = Carrying \cup {w}
  BY <1>1, CarryingMoves DEF Give, CarryPcs
<1> QED
  BY <1>1, <1>2 DEF Give, Takes, result

LEMMA NextMoves ==
  ASSUME TypeOK, [Next]_vars
  PROVE  Quiet \/ \E w \in Workers : Settles(w) \/ Takes(w)
<1>1. CASE UNCHANGED vars
  BY <1>1 DEF vars, orders, result, Quiet, Carrying
<1>2. CASE Next
  BY <1>2, OpenIsQuiet, SendMoves, GiveTakes DEF Next, UserStep
<1> QED
  BY <1>1, <1>2

-----------------------------------------------------------------------------
(* Every command is in one place                                            *)

LEMMA InitAccounted == Init => CommandsAccounted
<1> SUFFICES ASSUME Init PROVE CommandsAccounted
  OBVIOUS
<1>1. InHand = {} /\ ToSet(sent) = {} /\ lost = {} /\ 1 .. Len(given) = {}
  BY DEF Init, InHand, ToSet, CarryPcs
<1>2. IsInjective(sent)
  BY DEF Init, IsInjective
<1>3. \A w \in Workers : pc[w] \notin CarryPcs
  BY DEF Init, CarryPcs
<1> QED
  BY <1>1, <1>2, <1>3 DEF CommandsAccounted

LEMMA HandMoves ==
  ASSUME TypeOK, CommandsAccounted
  PROVE  /\ Quiet => InHand' = InHand
         /\ \A w \in Workers : Settles(w) => InHand' = InHand \ {cmd[w]} /\ cmd[w] \in InHand
         /\ \A w \in Workers : Takes(w) => InHand' = InHand \cup {Len(given) + 1}
<1>1. ASSUME Quiet PROVE InHand' = InHand
  BY <1>1, HandIsCarried DEF Quiet, InHand, Carrying
<1>2. ASSUME NEW w \in Workers, Settles(w) PROVE InHand' = InHand \ {cmd[w]} /\ cmd[w] \in InHand
  <2>1. \A v \in Carrying : cmd[v] = cmd[w] => v = w
    BY <1>2 DEF CommandsAccounted, Carrying, Settles
  <2>2. InHand' = {cmd[v] : v \in Carrying \ {w}}
    BY <1>2 DEF Settles, InHand, Carrying
  <2> QED
    BY <1>2, <2>1, <2>2, HandIsCarried DEF Settles
<1>3. ASSUME NEW w \in Workers, Takes(w) PROVE InHand' = InHand \cup {Len(given) + 1}
  <2>1. cmd'[w] = Len(given) + 1 /\ \A v \in Carrying : cmd'[v] = cmd[v]
    BY <1>3 DEF Takes, TypeOK, Carrying
  <2>2. InHand' = {cmd'[v] : v \in Carrying \cup {w}}
    BY <1>3 DEF Takes, InHand, Carrying
  <2> QED
    BY <2>1, <2>2, HandIsCarried
<1> QED
  BY <1>1, <1>2, <1>3

LEMMA AppendReceived ==
  ASSUME NEW s \in Seq(Nat), NEW x \in Nat, x \notin ToSet(s), IsInjective(s)
  PROVE  ToSet(Append(s, x)) = ToSet(s) \cup {x} /\ IsInjective(Append(s, x))
<1>1. /\ DOMAIN s = 1 .. Len(s) /\ DOMAIN Append(s, x) = 1 .. (Len(s) + 1) /\ Len(s) \in Nat
      /\ Append(s, x)[Len(s) + 1] = x /\ \A i \in 1 .. Len(s) : Append(s, x)[i] = s[i]
  BY AppendFacts
<1>2. ToSet(Append(s, x)) = ToSet(s) \cup {x}
  BY <1>1 DEF ToSet
<1>3. \A i \in 1 .. Len(s) : s[i] # x
  BY <1>1 DEF ToSet
<1>4. IsInjective(Append(s, x))
  BY <1>1, <1>3 DEF IsInjective
<1> QED
  BY <1>2, <1>4

\* A command that is carried is no other handler's.
LEMMA CarriedOnce ==
  ASSUME TypeOK, CommandsAccounted, [Next]_vars
  PROVE  \A v \in Carrying', w \in Workers : cmd'[v] = cmd'[w] => v = w
<1>1. \A v \in Carrying, w \in Workers : cmd[v] = cmd[w] => v = w
  BY DEF CommandsAccounted, Carrying
<1>2. \A v \in Carrying : cmd[v] # 0
  BY DEF TypeOK, Carrying, SendPcs
<1>3. CASE Quiet
  BY <1>1, <1>2, <1>3 DEF Quiet
<1>4. ASSUME NEW w \in Workers, Settles(w)
      PROVE  \A v \in Carrying', u \in Workers : cmd'[v] = cmd'[u] => v = u
  BY <1>1, <1>4 DEF Settles
<1>5. ASSUME NEW w \in Workers, Takes(w)
      PROVE  \A v \in Carrying', u \in Workers : cmd'[v] = cmd'[u] => v = u
  <2>1. cmd'[w] = Len(given) + 1 /\ \A v \in Workers : v # w => cmd'[v] = cmd[v]
    BY <1>5 DEF Takes, TypeOK
  <2>2. \A v \in Workers : cmd[v] # Len(given) + 1
    BY DEF TypeOK
  <2> SUFFICES ASSUME NEW v \in Carrying', NEW u \in Workers, cmd'[v] = cmd'[u] PROVE v = u
    OBVIOUS
  <2>3. v \in Carrying \cup {w} /\ v \in Workers
    BY <1>5 DEF Takes, Carrying
  <2>4. CASE v = w
    BY <2>1, <2>2, <2>4
  <2>5. CASE v # w
    <3>1. v \in Carrying /\ cmd'[v] = cmd[v] /\ cmd[v] # Len(given) + 1
      BY <2>1, <2>2, <2>3, <2>5
    <3>2. u # w
      BY <2>1, <3>1
    <3> QED
      BY <1>1, <2>1, <3>1, <3>2
  <2> QED
    BY <2>4, <2>5
<1> QED
  BY <1>3, <1>4, <1>5, NextMoves

LEMMA NextKeepsAccounted == TypeOK /\ CommandsAccounted /\ [Next]_vars => CommandsAccounted'
<1> SUFFICES ASSUME TypeOK, CommandsAccounted, [Next]_vars PROVE CommandsAccounted'
  OBVIOUS
<1>1. \A v, w \in Workers : pc'[v] \in CarryPcs /\ cmd'[v] = cmd'[w] => v = w
  BY CarriedOnce DEF Carrying
<1>2. /\ 1 .. Len(given) = InHand \cup ToSet(sent) \cup lost
      /\ InHand \cap ToSet(sent) = {} /\ InHand \cap lost = {} /\ ToSet(sent) \cap lost = {}
      /\ IsInjective(sent) /\ sent \in Seq(Nat) /\ Len(given) \in Nat
  BY SeqWidens DEF CommandsAccounted, TypeOK
<1>3. CASE Quiet
  BY <1>1, <1>2, <1>3, HandMoves DEF Quiet, CommandsAccounted
<1>4. ASSUME NEW w \in Workers, Settles(w) PROVE CommandsAccounted'
  <2>1. InHand' = InHand \ {cmd[w]} /\ cmd[w] \in InHand /\ given' = given
    BY <1>4, HandMoves DEF Settles
  <2>2. cmd[w] \notin ToSet(sent) /\ cmd[w] \notin lost /\ cmd[w] \in 1 .. Len(given)
    BY <1>2, <2>1
  <2>3. CASE sent' = Append(sent, cmd[w]) /\ lost' = lost
    <3>1. ToSet(sent') = ToSet(sent) \cup {cmd[w]} /\ IsInjective(sent')
      BY <1>2, <2>2, <2>3, AppendReceived
    <3> QED
      BY <1>1, <1>2, <2>1, <2>2, <2>3, <3>1 DEF CommandsAccounted
  <2>4. CASE sent' = sent /\ lost' = lost \cup {cmd[w]}
    BY <1>1, <1>2, <2>1, <2>2, <2>4 DEF CommandsAccounted
  <2> QED
    BY <1>4, <2>3, <2>4 DEF Settles
<1>5. ASSUME NEW w \in Workers, Takes(w) PROVE CommandsAccounted'
  <2>1. InHand' = InHand \cup {Len(given) + 1}
    BY <1>5, HandMoves
  <2>2. Len(given') = Len(given) + 1
    BY <1>5, AppendFacts DEF Takes, TypeOK
  <2>3. 1 .. Len(given') = (1 .. Len(given)) \cup {Len(given) + 1} /\ Len(given) + 1 \notin 1 .. Len(given)
    BY <1>2, <2>2
  <2>4. sent' = sent /\ lost' = lost
    BY <1>5 DEF Takes
  <2> QED
    BY <1>1, <1>2, <2>1, <2>3, <2>4 DEF CommandsAccounted
<1> QED
  BY <1>3, <1>4, <1>5, NextMoves

\* Nothing is sent twice, nothing vanishes: every command given is carried by one
\* handler, was received once, or was given up.
THEOREM Accounted == Spec => []CommandsAccounted
<1>1. Init => TypeOK /\ CommandsAccounted
  BY InitType, InitAccounted
<1>2. TypeOK /\ CommandsAccounted /\ [Next]_vars => TypeOK' /\ CommandsAccounted'
  BY NextKeepsType, NextKeepsAccounted
<1> QED
  BY <1>1, <1>2, PTL DEF Spec

-----------------------------------------------------------------------------
(* The last command                                                         *)

\* With no finger down the last command given is a Stop.
StopGivenLast == ~finger /\ given # <<>> => given[Len(given)] = Stop

LEMMA NextKeepsStop == TypeOK /\ StopGivenLast /\ [Next]_vars => StopGivenLast'
<1> SUFFICES ASSUME TypeOK, StopGivenLast, [Next]_vars PROVE StopGivenLast'
  OBVIOUS
<1>1. ASSUME NEW w \in Workers, Release(w) PROVE StopGivenLast'
  BY <1>1, AppendFacts DEF Release, Give, TypeOK, Commands, StopGivenLast
<1>2. ASSUME NEW w \in Workers, Press(w) PROVE StopGivenLast'
  BY <1>2 DEF Press, StopGivenLast
<1>3. ASSUME UNCHANGED orders \/ UNCHANGED <<finger, given>> PROVE StopGivenLast'
  BY <1>3 DEF orders, StopGivenLast
<1>4. ASSUME NEW w \in Workers, OpenStep(w) \/ SendStep(w) \/ OpenBluetooth(w)
      PROVE  UNCHANGED orders \/ UNCHANGED <<finger, given>>
  BY <1>4 DEF OpenStep, SendStep, OpenBluetooth, ScanLock, InitCheck, InitMutexes, InitDone, InitFail, ScanEnds,
              SendLock, ProxyNull, ProxyMade, ProxyFails, WriteNull, Write, WriteFails, Cleanup, SendUnlock
<1>5. CASE UNCHANGED vars
  BY <1>3, <1>5 DEF vars
<1> QED
  BY <1>1, <1>2, <1>3, <1>4, <1>5 DEF Next, UserStep

LEMMA StopOvertaken == TypeOK /\ CommandsAccounted /\ StopGivenLast => StopsUnlessOvertaken
<1> SUFFICES ASSUME TypeOK, CommandsAccounted, StopGivenLast,
                    ~finger, InHand = {}, sent # <<>>, given[Last(sent)] # Stop
             PROVE  \E j \in Last(sent) + 1 .. Len(given) :
                      given[j] = Stop /\ (j \in lost \/ \E k \in 1 .. Len(sent) - 1 : sent[k] = j)
  BY DEF StopsUnlessOvertaken
<1> DEFINE j == Len(given)
<1>1. Len(sent) \in Nat \ {0} /\ DOMAIN sent = 1 .. Len(sent) /\ \A k \in 1 .. Len(sent) : sent[k] \in 1 .. j
  BY DEF TypeOK
<1>2. Last(sent) \in 1 .. j /\ Last(sent) = sent[Len(sent)]
  BY <1>1 DEF Last
<1>3. given # <<>> /\ j \in Nat /\ given[j] = Stop
  BY <1>2 DEF StopGivenLast, TypeOK
<1>4. j \in Last(sent) + 1 .. j
  BY <1>2, <1>3
<1>5. j \in lost \/ \E k \in 1 .. Len(sent) : sent[k] = j
  <2>1. j \in ToSet(sent) \cup lost
    BY <1>2, <1>3 DEF CommandsAccounted
  <2> QED
    BY <1>1, <2>1 DEF ToSet
<1>6. j \in lost \/ \E k \in 1 .. Len(sent) - 1 : sent[k] = j
  BY <1>1, <1>2, <1>3, <1>5
<1> QED
  BY <1>3, <1>4, <1>6

\* The car is left driving only by a Stop that was overtaken or lost.
THEOREM StopSafe == Spec => []StopsUnlessOvertaken
<1>1. Init => StopGivenLast
  BY DEF Init, StopGivenLast
<1>2. Spec => []StopGivenLast
  BY <1>1, NextKeepsStop, TypeCorrect, PTL DEF Spec
<1> QED
  BY <1>2, TypeCorrect, Accounted, StopOvertaken, PTL

-----------------------------------------------------------------------------
(* The refinement                                                           *)

LEMMA InitLinked == Init => Link!Init
<1> SUFFICES ASSUME Init PROVE Link!Init
  OBVIOUS
<1>1. InHand = {}
  BY DEF Init, InHand, CarryPcs
<1> QED
  BY <1>1 DEF Init, Link!Init

LEMMA NextLinked == TypeOK /\ CommandsAccounted /\ [Next]_vars => [Link!Next]_(Link!vars)
<1> SUFFICES ASSUME TypeOK, CommandsAccounted, [Next]_vars PROVE [Link!Next]_(Link!vars)
  OBVIOUS
<1>1. CASE Quiet
  BY <1>1, HandMoves DEF Quiet, Link!vars
<1>2. ASSUME NEW w \in Workers, Settles(w) PROVE [Link!Next]_(Link!vars)
  <2>1. InHand' = InHand \ {cmd[w]} /\ cmd[w] \in InHand /\ given' = given
    BY <1>2, HandMoves DEF Settles
  <2>2. Link!Deliver(cmd[w]) \/ Link!GiveUp(cmd[w])
    BY <1>2, <2>1 DEF Settles, Link!Deliver, Link!GiveUp
  <2> QED
    BY <2>1, <2>2 DEF Link!Next
<1>3. ASSUME NEW w \in Workers, Takes(w) PROVE [Link!Next]_(Link!vars)
  <2>1. InHand' = InHand \cup {Len(given) + 1}
    BY <1>3, HandMoves
  <2>2. Len(given') = Len(given) + 1 /\ sent' = sent
    BY <1>3, AppendFacts DEF Takes, TypeOK
  <2> QED
    BY <2>1, <2>2 DEF Link!Next, Link!Give
<1> QED
  BY <1>1, <1>2, <1>3, NextMoves

\* Car control implements the abstract link: with every opening of Bluetooth and
\* every failure around it, a command is received at most once or given up.
THEOREM Implements == Spec => LinkSpec
BY InitLinked, NextLinked, TypeCorrect, Accounted, PTL DEF Spec, LinkSpec, Link!Spec

=============================================================================
