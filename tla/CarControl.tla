----------------------------- MODULE CarControl -----------------------------
(***************************************************************************)
(* Car control: the drive buttons (src/src/user/ui_lvgl.c), the handler    *)
(* threads they start (src/main.c) and bluetooth_send, with init_bluetooth *)
(* on which it depends (src/src/user/blue_tooth.c).                        *)
(*                                                                         *)
(* A press gives the command of its button, the release gives Stop; each   *)
(* is carried by a handler thread of its own to bluetooth_send.  A command *)
(* has an identity here, its position in "given", so that a lost or        *)
(* repeated one is seen.  A mutex is a futex word, as in module Bluetooth; *)
(* "tears" counts how often init_bluetooth cleared it while it was held.   *)
(*                                                                         *)
(* External: D-Bus and the car.  A call made through a NULL proxy does     *)
(* nothing and reports no error; one that fails may have reached the car   *)
(* or not.                                                                 *)
(***************************************************************************)
EXTENDS Naturals, Sequences, FiniteSets, SequencesExt

CONSTANTS
  Workers,      \* detached threads that may run message_handler_thread at a time
  Drives,       \* the commands of the drive buttons
  Stop,         \* the 'p' of the Stop button and of auto_stop
  MaxGiven,     \* bound: commands given in a behaviour
  MaxFailures   \* bound: init_bluetooth calls that return 1

Locks    == {"scan", "send"}
Commands == Drives \cup {Stop}
Crashes  == {"none", "freed connection", "cleanup"}

ASSUME WorkersAssumption == Workers # {} /\ IsFiniteSet(Workers)
ASSUME CommandsAssumption == Stop \notin Drives
ASSUME BoundsAssumption == MaxGiven \in Nat /\ MaxFailures \in Nat

VARIABLES
  pc,           \* where each handler thread is
  word, tears,  \* per mutex: the futex word, and how often init cleared it held
  initFlag,     \* init_flag of blue_tooth.c
  conn,         \* what conn points to
  failures,     \* init_bluetooth calls that returned 1 (see MaxFailures)
  finger,       \* a drive button is pressed
  given,        \* history: the commands given
  cmd,          \* per handler: the position of its command in given, 0 for none
  sent,         \* the commands the car has received, in order
  lost,         \* history: the commands given up
  crash         \* the undefined behaviour that ended the process, if any

locks  == <<word, tears>>
bus    == <<initFlag, conn, failures>>
orders == <<finger, given, cmd>>
result == <<sent, lost>>
vars   == <<pc, locks, bus, orders, result, crash>>

-----------------------------------------------------------------------------

CarryPcs == {"lock", "proxy", "write", "write_null"}
SendPcs  == CarryPcs \cup {"cleanup", "cleanup_bad", "unlock"}
OpenPcs  == {"scan_lock", "init", "mutexes", "bus", "scan"}

Section == [send |-> SendPcs \ {"lock"}, scan |-> OpenPcs \ {"scan_lock"}]

WorkerPcs == {"idle"} \cup SendPcs \cup OpenPcs

Inside(m) == {w \in Workers : pc[w] \in Section[m]}

\* The commands a handler has in its hands.
InHand == {cmd[w] : w \in {v \in Workers : pc[v] \in CarryPcs}}

Goto(w, from, to) == pc[w] = from /\ pc' = [pc EXCEPT ![w] = to]

\* pthread_mutex_lock and pthread_mutex_unlock.
Lock(w, m, from, to) ==
  /\ Goto(w, from, to)
  /\ word[m] = 0
  /\ word' = [word EXCEPT ![m] = 1]
  /\ UNCHANGED tears

Unlock(w, m, from, to) ==
  /\ Goto(w, from, to)
  /\ word' = [word EXCEPT ![m] = 0]
  /\ UNCHANGED tears

-----------------------------------------------------------------------------
(* bluetooth_scan_thread as far as bluetooth_send depends on it             *)

OpenBluetooth(w) == Goto(w, "idle", "scan_lock") /\ UNCHANGED <<locks, bus, orders, result, crash>>

ScanLock(w) == Lock(w, "scan", "scan_lock", "init") /\ UNCHANGED <<bus, orders, result, crash>>

InitCheck(w) ==
  /\ Goto(w, "init", IF initFlag THEN "scan" ELSE "mutexes")
  /\ UNCHANGED <<locks, bus, orders, result, crash>>

InitMutexes(w) ==
  /\ Goto(w, "mutexes", "bus")
  /\ word' = [m \in Locks |-> 0]
  /\ tears' = [m \in Locks |-> tears[m] + word[m]]
  /\ UNCHANGED <<bus, orders, result, crash>>

InitDone(w) ==
  /\ Goto(w, "bus", "scan")
  /\ initFlag' = TRUE
  /\ conn' = "valid"
  /\ UNCHANGED <<locks, failures, orders, result, crash>>

\* No bus: conn is NULL.  No adapter or no object manager: conn is released,
\* which frees the shared connection unless an earlier call still holds it.
InitFail(w) ==
  /\ failures < MaxFailures
  /\ Goto(w, "bus", "scan")
  /\ failures' = failures + 1
  /\ conn' \in {"null", IF initFlag THEN conn ELSE "freed"}
  /\ UNCHANGED <<locks, initFlag, orders, result, crash>>

ScanEnds(w) ==
  /\ Unlock(w, "scan", "scan", "idle")
  /\ UNCHANGED <<bus, orders, result, crash>>

-----------------------------------------------------------------------------
(* bluetooth_send, called by message_handler_thread for BLUETOOTH_SEND      *)

\* Mutant: the section is entered without the mutex.
SendUnlocked(w) == Goto(w, "lock", "proxy") /\ UNCHANGED <<locks, bus, orders, result, crash>>

SendLock(w) == Lock(w, "send", "lock", "proxy") /\ UNCHANGED <<bus, orders, result, crash>>

GiveUp(w) == lost' = lost \cup {cmd[w]} /\ UNCHANGED sent

\* g_dbus_proxy_new_sync: without a connection it returns NULL and no error.
ProxyNull(w) ==
  /\ Goto(w, "proxy", "write_null")
  /\ conn # "valid"
  /\ crash' \in (IF conn = "freed" THEN {"none", "freed connection"} ELSE {"none"})
  /\ UNCHANGED <<locks, bus, orders, result>>

ProxyMade(w) ==
  /\ Goto(w, "proxy", "write")
  /\ conn = "valid"
  /\ UNCHANGED <<locks, bus, orders, result, crash>>

\* An error: the cleanup is reached before its variables are initialised.
ProxyFails(w) ==
  /\ Goto(w, "proxy", "cleanup_bad")
  /\ conn = "valid"
  /\ GiveUp(w)
  /\ UNCHANGED <<locks, bus, orders, crash>>

\* The call through a NULL proxy returns at once; ans is still the caller's.
WriteNull(w) ==
  /\ Goto(w, "write_null", "cleanup")
  /\ GiveUp(w)
  /\ UNCHANGED <<locks, bus, orders, crash>>

\* Mutant: a write that reached the car is tried again.
WriteAgain(w) ==
  /\ pc[w] = "write"
  /\ pc' \in {pc, [pc EXCEPT ![w] = "cleanup_bad"]}
  /\ sent' = Append(sent, cmd[w])
  /\ UNCHANGED <<locks, bus, orders, lost, crash>>

\* WriteValue reaches the car, whatever the call then returns.  It has consumed
\* ans, which the cleanup releases once more.
Write(w) ==
  /\ Goto(w, "write", "cleanup_bad")
  /\ sent' = Append(sent, cmd[w])
  /\ UNCHANGED <<locks, bus, orders, lost, crash>>

WriteFails(w) ==
  /\ Goto(w, "write", "cleanup_bad")
  /\ GiveUp(w)
  /\ UNCHANGED <<locks, bus, orders, crash>>

\* The cleanup releases what was never set or is already freed: that ends the
\* process or goes unnoticed.
Cleanup(w) ==
  /\ \/ Goto(w, "cleanup", "unlock") /\ crash' = "none"
     \/ Goto(w, "cleanup_bad", "unlock") /\ crash' \in {"none", "cleanup"}
  /\ UNCHANGED <<locks, bus, orders, result>>

\* Mutants: the mutex stays locked; the parameter is kept.
SendKeeps(w) ==
  /\ Goto(w, "unlock", "idle")
  /\ cmd' = [cmd EXCEPT ![w] = 0]
  /\ UNCHANGED <<locks, bus, finger, given, result, crash>>

SendKeepsParam(w) ==
  /\ Unlock(w, "send", "unlock", "idle")
  /\ UNCHANGED <<bus, orders, result, crash>>

SendUnlock(w) ==
  /\ Unlock(w, "send", "unlock", "idle")
  /\ cmd' = [cmd EXCEPT ![w] = 0]
  /\ UNCHANGED <<bus, finger, given, result, crash>>

-----------------------------------------------------------------------------
(* car_ctr_event                                                            *)

\* A detached thread runs message_handler_thread for BLUETOOTH_SEND.
Give(w, c) ==
  /\ Goto(w, "idle", "lock")
  /\ given' = Append(given, c)
  /\ cmd' = [cmd EXCEPT ![w] = Len(given) + 1]
  /\ UNCHANGED <<locks, bus, result, crash>>

\* LV_EVENT_PRESSED; there is always room for the release (see MaxGiven).
Press(w) ==
  /\ ~finger /\ finger' = TRUE
  /\ Len(given) + 2 <= MaxGiven
  /\ \E c \in Commands : Give(w, c)

\* Mutant: the release sends the button's own command.
ReleaseSame(w) ==
  /\ finger /\ finger' = FALSE
  /\ Give(w, Last(given))

\* LV_EVENT_RELEASED: auto_stop.
Release(w) ==
  /\ finger /\ finger' = FALSE
  /\ Give(w, Stop)

-----------------------------------------------------------------------------

Init ==
  /\ pc = [w \in Workers |-> "idle"]
  /\ word = [m \in Locks |-> 0] /\ tears = [m \in Locks |-> 0]
  /\ initFlag = FALSE /\ conn = "null" /\ failures = 0
  /\ finger = FALSE /\ given = <<>> /\ cmd = [w \in Workers |-> 0]
  /\ sent = <<>> /\ lost = {} /\ crash = "none"

OpenStep(w) == \/ ScanLock(w) \/ InitCheck(w) \/ InitMutexes(w) \/ InitDone(w) \/ InitFail(w)
               \/ ScanEnds(w)
SendStep(w) == \/ SendLock(w) \/ ProxyNull(w) \/ ProxyMade(w) \/ ProxyFails(w) \/ WriteNull(w)
               \/ Write(w) \/ WriteFails(w) \/ Cleanup(w) \/ SendUnlock(w)
UserStep(w) == OpenBluetooth(w) \/ Press(w) \/ Release(w)

Running == crash = "none"

Next == Running /\ \E w \in Workers : OpenStep(w) \/ SendStep(w) \/ UserStep(w)

Spec == Init /\ [][Next]_vars

(* Every sender is scheduled, and takes the mutex if it is free again and    *)
(* again, unless it may be asleep on a word that was cleared.                *)
Fairness ==
  \A w \in Workers : SF_vars(Running /\ ~(pc[w] = "lock" /\ tears["send"] > 0) /\ SendStep(w))

FairSpec == Spec /\ Fairness

-----------------------------------------------------------------------------
(* Properties                                                               *)

TypeOK ==
  /\ pc \in [Workers -> WorkerPcs]
  /\ word \in [Locks -> 0 .. 1] /\ tears \in [Locks -> Nat]
  /\ initFlag \in BOOLEAN /\ conn \in {"null", "valid", "freed"} /\ failures \in 0 .. MaxFailures
  /\ finger \in BOOLEAN /\ given \in Seq(Commands)
  /\ cmd \in [Workers -> 0 .. Len(given)]
  /\ \A w \in Workers : pc[w] \in SendPcs <=> cmd[w] # 0
  /\ sent \in Seq(1 .. Len(given)) /\ lost \subseteq 1 .. Len(given)
  /\ crash \in Crashes

\* At most one thread is in bluetooth_send between lock and unlock, plus one for
\* each time an opening of Bluetooth initialised the mutex under a sender; the
\* same for the scan mutex.
SendDebt == \A m \in Locks : Cardinality(Inside(m)) <= word[m] + tears[m]

\* No way out of either section leaves its mutex locked: a held one has an owner,
\* however often the words were cleared, and as no owner waits for another mutex, a
\* waiting handler gets its turn.
HeldHasOwner == \A m \in Locks : word[m] = 1 => Inside(m) # {}

\* Every command given is in exactly one place: in the hands of one handler,
\* received by the car once, or given up.  Torn mutex or not, nothing is sent
\* twice and nothing vanishes.
CommandsAccounted ==
  /\ 1 .. Len(given) = InHand \cup ToSet(sent) \cup lost
  /\ InHand \cap ToSet(sent) = {} /\ InHand \cap lost = {} /\ ToSet(sent) \cap lost = {}
  /\ IsInjective(sent)
  /\ \A v, w \in Workers : pc[v] \in CarryPcs /\ cmd[v] = cmd[w] => v = w

\* The handlers of a press and of its release race, so the car can be left
\* driving.  But only that way: when no finger is down, no command is under way
\* and the last command received is a drive, a Stop was given after it, and it
\* was overtaken or lost.
StopsUnlessOvertaken ==
  ~finger /\ InHand = {} /\ sent # <<>> /\ given[Last(sent)] # Stop =>
    \E j \in Last(sent) + 1 .. Len(given) :
      given[j] = Stop /\ (j \in lost \/ \E k \in 1 .. Len(sent) - 1 : sent[k] = j)

\* CarControl implements the abstract link: what is under way, what was received.
Link == INSTANCE CommandLink WITH count <- Len(given), pending <- InHand
LinkSpec == Link!Spec

\* Every command given reaches the car or is given up, if no opening clears the
\* mutex under a sender.
CommandsSettled ==
  \A w \in Workers : [](tears["send"] = 0 /\ Running) => (pc[w] = "lock" ~> pc[w] = "idle")

=============================================================================
