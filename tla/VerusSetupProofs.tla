--------------------------- MODULE VerusSetupProofs ---------------------------
(***************************************************************************)
(* Proofs about VerusSetup, for any number of consumers, files, pins and   *)
(* configurations.                                                         *)
(*                                                                         *)
(* The lock works because everybody who has opened the lock file holds the *)
(* same inode (LockInv).  The stamp works because a stamp that matches the *)
(* checkout means that the distribution is whole and that nobody is        *)
(* rebuilding it, and a stamp never names a pin that is still to come      *)
(* (StampInv).                                                             *)
(***************************************************************************)
EXTENDS VerusSetup, TLAPS

\* Processes from OpenLock to the end of the locked part, and those among them
\* that run vargo or have just run it.
AtLock(p) == pc[p] = "wait" \/ Locked(p)
Building(p) == pc[p] = "build" \/ pc[p] = "record"

LockInv ==
    /\ \A p \in Procs : AtLock(p) => handle[p] = lockfile /\ lockfile # None
    /\ Exclusive
    /\ \A p \in Procs : Locked(p) => key[p] = KeyOf(p)

\* The stamp tells the truth about the checkout as it is.
StampCurrent ==
    \A p \in Procs : stamp = KeyOf(p) =>
        /\ \A c \in Components : dist[c] = KeyOf(p)
        /\ \A q \in Procs : ~Building(q)

\* No stamp is ahead of the checkout.
StampPast == \A k \in Keys : stamp = k => k[1] <= pin

\* vargo has replaced what it has no longer to do.
BuildInv ==
    \A p \in Procs :
        /\ pc[p] = "build" => \A c \in Components \ todo[p] : dist[c] = KeyOf(p)
        /\ pc[p] = "record" => \A c \in Components : dist[c] = KeyOf(p)

VerifyInv == \A p \in Procs : pc[p] = "verify" => stamp = KeyOf(p)

StampInv == StampCurrent /\ StampPast /\ BuildInv /\ VerifyInv

\* What one shared distribution can serve: consumers with one configuration.
OneConfig == \A p, q \in Procs : SetupConfig[p] = SetupConfig[q]

------------------------------------------------------------------------------
LEMMA InitType == Init => TypeOK
  BY SetupAssumption DEF Init, TypeOK, Places

LEMMA KeyOfType == ASSUME pin \in Pins, NEW p \in Procs PROVE KeyOf(p) \in Keys /\ KeyOf(p) # None
  BY SetupAssumption DEF KeyOf, Keys

LEMMA TypeStep == TypeOK /\ [Next]_vars => TypeOK'
<1> SUFFICES ASSUME TypeOK, [Next]_vars PROVE TypeOK'
  OBVIOUS
<1> USE DEF TypeOK, Places, vars, procvars, filevars, Goto, Release
<1>1. ASSUME NEW p \in Procs, Begin(p) PROVE TypeOK'
  BY <1>1 DEF Begin, Keys
<1>2. ASSUME NEW p \in Procs, FetchZ3(p) PROVE TypeOK'
  BY <1>2 DEF FetchZ3, Keys
<1>3. ASSUME NEW p \in Procs, InstallWheel(p) PROVE TypeOK'
  BY <1>3 DEF InstallWheel, Keys
<1>4. ASSUME NEW p \in Procs, OpenLock(p) PROVE TypeOK'
  <2>1. lockfile' \in Inodes \union {None}
    BY <1>4 DEF OpenLock
  <2> QED BY <1>4, <2>1 DEF OpenLock, Keys
<1>5. ASSUME NEW p \in Procs, Acquire(p) PROVE TypeOK'
  BY <1>5, KeyOfType DEF Acquire, Keys
<1>6. ASSUME NEW p \in Procs, LeaveCurrent(p) PROVE TypeOK'
  BY <1>6 DEF LeaveCurrent, Keys
<1>7. ASSUME NEW p \in Procs, StartVargo(p) PROVE TypeOK'
  BY <1>7 DEF StartVargo, Keys
<1>8. ASSUME NEW p \in Procs, NEW c \in Components, Replace(p, c) PROVE TypeOK'
  <2>1. KeyOf(p) \in Keys
    BY KeyOfType
  <2>2. dist' \in [Components -> Keys \union {None}] /\ todo' \in [Procs -> SUBSET Components]
    BY <1>8, <2>1 DEF Replace
  <2> QED BY <1>8, <2>2 DEF Replace, Keys
<1>9. ASSUME NEW p \in Procs, VargoDone(p) PROVE TypeOK'
  BY <1>9 DEF VargoDone, Keys
<1>10. ASSUME NEW p \in Procs, Record(p) PROVE TypeOK'
  <2>1. key[p] \in Keys \union {None}
    OBVIOUS
  <2> QED BY <1>10, <2>1 DEF Record, Keys
<1>11. ASSUME NEW p \in Procs, Stop(p) PROVE TypeOK'
  BY <1>11 DEF Stop, Keys
<1>12. CASE Advance
  <2>1. pin' \in Pins
    BY <1>12 DEF Advance
  <2> QED BY <1>12, <2>1 DEF Advance, Keys
<1>13. CASE verus_clean
  BY <1>13 DEF verus_clean, Clean, Keys
<1>14. CASE UNCHANGED vars
  BY <1>14 DEF Keys
<1> QED
  BY <1>1, <1>2, <1>3, <1>4, <1>5, <1>6, <1>7, <1>8, <1>9, <1>10, <1>11, <1>12, <1>13, <1>14
     DEF Next, Setup, Verified

\* The variables have the values the comments of VerusSetup say.
THEOREM TypeCorrect == Spec => []TypeOK
<1>1. Init => TypeOK
  BY InitType
<1>2. TypeOK /\ [Next]_vars => TypeOK'
  BY TypeStep
<1> QED BY <1>1, <1>2, PTL DEF Spec

------------------------------------------------------------------------------
LEMMA LockStep == TypeOK /\ LockInv /\ [Next]_vars => LockInv'
<1> SUFFICES ASSUME TypeOK, LockInv, [Next]_vars PROVE LockInv'
  OBVIOUS
<1> USE DEF TypeOK, Places, vars, procvars, filevars, Goto, Release, LockInv, AtLock, Locked,
            Exclusive, KeyOf
<1>1. ASSUME NEW p \in Procs, Begin(p) PROVE LockInv'
  BY <1>1 DEF Begin
<1>2. ASSUME NEW p \in Procs, FetchZ3(p) PROVE LockInv'
  BY <1>2 DEF FetchZ3
<1>3. ASSUME NEW p \in Procs, InstallWheel(p) PROVE LockInv'
  BY <1>3 DEF InstallWheel
<1>4. ASSUME NEW p \in Procs, OpenLock(p) PROVE LockInv'
  <2>1. lockfile # None => lockfile' = lockfile
    BY <1>4 DEF OpenLock
  <2>2. lockfile' # None
    BY <1>4, SetupAssumption DEF OpenLock
  <2> QED BY <1>4, <2>1, <2>2 DEF OpenLock
<1>5. ASSUME NEW p \in Procs, Acquire(p) PROVE LockInv'
  <2>1. \A q \in Procs : ~Locked(q)
    BY <1>5 DEF Acquire, Holders
  <2> QED BY <1>5, <2>1 DEF Acquire
<1>6. ASSUME NEW p \in Procs, LeaveCurrent(p) PROVE LockInv'
  BY <1>6 DEF LeaveCurrent
<1>7. ASSUME NEW p \in Procs, StartVargo(p) PROVE LockInv'
  BY <1>7 DEF StartVargo
<1>8. ASSUME NEW p \in Procs, NEW c \in Components, Replace(p, c) PROVE LockInv'
  BY <1>8 DEF Replace
<1>9. ASSUME NEW p \in Procs, VargoDone(p) PROVE LockInv'
  BY <1>9 DEF VargoDone
<1>10. ASSUME NEW p \in Procs, Record(p) PROVE LockInv'
  BY <1>10 DEF Record
<1>11. ASSUME NEW p \in Procs, Stop(p) PROVE LockInv'
  BY <1>11 DEF Stop
<1>12. CASE Advance
  BY <1>12 DEF Advance, Quiet
<1>13. CASE verus_clean
  BY <1>13 DEF verus_clean, Clean, Quiet
<1>14. CASE UNCHANGED vars
  BY <1>14
<1> QED
  BY <1>1, <1>2, <1>3, <1>4, <1>5, <1>6, <1>7, <1>8, <1>9, <1>10, <1>11, <1>12, <1>13, <1>14
     DEF Next, Setup, Verified

\* However many consumers set up at once, one at a time is in the locked part, as
\* long as verus-clean waits until nobody is.
THEOREM MutualExclusion == Spec => []Exclusive
<1>1. Init => TypeOK /\ LockInv
  BY InitType DEF Init, LockInv, AtLock, Locked, Exclusive
<1>2. TypeOK /\ LockInv /\ [Next]_vars => (TypeOK /\ LockInv)'
  BY TypeStep, LockStep
<1>3. LockInv => Exclusive
  BY DEF LockInv
<1> QED BY <1>1, <1>2, <1>3, PTL DEF Spec

------------------------------------------------------------------------------
LEMMA SameKey == OneConfig => \A p, q \in Procs : KeyOf(p) = KeyOf(q)
  BY DEF OneConfig, KeyOf

LEMMA StampStep == OneConfig /\ TypeOK /\ LockInv /\ StampInv /\ [Next]_vars => StampInv'
<1> SUFFICES ASSUME OneConfig, TypeOK, LockInv, StampInv, [Next]_vars PROVE StampInv'
  OBVIOUS
<1> USE DEF StampInv, StampCurrent, StampPast, BuildInv, VerifyInv, Building
<1>k. \A p, q \in Procs : KeyOf(p) = KeyOf(q)
  BY SameKey
<1>a. ASSUME UNCHANGED <<pin, dist, stamp, todo>>, \A q \in Procs : pc'[q] = pc[q] \/
             pc'[q] \in {"idle", "fetch", "wheel", "open", "wait", "test"}
      PROVE StampInv'
  BY <1>a DEF KeyOf
<1>1. ASSUME NEW p \in Procs, Begin(p) PROVE StampInv'
  BY <1>1, <1>a DEF Begin, TypeOK, Goto, filevars
<1>2. ASSUME NEW p \in Procs, FetchZ3(p) PROVE StampInv'
  BY <1>2, <1>a DEF FetchZ3, TypeOK, Goto, filevars
<1>3. ASSUME NEW p \in Procs, InstallWheel(p) PROVE StampInv'
  BY <1>3, <1>a DEF InstallWheel, TypeOK, Goto, filevars
<1>4. ASSUME NEW p \in Procs, OpenLock(p) PROVE StampInv'
  BY <1>4, <1>a DEF OpenLock, TypeOK, Goto
<1>5. ASSUME NEW p \in Procs, Acquire(p) PROVE StampInv'
  BY <1>5, <1>a DEF Acquire, TypeOK, Goto, filevars
<1>6. ASSUME NEW p \in Procs, LeaveCurrent(p) PROVE StampInv'
  <2>1. stamp = KeyOf(p)
    BY <1>6 DEF LeaveCurrent, Current, LockInv, Locked
  <2>2. pc' = [pc EXCEPT ![p] = "verify"] /\ UNCHANGED <<pin, dist, stamp, todo>>
    BY <1>6 DEF LeaveCurrent, Goto, filevars
  <2> QED BY <2>1, <2>2, <1>k DEF TypeOK, KeyOf
<1>7. ASSUME NEW p \in Procs, StartVargo(p) PROVE StampInv'
  <2>1. stamp # KeyOf(p)
    <3>1. key[p] = KeyOf(p)
      BY <1>7 DEF StartVargo, LockInv, Locked
    <3>2. ASSUME stamp = KeyOf(p) PROVE \A c \in Tested : dist[c] # None
      BY <3>2, KeyOfType, SetupAssumption DEF TypeOK
    <3> QED BY <1>7, <3>1, <3>2 DEF StartVargo, Current
  <2>2. /\ pc' = [pc EXCEPT ![p] = "build"] /\ todo' = [todo EXCEPT ![p] = Components]
        /\ UNCHANGED <<pin, dist, stamp>>
    BY <1>7 DEF StartVargo, Goto, filevars
  <2>3. StampCurrent'
    BY <2>1, <2>2, <1>k DEF TypeOK, KeyOf
  <2>4. BuildInv'
    BY <2>2 DEF TypeOK, KeyOf
  <2> QED BY <2>2, <2>3, <2>4 DEF TypeOK, KeyOf
<1>8. ASSUME NEW p \in Procs, NEW c \in Components, Replace(p, c) PROVE StampInv'
  <2>1. /\ dist' = [dist EXCEPT ![c] = KeyOf(p)] /\ todo' = [todo EXCEPT ![p] = @ \ {c}]
        /\ pc[p] = "build" /\ UNCHANGED <<pc, pin, stamp>>
    BY <1>8 DEF Replace
  <2>2. \A q \in Procs : KeyOf(q)' = KeyOf(q)
    BY <2>1 DEF KeyOf
  <2>3. StampCurrent'
    BY <2>1, <2>2, <1>k
  <2>4. BuildInv'
    BY <2>1, <2>2, <1>k DEF TypeOK
  <2> QED BY <2>1, <2>2, <2>3, <2>4
<1>9. ASSUME NEW p \in Procs, VargoDone(p) PROVE StampInv'
  <2>1. /\ pc' = [pc EXCEPT ![p] = "record"] /\ pc[p] = "build" /\ todo[p] = {}
        /\ UNCHANGED <<pin, dist, stamp, todo>>
    BY <1>9 DEF VargoDone, Goto, filevars
  <2> QED BY <2>1 DEF TypeOK, KeyOf
<1>10. ASSUME NEW p \in Procs, Record(p) PROVE StampInv'
  <2>1. /\ pc' = [pc EXCEPT ![p] = "verify"] /\ pc[p] = "record" /\ stamp' = KeyOf(p)
        /\ UNCHANGED <<pin, dist, todo>>
    BY <1>10 DEF Record, Goto, LockInv, Locked
  <2>2. \A q \in Procs : KeyOf(q)' = KeyOf(q)
    BY <2>1 DEF KeyOf
  <2>3. \A q \in Procs : ~Building(q)'
    <3>1. \A q \in Procs : Building(q) => q = p
      BY <2>1 DEF LockInv, Exclusive, Locked
    <3> QED BY <2>1, <3>1 DEF TypeOK
  <2>4. StampCurrent'
    BY <2>1, <2>2, <2>3, <1>k
  <2>5. StampPast'
    <3>1. KeyOf(p)[1] = pin /\ pin \in Nat
      BY SetupAssumption DEF KeyOf, TypeOK
    <3>2. Keys' = Keys
      BY DEF Keys
    <3> QED BY <2>1, <3>1, <3>2
  <2>6. VerifyInv'
    BY <2>1, <2>2, <1>k DEF TypeOK
  <2> QED BY <2>3, <2>4, <2>5, <2>6
<1>11. ASSUME NEW p \in Procs, Stop(p) PROVE StampInv'
  <2>1. /\ pc' = [pc EXCEPT ![p] = "idle"] /\ todo' = [todo EXCEPT ![p] = {}]
        /\ UNCHANGED <<pin, dist, stamp>>
    BY <1>11 DEF Stop, Goto, filevars
  <2> QED BY <2>1 DEF TypeOK, KeyOf
<1>12. CASE Advance
  <2>1. pin' > pin /\ pin \in Nat /\ pin' \in Nat
    BY <1>12, SetupAssumption DEF Advance, TypeOK
  <2>2. UNCHANGED <<pc, dist, stamp, todo>> /\ \A q \in Procs : pc[q] = "idle"
    BY <1>12 DEF Advance, Quiet, procvars, filevars
  <2>3. \A q \in Procs : stamp # KeyOf(q)'
    <3> SUFFICES ASSUME NEW q \in Procs, stamp = KeyOf(q)' PROVE FALSE
      OBVIOUS
    <3>1. stamp = <<pin', SetupConfig[q]>> /\ stamp \in Keys
      BY <1>12 DEF KeyOf, Keys, Advance
    <3>2. stamp[1] = pin' /\ stamp[1] <= pin
      BY <3>1
    <3> QED BY <3>2, <2>1
  <2>4. StampPast'
    <3> SUFFICES ASSUME NEW k \in Keys, stamp = k PROVE k[1] <= pin'
      BY <2>2 DEF Keys
    <3>1. k[1] \in Nat /\ k[1] <= pin
      BY SetupAssumption DEF Keys
    <3> QED BY <3>1, <2>1
  <2> QED BY <2>2, <2>3, <2>4
<1>13. CASE verus_clean
  <2>1. stamp' = None /\ pin' = pin /\ pc' = pc /\ \A q \in Procs : pc[q] = "idle"
    BY <1>13 DEF verus_clean, Clean, Quiet, procvars
  <2>2. \A q \in Procs : None # KeyOf(q)'
    BY <2>1, KeyOfType DEF TypeOK, KeyOf
  <2>3. None \notin Keys'
    BY SetupAssumption DEF Keys
  <2> QED BY <2>1, <2>2, <2>3
<1>14. CASE UNCHANGED vars
  BY <1>14, <1>a DEF vars, procvars, filevars
<1> QED
  BY <1>1, <1>2, <1>3, <1>4, <1>5, <1>6, <1>7, <1>8, <1>9, <1>10, <1>11, <1>12, <1>13, <1>14
     DEF Next, Setup, Verified

IInv == TypeOK /\ LockInv /\ StampInv

LEMMA IInvInit == Init => IInv
<1> SUFFICES ASSUME Init PROVE IInv
  OBVIOUS
<1>1. TypeOK
  BY InitType
<1>2. LockInv
  BY DEF Init, LockInv, AtLock, Locked, Exclusive
<1>3. StampInv
  <2>1. stamp = None /\ None \notin Keys
    BY SetupAssumption DEF Init, Keys
  <2>2. \A p \in Procs : stamp # KeyOf(p) /\ pc[p] = "idle"
    BY <1>1, <2>1, KeyOfType DEF Init
  <2> QED BY <2>1, <2>2 DEF StampInv, StampCurrent, StampPast, BuildInv, VerifyInv
<1> QED BY <1>1, <1>2, <1>3 DEF IInv

LEMMA IInvStep == OneConfig /\ IInv /\ [Next]_vars => IInv'
  BY TypeStep, LockStep, StampStep DEF IInv

\* Consumers that agree on the setup configuration verify with the distribution
\* of the pin, file by file, whatever setups failed or were killed before, as long
\* as the pin only moves forward and only while nobody uses the checkout.
THEOREM RightVerifier == OneConfig /\ Spec => []UsesPinned
<1>1. IInv => UsesPinned
  BY DEF IInv, StampInv, VerifyInv, StampCurrent, UsesPinned
<1>2. OneConfig /\ IInv /\ [Next]_vars => IInv'
  BY IInvStep
<1>3. OneConfig => OneConfig'
  BY DEF OneConfig
<1> QED BY <1>1, <1>2, <1>3, IInvInit, PTL DEF Spec

\* ... and vargo does not run while one of them does.
THEOREM VerifierUndisturbed == OneConfig /\ Spec => []NotUnderAVerifier
<1>1. IInv => NotUnderAVerifier
  BY DEF IInv, StampInv, VerifyInv, StampCurrent, Building, NotUnderAVerifier
<1>2. OneConfig /\ IInv /\ [Next]_vars => IInv'
  BY IInvStep
<1>3. OneConfig => OneConfig'
  BY DEF OneConfig
<1> QED BY <1>1, <1>2, <1>3, IInvInit, PTL DEF Spec
==============================================================================
