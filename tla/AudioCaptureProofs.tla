------------------------- MODULE AudioCaptureProofs -------------------------
(***************************************************************************)
(* Theorems about AudioCapture, for every LOCKUP_CHUNKS, MAX_REINITS and   *)
(* grace time and any width of millis().                                   *)
(***************************************************************************)
EXTENDS AudioCapture, TLAPS

(***************************************************************************)
(* The strengthening: the two histories are what the code counts.  row is  *)
(* reinits, although one is read off the steps and the other is reset in   *)
(* three places, and quiet runs ahead of lockups by the reads noteLockup   *)
(* returned from early.                                                    *)
(***************************************************************************)
Counted == row = reinits /\ lockups <= quiet

IInv == TypeOK /\ Counted

LEMMA InitIInv == Init => IInv
  <1> SUFFICES ASSUME NEW stored \in Setting, Boot(stored) PROVE IInv
    BY DEF Init
  <1>1. restart \in BOOLEAN
    BY Zenon DEF Boot
  <1> QED BY CaptureAssumption, <1>1 DEF Boot, IInv, TypeOK, Counted

LEMMA NextIInv == IInv /\ [Next]_vars => IInv'
  <1> SUFFICES ASSUME IInv, [Next]_vars PROVE IInv'
    OBVIOUS
  <1> USE CaptureAssumption DEF IInv, TypeOK, Counted
  <1>1. ASSUME NEW n \in Setting, Apply(n) PROVE IInv'
    BY <1>1 DEF Apply, captureVars
  <1>2. CASE Assign
    BY <1>2 DEF Assign, captureVars
  <1>3. CASE Save
    BY <1>3 DEF Save, captureVars
  <1>4. CASE Capture
    <2> USE DEF settingsVars
    <2>1. CASE Sleep
      BY <2>1 DEF Sleep
    <2>2. CASE Restart
      <3>1. restart' \in BOOLEAN
        BY <2>2, Zenon DEF Restart
      <3> QED BY <2>2, <3>1 DEF Restart
    <2>3. CASE GoOn
      BY <2>3 DEF GoOn
    <2>4. CASE Open
      BY <2>4 DEF Open, Started, Setting
    <2>5. CASE OpenFails
      BY <2>5 DEF OpenFails
    <2>6. CASE Sound
      BY <2>6 DEF Sound
    <2>7. CASE Silence
      BY <2>7 DEF Silence, Quieter
    <2>8. CASE GiveUp
      BY <2>8 DEF GiveUp, Quieter
    <2>9. CASE Stop
      BY <2>9 DEF Stop, Quieter
    <2>10. CASE Reinit
      BY <2>10 DEF Reinit, Started, Setting
    <2>11. CASE ReinitFails
      BY <2>11 DEF ReinitFails
    <2> QED
      BY <1>4, <2>1, <2>2, <2>3, <2>4, <2>5, <2>6, <2>7, <2>8, <2>9, <2>10, <2>11
      DEF Capture
  <1>5. CASE Tick
    BY <1>5 DEF Tick, settingsVars
  <1>6. CASE Reboot
    <2>1. restart' \in BOOLEAN
      BY <1>6, Zenon DEF Reboot
    <2> QED BY <1>6, <2>1 DEF Reboot
  <1>7. CASE UNCHANGED vars
    BY <1>7 DEF vars, settingsVars
  <1> QED BY <1>1, <1>2, <1>3, <1>4, <1>5, <1>6, <1>7 DEF Next

LEMMA Inductive == Spec => []IInv
  BY InitIInv, NextIInv, PTL DEF Spec

-----------------------------------------------------------------------------

(***************************************************************************)
(* The task's state is well typed under every interleaving with apply; the *)
(* counters never pass their limits.                                       *)
(***************************************************************************)
THEOREM TypeCorrect == Spec => []TypeOK
  <1>1. IInv => TypeOK
    BY DEF IInv
  <1> QED BY <1>1, Inductive, PTL

(***************************************************************************)
(* noteLockup gives up after MAX_REINITS, whatever sleeps, failed starts   *)
(* and settings lie between its calls.                                     *)
(***************************************************************************)
THEOREM ReinitsBounded == Spec => []ReinitsInRow
  <1>1. IInv => ReinitsInRow
    BY CaptureAssumption DEF IInv, TypeOK, Counted, ReinitsInRow
  <1> QED BY <1>1, Inductive, PTL

(***************************************************************************)
(* The watchdog never acts before LOCKUP_CHUNKS silent reads in a row.     *)
(***************************************************************************)
THEOREM ReinitsJustified == Spec => ReinitAfterSilence
  <1>1. IInv /\ [Next]_vars => [Stop => quiet + 1 >= LockupChunks]_vars
    BY CaptureAssumption DEF IInv, TypeOK, Counted, Stop, Lockup
  <1> QED BY <1>1, Inductive, PTL DEF Spec, ReinitAfterSilence

-----------------------------------------------------------------------------
(* The safety half of FollowsAwake: on its way to an idle channel the task   *)
(* of a sleeping node only gets nearer, so that only its fairness is left to *)
(* assume.                                                                   *)

\* The most steps until the task has switched the channel off.
StepsToOff == CASE pc = "open" -> 4 [] pc = "read" -> 3 [] pc = "reinit" -> 2
                [] pc = "top" -> IF rx = Off THEN 0 ELSE 1

LEMMA SettlingStep ==
  ASSUME IInv, [Next]_vars, ~settings.awake
  PROVE  /\ StepsToOff' <= StepsToOff
         /\ Capture /\ StepsToOff > 0 => StepsToOff' < StepsToOff
  <1> USE DEF StepsToOff
  <1>1. pc \in {"top", "open", "read", "reinit"}
    BY DEF IInv, TypeOK
  <1>2. CASE Capture
    <2>1. ~Restart /\ ~GoOn
      BY DEF Restart, GoOn
    <2>2. CASE Sleep
      BY <1>1, <2>2 DEF Sleep
    <2>3. CASE Open
      BY <2>3 DEF Open
    <2>4. CASE OpenFails
      BY <2>4 DEF OpenFails
    <2>5. CASE Sound
      BY <2>5 DEF Sound
    <2>6. CASE Silence
      BY <2>6 DEF Silence
    <2>7. CASE GiveUp
      BY <2>7 DEF GiveUp
    <2>8. CASE Stop
      BY <2>8 DEF Stop
    <2>9. CASE Reinit
      BY <2>9 DEF Reinit
    <2>10. CASE ReinitFails
      BY <2>10 DEF ReinitFails
    <2> QED
      BY <1>2, <2>1, <2>2, <2>3, <2>4, <2>5, <2>6, <2>7, <2>8, <2>9, <2>10 DEF Capture
  <1>3. ASSUME ~Capture, UNCHANGED <<pc, rx>> \/ Reboot
        PROVE  StepsToOff' <= StepsToOff
    BY <1>1, <1>3 DEF Reboot
  <1>4. Capture \/ UNCHANGED <<pc, rx>> \/ Reboot
    BY DEF Next, Apply, Assign, Save, Tick, captureVars, settingsVars, vars
  <1> QED BY <1>2, <1>3, <1>4

(***************************************************************************)
(* While a node is told to sleep, each step of the capture task, one of    *)
(* the watchdog's too, brings it nearer to an idle channel, no command,    *)
(* tick or reset takes it farther, and it stays off once it is off.        *)
(***************************************************************************)
THEOREM AsleepSettles ==
  Spec => /\ [](StepsToOff = 0 => rx = Off)
          /\ [][~settings.awake =>
                  /\ StepsToOff' <= StepsToOff
                  /\ Capture /\ StepsToOff > 0 => StepsToOff' < StepsToOff]_vars
  <1>1. IInv => (StepsToOff = 0 => rx = Off)
    BY DEF IInv, TypeOK, StepsToOff
  <1>2. IInv /\ [Next]_vars =>
          [~settings.awake =>
             /\ StepsToOff' <= StepsToOff
             /\ Capture /\ StepsToOff > 0 => StepsToOff' < StepsToOff]_vars
    BY SettlingStep
  <1> QED BY <1>1, <1>2, Inductive, PTL DEF Spec

=============================================================================
