-------------------------- MODULE LegacyBootProofs --------------------------
(***************************************************************************)
(* Theorems about LegacyBoot, for every CRASH_BOOT_LIMIT.                  *)
(***************************************************************************)
EXTENDS LegacyBoot, TLAPS

(***************************************************************************)
(* The strengthening.  Running says which firmware is at which stage;      *)
(* Selected, that what runs is what is selected, unless what is selected   *)
(* does not boot: then an update, which spares the running slot, spares    *)
(* the selected one.  Earned relates the counter to the history.           *)
(***************************************************************************)
Running == /\ app = Off <=> stage = "off"
           /\ stage = "portal" => app = Factory
           /\ stage \notin {"off", "portal", "ota"} => app \in Slots
           /\ stage = "ota" => target # app

Selected == app # Off /\ Bootable(boot) => boot = app

Earned == /\ crashes <= unstable
          /\ stage = "recover" => crashes = 0 /\ unstable > CrashBootLimit

IInv == TypeOK /\ Running /\ Selected /\ Earned

LEMMA InitIInv == Init => IInv
  BY BootAssumption
  DEF Init, IInv, TypeOK, Stages, Slots, Running, Selected, Earned

LEMMA NextIInv == IInv /\ [Next]_vars => IInv'
  <1> SUFFICES ASSUME IInv, [Next]_vars PROVE IInv'
    OBVIOUS
  <1> USE BootAssumption
      DEF IInv, TypeOK, Stages, Slots, Whole, Running, Selected, Earned, Bootable,
          flash, PowerOff
  <1>1. CASE StartSelected
    BY <1>1 DEF StartSelected, Start
  <1>2. CASE StartAnother
    BY <1>2 DEF StartAnother, Start
  <1>3. CASE Rollback
    BY <1>3 DEF Rollback, OnProbation
  <1>4. CASE Count
    BY <1>4 DEF Count, Counted
  <1>5. CASE Setup
    <2>1. CASE GoOn
      BY <2>1 DEF GoOn
    <2>2. CASE GiveUp
      BY <2>2 DEF GiveUp
    <2>3. CASE ConnectWiFi
      BY <2>3 DEF ConnectWiFi
    <2>4. CASE ConnectMQTT
      BY <2>4 DEF ConnectMQTT
    <2>5. CASE MarkValid
      BY <2>5 DEF MarkValid, OnProbation
    <2> QED BY <1>5, <2>1, <2>2, <2>3, <2>4, <2>5 DEF Setup
  <1>6. CASE IntoRecovery
    BY <1>6 DEF IntoRecovery
  <1>7. CASE Elapse
    BY <1>7 DEF Elapse
  <1>8. CASE Confirm
    BY <1>8 DEF Confirm
  <1>9. CASE ConnectionLost \/ Reconnect
    BY <1>9 DEF ConnectionLost, Reconnect
  <1>10. CASE Reboot
    BY <1>10 DEF Reboot
  <1>11. CASE BeginOTA
    BY <1>11 DEF BeginOTA, NextSlots
  <1>12. CASE FinishOTA
    BY <1>12 DEF FinishOTA
  <1>13. CASE FailOTA
    BY <1>13 DEF FailOTA
  <1>14. CASE handleBoot
    <2>1. BootTarget \in Slots
      BY DEF BootTarget
    <2> QED BY <1>14, <2>1 DEF handleBoot
  <1>15. CASE handleSave \/ Crash \/ Reset
    BY <1>15 DEF handleSave, Crash, Reset
  <1>16. CASE UNCHANGED vars
    BY <1>16 DEF vars
  <1> QED BY <1>1, <1>2, <1>3, <1>4, <1>5, <1>6, <1>7, <1>8, <1>9, <1>10, <1>11,
             <1>12, <1>13, <1>14, <1>15, <1>16 DEF Next, Bootloader

LEMMA Inductive == Spec => []IInv
  BY InitIInv, NextIInv, PTL DEF Spec

-----------------------------------------------------------------------------

(***************************************************************************)
(* Boot, update and recovery keep their types: each firmware is only ever  *)
(* at a stage of its own.                                                  *)
(***************************************************************************)
THEOREM TypeCorrect == Spec => []TypeOK
  <1>1. IInv => TypeOK
    BY DEF IInv
  <1> QED BY <1>1, Inductive, PTL

(***************************************************************************)
(* No half-written image is ever selected once a whole one is.             *)
(***************************************************************************)
THEOREM SelectionStaysBootable == Spec => StaysBootable
  <1>1. ASSUME IInv, [Next]_vars, Bootable(boot) PROVE Bootable(boot)'
    <2> USE BootAssumption, <1>1
        DEF IInv, TypeOK, Slots, Whole, Running, Selected, Bootable, flash
    <2>1. CASE BeginOTA
      BY <2>1 DEF BeginOTA, NextSlots
    <2>2. CASE FinishOTA
      BY <2>2 DEF FinishOTA
    <2>3. CASE handleBoot
      BY <2>3 DEF handleBoot
    <2>4. CASE IntoRecovery \/ Rollback
      BY <2>4 DEF IntoRecovery, Rollback
    <2>5. CASE StartSelected \/ StartAnother \/ Count \/ Setup
      BY <2>5 DEF StartSelected, StartAnother, Start, Count, Setup, GoOn, GiveUp,
                  ConnectWiFi, ConnectMQTT, MarkValid
    <2>6. CASE Elapse \/ Confirm \/ ConnectionLost \/ Reconnect \/ Reboot \/ FailOTA
      BY <2>6 DEF Elapse, Confirm, ConnectionLost, Reconnect, Reboot, FailOTA
    <2>7. CASE handleSave \/ Crash \/ Reset \/ UNCHANGED vars
      BY <2>7 DEF handleSave, Crash, Reset, vars
    <2> QED BY <2>1, <2>2, <2>3, <2>4, <2>5, <2>6, <2>7 DEF Next, Bootloader
  <1>2. IInv /\ [Next]_vars => [Bootable(boot) => Bootable(boot)']_vars
    BY <1>1
  <1> QED BY <1>2, Inductive, PTL DEF Spec, StaysBootable

(***************************************************************************)
(* What was counted before a stable start or an earlier recovery never     *)
(* adds to the counter that sends the board to recovery.                   *)
(***************************************************************************)
THEOREM RecoveriesEarned == Spec => RecoveryEarned
  <1>1. IInv /\ [Next]_vars => [IntoRecovery => unstable > CrashBootLimit]_vars
    BY DEF IInv, Earned, IntoRecovery
  <1> QED BY <1>1, Inductive, PTL DEF Spec, RecoveryEarned

=============================================================================
