----------------------------- MODULE LegacyBoot -----------------------------
(***************************************************************************)
(* Booting, updating and recovering a board with the legacy firmware:      *)
(* node_firmware.ino in two OTA slots, recovery_firmware.ino in the        *)
(* factory partition, the crash counter in NVS.                            *)
(*                                                                         *)
(* What an image does when it runs is part of the environment: it may      *)
(* crash before it has connected, crash before it is stable, or be good.   *)
(* A reset, by a crash or a power cut, may come between any two steps.     *)
(*                                                                         *)
(* External, from the calls the sketches make: the bootloader and          *)
(* esp_ota_ops.  A new image is started once on probation, unless the core *)
(* confirms it before setup(); an image that does not boot is passed over; *)
(* selecting the factory partition may erase what was known of the slots;  *)
(* a half-written image is never selected.                                 *)
(***************************************************************************)
EXTENDS Naturals

CONSTANTS Ota0, Ota1, Factory,   \* the partitions of partitions.csv
          Off,
          CrashBootLimit         \* CRASH_BOOT_LIMIT

ASSUME BootAssumption == /\ Ota0 # Ota1 /\ Factory \notin {Ota0, Ota1}
                         /\ Off \notin {Ota0, Ota1, Factory}
                         /\ CrashBootLimit \in Nat

Slots == {Ota0, Ota1}
Whole == {"early", "late", "good"}       \* when the image crashes, if it does
Stages == {"off", "count", "limit", "recover", "wifi", "mqtt", "valid",
           "loop", "reconnect", "ota", "portal"}

VARIABLES
  image,     \* in flash: what each slot holds, "broken" when half written
  boot,      \* otadata: the partition selected
  state,     \* otadata: what is known of each slot
  crashes,   \* NVS crash_count, up to the first value over the limit
  app,       \* the partition running, or Off
  stage,     \* where setup() or loop() is
  window,    \* the stability window of loop()
  target,    \* the slot an update is writing
  unstable   \* history: starts since the last stable one or recovery, so bounded

flash == <<image, boot, state>>
vars == <<flash, crashes, app, stage, window, target, unstable>>

TypeOK == /\ image \in [Slots -> Whole \cup {"broken"}]
          /\ boot \in Slots \cup {Factory}
          /\ state \in [Slots -> {"unknown", "new", "pending", "valid", "aborted"}]
          /\ crashes \in 0..CrashBootLimit + 1
          /\ app \in Slots \cup {Factory, Off}
          /\ stage \in Stages
          /\ stage \notin {"off", "ota"} => (stage = "portal" <=> app = Factory)
          /\ window \in {"shut", "open", "over", "confirmed"}
          /\ target \in Slots
          /\ unstable \in 0..CrashBootLimit + 1

\* After flash_initial.sh, whether or not the main image landed in its slot.
Init == /\ image \in [Slots -> {"broken"} \cup Whole] /\ image[Ota1] = "broken"
        /\ boot = Ota0
        /\ state = [s \in Slots |-> "unknown"]
        /\ crashes = 0 /\ unstable = 0
        /\ app = Off /\ stage = "off" /\ window = "shut"
        /\ target = Ota1

Bootable(p) == p # Factory => image[p] \in Whole

PowerOff == app' = Off /\ stage' = "off" /\ window' = "shut"

-----------------------------------------------------------------------------
(* The bootloader                                                            *)

Start(p) == /\ app' = p
            /\ stage' = IF p = Factory THEN "portal" ELSE "count"
            /\ UNCHANGED <<image, boot, crashes, window, target, unstable>>

OnProbation(p) == p \in Slots /\ state[p] = "pending"

StartSelected ==
  /\ stage = "off" /\ Bootable(boot) /\ ~OnProbation(boot)
  /\ IF boot \in Slots /\ state[boot] = "new"
     THEN \E known \in {"pending", "valid"} : state' = [state EXCEPT ![boot] = known]
     ELSE UNCHANGED state
  /\ Start(boot)

StartAnother == /\ stage = "off" /\ ~Bootable(boot)
                /\ \E p \in Slots \cup {Factory} : Bootable(p) /\ Start(p)
                /\ UNCHANGED state

\* The image on probation was reset before it was marked valid.
Rollback == /\ stage = "off" /\ OnProbation(boot)
            /\ state' = [state EXCEPT ![boot] = "aborted"]
            /\ \E p \in (Slots \ {boot}) \cup {Factory} :
                 Bootable(p) /\ (p # Factory => state[p] # "aborted") /\ boot' = p
            /\ UNCHANGED <<image, crashes, app, stage, window, target, unstable>>

Bootloader == StartSelected \/ StartAnother \/ Rollback

-----------------------------------------------------------------------------
(* setup() of the main firmware                                              *)

Counted(n) == IF n <= CrashBootLimit THEN n + 1 ELSE n

Count == /\ stage = "count"
         /\ crashes' = Counted(crashes) /\ unstable' = Counted(unstable)
         /\ stage' = "limit"
         /\ UNCHANGED <<flash, app, window, target>>

GoOn == /\ stage = "limit" /\ crashes <= CrashBootLimit
        /\ stage' = "wifi"
        /\ UNCHANGED <<flash, crashes, app, window, target, unstable>>

\* crashCounterReset comes before bootIntoRecovery.
GiveUp == /\ stage = "limit" /\ crashes > CrashBootLimit
          /\ crashes' = 0
          /\ stage' = "recover"
          /\ UNCHANGED <<flash, app, window, target, unstable>>

IntoRecovery == /\ stage = "recover"
                /\ boot' = Factory
                /\ state' \in {state, [s \in Slots |-> "unknown"]}
                /\ unstable' = 0
                /\ PowerOff
                /\ UNCHANGED <<image, crashes, target>>

\* Waits as long as it takes.
ConnectWiFi == /\ stage = "wifi"
               /\ stage' = "mqtt"
               /\ UNCHANGED <<flash, crashes, app, window, target, unstable>>

ConnectMQTT == /\ stage = "mqtt" /\ image[app] # "early"
               /\ stage' = "valid"
               /\ UNCHANGED <<flash, crashes, app, window, target, unstable>>

\* Faulty: connecting counts as a clean boot.
MarkClean == /\ stage = "valid"
             /\ state' = IF OnProbation(app) THEN [state EXCEPT ![app] = "valid"] ELSE state
             /\ crashes' = 0
             /\ stage' = "loop" /\ window' = "open"
             /\ UNCHANGED <<image, boot, app, target, unstable>>

\* esp_ota_mark_app_valid_cancel_rollback, and the rest of setup().
MarkValid == /\ stage = "valid"
             /\ state' = IF OnProbation(app) THEN [state EXCEPT ![app] = "valid"] ELSE state
             /\ stage' = "loop" /\ window' = "open"
             /\ UNCHANGED <<image, boot, crashes, app, target, unstable>>

Setup == GoOn \/ GiveUp \/ ConnectWiFi \/ ConnectMQTT \/ MarkValid

-----------------------------------------------------------------------------
(* loop() of the main firmware                                               *)

\* The window is measured from the first connection, whatever happens later.
Elapse == /\ window = "open"
          /\ window' = "over"
          /\ UNCHANGED <<flash, crashes, app, stage, target, unstable>>

\* Faulty: the counter is reset in memory only.
ConfirmVolatile == /\ stage = "loop" /\ window = "over" /\ image[app] = "good"
                   /\ window' = "confirmed" /\ unstable' = 0
                   /\ UNCHANGED <<flash, crashes, app, stage, target>>

Confirm == /\ stage = "loop" /\ window = "over" /\ image[app] = "good"
           /\ window' = "confirmed" /\ unstable' = 0
           /\ crashes' = 0
           /\ UNCHANGED <<flash, app, stage, target>>

ConnectionLost == /\ stage = "loop"
                  /\ stage' = "reconnect"
                  /\ UNCHANGED <<flash, crashes, app, window, target, unstable>>

Reconnect == /\ stage = "reconnect"
             /\ stage' = "loop"
             /\ UNCHANGED <<flash, crashes, app, window, target, unstable>>

\* The command {"reboot": true}.
Reboot == /\ stage = "loop"
          /\ PowerOff
          /\ UNCHANGED <<flash, crashes, target, unstable>>

-----------------------------------------------------------------------------
(* performOTA, of both firmwares                                             *)

NextSlots == Slots \ {app}

\* Faulty: the slot is selected before it is written.
BeginSelected == /\ stage \in {"loop", "portal"}
                 /\ target' \in NextSlots
                 /\ image' = [image EXCEPT ![target'] = "broken"]
                 /\ boot' = target'
                 /\ stage' = "ota"
                 /\ UNCHANGED <<state, crashes, app, window, unstable>>

\* The write begins: the old image of the slot is gone, what is known of it stays.
BeginOTA == /\ stage \in {"loop", "portal"}
            /\ target' \in NextSlots
            /\ image' = [image EXCEPT ![target'] = "broken"]
            /\ stage' = "ota"
            /\ UNCHANGED <<boot, state, crashes, app, window, unstable>>

FinishOTA == /\ stage = "ota"
             /\ \E i \in Whole : image' = [image EXCEPT ![target] = i]
             /\ boot' = target
             /\ state' = [state EXCEPT ![target] = "new"]
             /\ PowerOff
             /\ UNCHANGED <<crashes, target, unstable>>

\* Faulty: not back to where it was called from.
FailToLoop == /\ stage = "ota"
              /\ stage' = "loop"
              /\ UNCHANGED <<flash, crashes, app, window, target, unstable>>

FailOTA == /\ stage = "ota"
           /\ stage' = IF app = Factory THEN "portal" ELSE "loop"
           /\ UNCHANGED <<flash, crashes, app, window, target, unstable>>

-----------------------------------------------------------------------------
(* The portal of the recovery firmware                                       *)

\* handleBoot; it restarts whether or not the slot could be selected.
BootTarget == IF state[Ota0] = "valid" THEN Ota0
              ELSE IF state[Ota1] = "valid" THEN Ota1 ELSE Ota0

handleBoot == /\ stage = "portal"
              /\ IF Bootable(BootTarget)
                 THEN /\ boot' = BootTarget
                      /\ state' = [state EXCEPT ![BootTarget] = "new"]
                 ELSE UNCHANGED <<boot, state>>
              /\ PowerOff
              /\ UNCHANGED <<image, crashes, target, unstable>>

\* Save & Reboot; the credentials are left out.
handleSave == /\ stage = "portal"
              /\ PowerOff
              /\ UNCHANGED <<flash, crashes, target, unstable>>

-----------------------------------------------------------------------------

\* The image that runs crashes, as its kind has it.
Crash == /\ app \in Slots
         /\ \/ image[app] = "early" /\ stage \in {"wifi", "mqtt"}
            \/ image[app] = "late" /\ stage \in {"loop", "reconnect", "ota"}
         /\ PowerOff
         /\ UNCHANGED <<flash, crashes, target, unstable>>

\* Any reset or power cut.
Reset == /\ stage # "off"
         /\ PowerOff
         /\ UNCHANGED <<flash, crashes, target, unstable>>

Next == \/ Bootloader
        \/ Count \/ Setup \/ IntoRecovery
        \/ Elapse \/ Confirm \/ ConnectionLost \/ Reconnect \/ Reboot
        \/ BeginOTA \/ FinishOTA \/ FailOTA
        \/ handleBoot \/ handleSave
        \/ Crash \/ Reset

(***************************************************************************)
(* The board runs and a download ends; network and broker come back; a bad *)
(* image does crash.  Power cuts may come for ever, but not for ever at    *)
(* the same instruction: counting, giving up, switching to recovery and    *)
(* confirming an elapsed window get through in the end.                    *)
(***************************************************************************)
Fairness == /\ WF_vars(Bootloader) /\ WF_vars(Setup) /\ WF_vars(Reconnect)
            /\ WF_vars(FinishOTA \/ FailOTA)
            /\ WF_vars(Elapse) /\ WF_vars(Crash)
            /\ SF_vars(Count) /\ SF_vars(GiveUp) /\ SF_vars(IntoRecovery)
            /\ SF_vars(Confirm)

Spec == Init /\ [][Next]_vars /\ Fairness

-----------------------------------------------------------------------------
(* Properties *)

(***************************************************************************)
(* Once the selected partition boots, every partition selected later does: *)
(* no update, finished, failed or cut off anywhere, no rollback and no     *)
(* press of a button leaves a half-written image selected.                 *)
(***************************************************************************)
StaysBootable == [][Bootable(boot) => Bootable(boot)']_vars

(***************************************************************************)
(* The counter sends a board to recovery only after more than              *)
(* CRASH_BOOT_LIMIT starts in a row that did not become stable: what was   *)
(* counted before a stable start or an earlier recovery does not add up.   *)
(***************************************************************************)
RecoveryEarned == [][IntoRecovery => unstable > CrashBootLimit]_vars

(***************************************************************************)
(* "so a bricked main slot can be refilled without USB" (docs/firmware.md):*)
(* whatever images are installed and whenever they crash, the board comes  *)
(* to a confirmed image or to recovery, again and again.                   *)
(***************************************************************************)
NeverBricked == []<>(stage = "portal" \/ window = "confirmed")

=============================================================================
