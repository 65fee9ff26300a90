---------------------------- MODULE AudioCapture ----------------------------
(***************************************************************************)
(* The capture task of firmware/audio.cpp: its I2S channel, the watchdog   *)
(* and the settings that steer it.                                         *)
(*                                                                         *)
(* Tasks.  captureTask has a priority above loop(), on the same core, so   *)
(* it may run between any two steps of Settings::apply, which the handlers *)
(* of MQTT commands and HTTP requests call from loop().  Neither takes a   *)
(* lock.  The settings are copied in one step.  A rejected patch changes   *)
(* nothing; gain, port and rate of publishing do not concern the channel.  *)
(*                                                                         *)
(* Time.  Only millis() - s_graceUntil is ever used: it is the variable    *)
(* clock, modulo Wrap (2^32 in the code) and read as signed.               *)
(*                                                                         *)
(* The definitions commented "faulty" are not part of the specification:   *)
(* each is a variant of the definition after it that one property below    *)
(* must reject.                                                            *)
(***************************************************************************)
EXTENDS Naturals

CONSTANTS Slots,          \* the two slots of the bus
          Off,            \* s_rx == nullptr
          LockupChunks,   \* LOCKUP_CHUNKS
          MaxReinits,     \* MAX_REINITS
          Grace,          \* STARTUP_GRACE_MS, in ticks
          Wrap            \* 2^32, where millis() wraps

ASSUME CaptureAssumption == /\ Off \notin Slots
                            /\ LockupChunks \in Nat \ {0}
                            /\ MaxReinits \in Nat
                            /\ Wrap \in Nat \ {0}
                            /\ Grace \in 1..Wrap \div 2

Setting == [awake : BOOLEAN, slot : Slots]

VARIABLES
  settings,      \* s_settings
  saved,         \* the same in NVS
  applyPc,       \* Settings::apply in loop(): what it does next
  new,           \* its copy n
  restart,       \* s_restart
  rx,            \* s_rx: the slot the running channel was opened for, or Off
  clock,         \* millis() - s_graceUntil
  lockups, reinits,
  pc,            \* captureTask
  quiet,         \* history: reads without sound since the last sound or start
  row            \* history: watchdog reinits since the last sound or slot change

settingsVars == <<settings, saved, applyPc, new, restart>>
vars == <<settingsVars, rx, clock, lockups, reinits, pc, quiet, row>>

InGrace == clock >= Wrap \div 2          \* (int32_t)(...) < 0

TypeOK == /\ settings \in Setting /\ saved \in Setting /\ new \in Setting
          /\ applyPc \in {"idle", "assign", "save"}
          /\ restart \in BOOLEAN
          /\ rx \in Slots \cup {Off}
          /\ clock \in 0..Wrap - 1
          /\ lockups \in 0..LockupChunks - 1
          /\ reinits \in 0..MaxReinits
          /\ pc \in {"top", "open", "read", "reinit"}
          /\ quiet \in 0..LockupChunks
          /\ row \in 0..MaxReinits + 1

\* load() and begin(): everything but NVS is as after power-on.
Boot(stored) == /\ settings = stored /\ saved = stored /\ new = stored
                /\ applyPc = "idle"
                /\ restart = FALSE
                /\ rx = Off
                /\ clock = 0 /\ lockups = 0 /\ reinits = 0
                /\ pc = "top"
                /\ quiet = 0 /\ row = 0

Init == \E stored \in Setting : Boot(stored)

-----------------------------------------------------------------------------
(* Settings::apply, from the commands gain, sleep, wake and set and from     *)
(* POST /api/audio                                                           *)

captureVars == <<rx, clock, lockups, reinits, pc, quiet, row>>

Apply(n) == /\ applyPc = "idle"
            /\ new' = n
            /\ restart' = (restart \/ n.slot # settings.slot)
            /\ applyPc' = "assign"
            /\ UNCHANGED <<settings, saved, captureVars>>

Assign == /\ applyPc = "assign"
          /\ settings' = new
          /\ applyPc' = "save"
          /\ UNCHANGED <<saved, new, restart, captureVars>>

Save == /\ applyPc = "save"
        /\ saved' = settings
        /\ applyPc' = "idle"
        /\ UNCHANGED <<settings, new, restart, captureVars>>

-----------------------------------------------------------------------------
(* captureTask *)

\* Faulty: the channel is left running.
SleepRunning == /\ pc = "top"
                /\ ~settings.awake
                /\ UNCHANGED vars

Sleep == /\ pc = "top"
         /\ ~settings.awake
         /\ rx' = Off
         /\ UNCHANGED <<settingsVars, clock, lockups, reinits, pc, quiet, row>>

Restart == /\ pc = "top"
           /\ settings.awake /\ restart
           /\ restart' = FALSE
           /\ reinits' = 0 /\ row' = 0
           /\ rx' = Off
           /\ pc' = "open"
           /\ UNCHANGED <<settings, saved, applyPc, new, clock, lockups, quiet>>

GoOn == /\ pc = "top"
        /\ settings.awake /\ ~restart
        /\ pc' = IF rx = Off THEN "open" ELSE "read"
        /\ UNCHANGED <<settingsVars, rx, clock, lockups, reinits, quiet, row>>

\* i2sStart succeeds, with the slot the settings hold at that moment.
Started == /\ rx' = settings.slot
           /\ clock' = Wrap - Grace
           /\ lockups' = 0
           /\ quiet' = 0

Open == /\ pc = "open"
        /\ Started
        /\ pc' = "read"
        /\ UNCHANGED <<settingsVars, reinits, row>>

OpenFails == /\ pc = "open"
             /\ pc' = "top"
             /\ UNCHANGED <<settingsVars, rx, clock, lockups, reinits, quiet, row>>

\* Faulty: a sound does not end the count.
SoundCountedOn == /\ pc = "read"
                  /\ quiet' = 0 /\ reinits' = 0 /\ row' = 0
                  /\ pc' = "top"
                  /\ UNCHANGED <<settingsVars, rx, clock, lockups>>

\* A chunk above LOCKUP_RMS.
Sound == /\ pc = "read"
         /\ lockups' = 0 /\ reinits' = 0
         /\ quiet' = 0 /\ row' = 0
         /\ pc' = "top"
         /\ UNCHANGED <<settingsVars, rx, clock>>

Quieter == quiet' = IF quiet < LockupChunks THEN quiet + 1 ELSE quiet

\* A silent chunk or a failed read: noteLockup returns early ...
Silence == /\ pc = "read"
           /\ InGrace \/ lockups + 1 < LockupChunks
           /\ lockups' = IF InGrace THEN lockups ELSE lockups + 1
           /\ Quieter
           /\ pc' = "top"
           /\ UNCHANGED <<settingsVars, rx, clock, reinits, row>>

Lockup == ~InGrace /\ lockups + 1 >= LockupChunks

\* Faulty: the count is not reset.
GiveUpCounting == /\ pc = "read"
                  /\ Lockup /\ reinits >= MaxReinits
                  /\ lockups' = lockups + 1
                  /\ Quieter
                  /\ pc' = "top"
                  /\ UNCHANGED <<settingsVars, rx, clock, reinits, row>>

\* ... or gives up after MAX_REINITS ...
GiveUp == /\ pc = "read"
          /\ Lockup /\ reinits >= MaxReinits
          /\ lockups' = 0
          /\ Quieter
          /\ pc' = "top"
          /\ UNCHANGED <<settingsVars, rx, clock, reinits, row>>

\* ... or stops the channel and starts it again after a delay.
Stop == /\ pc = "read"
        /\ Lockup /\ reinits < MaxReinits
        /\ lockups' = 0
        /\ reinits' = reinits + 1
        /\ row' = IF row <= MaxReinits THEN row + 1 ELSE row
        /\ rx' = Off
        /\ Quieter
        /\ pc' = "reinit"
        /\ UNCHANGED <<settingsVars, clock>>

\* Faulty: a successful start counts as a success.
ReinitForgiven == /\ pc = "reinit"
                  /\ Started
                  /\ reinits' = 0
                  /\ pc' = "top"
                  /\ UNCHANGED <<settingsVars, row>>

Reinit == /\ pc = "reinit"
          /\ Started
          /\ pc' = "top"
          /\ UNCHANGED <<settingsVars, reinits, row>>

ReinitFails == /\ pc = "reinit"
               /\ pc' = "top"
               /\ UNCHANGED <<settingsVars, rx, clock, lockups, reinits, quiet, row>>

Capture == \/ Sleep \/ Restart \/ GoOn \/ Open \/ OpenFails \/ Sound \/ Silence
           \/ GiveUp \/ Stop \/ Reinit \/ ReinitFails

-----------------------------------------------------------------------------

Tick == /\ clock' = (clock + 1) % Wrap
        /\ UNCHANGED <<settingsVars, rx, lockups, reinits, pc, quiet, row>>

\* A reset or power cut at any moment.
Reboot == /\ settings' = saved /\ new' = saved /\ applyPc' = "idle"
          /\ restart' = FALSE
          /\ rx' = Off
          /\ clock' = 0 /\ lockups' = 0 /\ reinits' = 0
          /\ pc' = "top"
          /\ quiet' = 0 /\ row' = 0
          /\ UNCHANGED saved

Next == \/ \E n \in Setting : Apply(n)
        \/ Assign \/ Save
        \/ Capture
        \/ Tick \/ Reboot

\* The task runs, apply returns, and opening the channel does not fail for ever.
Fairness == /\ WF_vars(Capture)
            /\ WF_vars(Assign \/ Save)
            /\ SF_vars(Open)

Spec == Init /\ [][Next]_vars /\ Fairness

-----------------------------------------------------------------------------
(* Properties *)

(***************************************************************************)
(* "A watchdog reinitialises the bus after ~3.5 s of digital silence"      *)
(* (docs/SDD.md) and never earlier: whatever sleeps, restarts and failed   *)
(* starts lie between, the reads since the last sound or start were silent *)
(* LOCKUP_CHUNKS times in a row.                                           *)
(***************************************************************************)
ReinitAfterSilence == [][Stop => quiet + 1 >= LockupChunks]_vars

(***************************************************************************)
(* "Up to three times": without a sound or a change of slot in between,    *)
(* sleeping and waking included, the watchdog acts MAX_REINITS times.      *)
(***************************************************************************)
ReinitsInRow == row <= MaxReinits

(***************************************************************************)
(* "false = soft sleep: I2S off" (docs/firmware.md): a node told to sleep  *)
(* stops its channel for good, also when the watchdog was at work; and an  *)
(* awake one captures again and again, whatever the watchdog, failed       *)
(* starts and changes of slot do.                                          *)
(***************************************************************************)
FollowsAwake == /\ <>[](~settings.awake) => <>[](rx = Off)
                /\ <>[](settings.awake) => []<>(rx # Off)

=============================================================================
