----------------------------- MODULE BadDriver -----------------------------
(***************************************************************************)
(* kernel/bad_driver/bad_driver.c composed with SafetyMem: processes write *)
(* attack commands to /proc/bad_driver_ts while others change the page's   *)
(* protection.  Nothing serializes two commands, so every access to the    *)
(* module's globals is a step of its own.                                  *)
(***************************************************************************)
EXTENDS SafetyMem

CONSTANTS
  Attackers,   \* processes that write commands to /proc/bad_driver_ts
  BadValue,    \* BadValue[m]: what attack mode m stores
  CounterMod,  \* g_attack_count wraps at CounterMod (2^32 in the code)
  MaxAttacks   \* bound: commands issued in one behaviour

Modes == {1, 2, 3}  \* BAD_DRIVER_ATTACK_VMALLOC, _MUTEX_BYPASS, _LINEAR_ALIAS

ASSUME BadDriverAssumption ==
  /\ BadValue \in [Modes -> ForeignValues]
  /\ CounterMod \in Nat \ {0}
  /\ MaxAttacks \in Nat

VARIABLES
  bdLoaded,  \* bad_driver.ko is live (and pins safety_mem.ko)
  last,      \* g_last_target_addr, g_last_attack_mode, g_last_result
  count,     \* g_attack_count
  apc,       \* where each attacker is in execute_attack_mode_N()
  mode,      \* the mode it runs
  loadedCnt, \* g_attack_count as read by its ++
  wasLocked, \* local was_locked of mode 2
  ret,       \* local ret of copy_to_kernel_nofault(), TRUE for 0
  begun,     \* history: commands issued
  alone,     \* history: no two attacks have overlapped so far
  steady,    \* history: protected and mutex free since the attack began
  met        \* history: safety_mutex was owned during the attack

attackVars == <<last, count, apc, mode, loadedCnt, wasLocked, ret>>
history == <<begun, alone, steady, met>>
bdVars == <<vars, bdLoaded, attackVars, history>>

Results == {"NONE", "BLOCKED_EFAULT", "SUCCESS_UNPROTECTED",
            "MUTEX_BYPASS_RACE", "SUCCESS_BYPASS"}

(* A slip for mutation: mode 1 always writes through the direct alias.     *)
TargetDirect(m) == "direct"

(* The alias an attack writes through: mode 1 falls back to the direct     *)
(* alias when there is no vmap alias; phys_to_virt() is the direct map.    *)
Target(m) == IF m = 1 /\ vmapped THEN "vmalloc" ELSE "direct"

BDInit ==
  /\ Init
  /\ bdLoaded = FALSE
  /\ last = [target |-> "none", mode |-> 0, result |-> "NONE"]
  /\ count = 0
  /\ apc = [w \in Attackers |-> "idle"]
  /\ mode = [w \in Attackers |-> 1]
  /\ loadedCnt = [w \in Attackers |-> 0]
  /\ wasLocked = [w \in Attackers |-> FALSE]
  /\ ret = [w \in Attackers |-> TRUE]
  /\ begun = 0 /\ alone = TRUE
  /\ steady = [w \in Attackers |-> FALSE]
  /\ met = [w \in Attackers |-> FALSE]

(* bad_driver_init(): module data starts afresh.                           *)
BadDriverInit ==
  /\ loaded /\ ~bdLoaded
  /\ bdLoaded' = TRUE
  /\ last' = [target |-> "none", mode |-> 0, result |-> "NONE"]
  /\ count' = 0
  /\ begun' = 0 /\ alone' = TRUE
  /\ UNCHANGED <<vars, apc, mode, loadedCnt, wasLocked, ret, steady, met>>

(* bad_driver_exit(): remove_proc_entry() waits for running commands.      *)
BadDriverExit ==
  /\ bdLoaded
  /\ \A w \in Attackers : apc[w] = "idle"
  /\ bdLoaded' = FALSE
  /\ UNCHANGED <<vars, attackVars, history>>

(* bad_driver_proc_write() accepts the command and calls the mode.         *)
Command(w, m) ==
  /\ bdLoaded
  /\ apc[w] = "idle"
  /\ begun < MaxAttacks
  /\ apc' = [apc EXCEPT ![w] = "target"]
  /\ mode' = [mode EXCEPT ![w] = m]
  /\ begun' = begun + 1
  /\ alone' = (alone /\ \A x \in Attackers : apc[x] = "idle")
  /\ steady' = [steady EXCEPT ![w] = ctxProtected /\ holder = NoOwner]
  /\ met' = [met EXCEPT ![w] = holder # NoOwner]
  /\ UNCHANGED <<vars, bdLoaded, last, count, loadedCnt, wasLocked, ret>>

SetTarget(w) ==
  /\ apc[w] = "target"
  /\ last' = [last EXCEPT !.target = Target(mode[w])]
  /\ apc' = [apc EXCEPT ![w] = "mode"]
  /\ UNCHANGED <<vars, bdLoaded, count, mode, loadedCnt, wasLocked, ret, history>>

(* A slip for mutation: the mode is not recorded.                          *)
SetModeForgotten(w) ==
  /\ apc[w] = "mode"
  /\ apc' = [apc EXCEPT ![w] = "load"]
  /\ UNCHANGED <<vars, bdLoaded, last, count, mode, loadedCnt, wasLocked, ret, history>>

SetMode(w) ==
  /\ apc[w] = "mode"
  /\ last' = [last EXCEPT !.mode = mode[w]]
  /\ apc' = [apc EXCEPT ![w] = "load"]
  /\ UNCHANGED <<vars, bdLoaded, count, mode, loadedCnt, wasLocked, ret, history>>

(* g_attack_count++ is a load and a store.                                 *)
LoadCount(w) ==
  /\ apc[w] = "load"
  /\ loadedCnt' = [loadedCnt EXCEPT ![w] = count]
  /\ apc' = [apc EXCEPT ![w] = "count"]
  /\ UNCHANGED <<vars, bdLoaded, last, count, mode, wasLocked, ret, history>>

StoreCount(w) ==
  /\ apc[w] = "count"
  /\ count' = (loadedCnt[w] + 1) % CounterMod
  /\ apc' = [apc EXCEPT ![w] = IF mode[w] = 2 THEN "sample" ELSE "attack"]
  /\ UNCHANGED <<vars, bdLoaded, last, mode, loadedCnt, wasLocked, ret, history>>

(* was_locked = mutex_is_locked(), before the write it is reported with.   *)
SampleLock(w) ==
  /\ apc[w] = "sample"
  /\ wasLocked' = [wasLocked EXCEPT ![w] = holder # NoOwner]
  /\ apc' = [apc EXCEPT ![w] = "attack"]
  /\ UNCHANGED <<vars, bdLoaded, last, count, mode, loadedCnt, ret, history>>

(* copy_to_kernel_nofault(): lands, or fails with -EFAULT.                 *)
Attack(w) ==
  /\ apc[w] = "attack"
  /\ LET a == Target(mode[w]) IN
     \/ /\ ForeignStore(a, BadValue[mode[w]])
        /\ ret' = [ret EXCEPT ![w] = TRUE]
     \/ /\ ~IsWritable(a)
        /\ ret' = [ret EXCEPT ![w] = FALSE]
        /\ UNCHANGED vars
  /\ apc' = [apc EXCEPT ![w] = "result"]
  /\ UNCHANGED <<bdLoaded, last, count, mode, loadedCnt, wasLocked, history>>

(* A slip for mutation: a race is reported without looking at the sample.  *)
ResultUnsampled(w) ==
  CASE ~ret[w] -> "BLOCKED_EFAULT"
    [] ret[w] /\ mode[w] = 3 -> "SUCCESS_BYPASS"
    [] ret[w] /\ mode[w] = 2 -> "MUTEX_BYPASS_RACE"
    [] OTHER -> "SUCCESS_UNPROTECTED"

ResultOf(w) ==
  CASE ~ret[w] -> "BLOCKED_EFAULT"
    [] ret[w] /\ mode[w] = 3 -> "SUCCESS_BYPASS"
    [] ret[w] /\ mode[w] = 2 /\ wasLocked[w] -> "MUTEX_BYPASS_RACE"
    [] OTHER -> "SUCCESS_UNPROTECTED"

SetResult(w) ==
  /\ apc[w] = "result"
  /\ last' = [last EXCEPT !.result = ResultOf(w)]
  /\ apc' = [apc EXCEPT ![w] = "idle"]
  /\ wasLocked' = [wasLocked EXCEPT ![w] = FALSE]
  /\ loadedCnt' = [loadedCnt EXCEPT ![w] = 0]
  /\ ret' = [ret EXCEPT ![w] = TRUE]
  /\ mode' = [mode EXCEPT ![w] = 1]
  /\ steady' = [steady EXCEPT ![w] = FALSE]
  /\ met' = [met EXCEPT ![w] = FALSE]
  /\ UNCHANGED <<vars, bdLoaded, count, begun, alone>>

(* Steps of safety_mem itself, with the history of the running attacks.    *)
(* A loaded bad_driver pins safety_mem, so it cannot be unloaded.          *)
PageStep ==
  /\ \/ SafetyMemInit
     \/ ~bdLoaded /\ SafetyMemExit
     \/ \E c \in Callers : Begin(c) \/ Lock(c) \/ CallStep(c)
  /\ steady' = [w \in Attackers |->
                  steady[w] /\ ctxProtected' /\ holder' = NoOwner]
  /\ met' = [w \in Attackers |-> met[w] \/ (apc[w] # "idle" /\ holder' # NoOwner)]
  /\ UNCHANGED <<bdLoaded, attackVars, begun, alone>>

AttackStep(w) ==
  \/ SetTarget(w) \/ SetMode(w) \/ LoadCount(w) \/ StoreCount(w)
  \/ SampleLock(w) \/ Attack(w) \/ SetResult(w)

BDNext ==
  \/ PageStep
  \/ BadDriverInit \/ BadDriverExit
  \/ \E w \in Attackers : (\E m \in Modes : Command(w, m)) \/ AttackStep(w)

BDSpec == BDInit /\ [][BDNext]_bdVars

-----------------------------------------------------------------------------
(* Properties.                                                             *)

BDTypeOK ==
  /\ bdLoaded \in BOOLEAN
  /\ last \in [target : Aliases \cup {"none"}, mode : Modes \cup {0}, result : Results]
  /\ count \in 0 .. CounterMod - 1
  /\ loadedCnt \in [Attackers -> 0 .. CounterMod - 1]

(* What Scenario F relies on: an attack through the vmap alias that runs   *)
(* while is_protected() reports TRUE and no authorized call owns the mutex *)
(* is refused with -EFAULT.                                                *)
SteadyProtectionBlocks ==
  \A w \in Attackers :
    apc[w] = "result" /\ mode[w] = 1 /\ steady[w] => ~ret[w]

(* MUTEX_BYPASS_RACE is reported only for an attack during which the mutex *)
(* really was owned (the sample may be stale when the store happens, but   *)
(* it is never older than the attack).                                     *)
RaceReportSound ==
  \A w \in Attackers :
    apc[w] = "result" /\ ResultOf(w) = "MUTEX_BYPASS_RACE" => met[w]

(* /proc/bad_driver_ts describes one attack, and counts all of them, as    *)
(* long as commands do not overlap: the target, the mode and the result    *)
(* belong together, and nothing is lost from the counter.                  *)
ReportDescribesOneAttack ==
  alone /\ begun > 0 /\ bdLoaded /\ (\A w \in Attackers : apc[w] = "idle") =>
    /\ count = begun % CounterMod
    /\ last.target = Target(last.mode)
    /\ last.result = "SUCCESS_BYPASS" => last.mode = 3
    /\ last.result = "MUTEX_BYPASS_RACE" => last.mode = 2
    /\ last.result = "SUCCESS_UNPROTECTED" => last.mode \in {1, 2}

=============================================================================
