----------------------------- MODULE SmmuGuard -----------------------------
(***************************************************************************)
(* kernel/smmu_guard/smmu_guard.c: a synthetic device, an IOMMU domain     *)
(* with a fault handler, the log of blocked transactions, and the          *)
(* smmu_active flag that safety_mem shows.  Registering, allocating and    *)
(* attaching may each fail, and the module then goes on without.  The log  *)
(* is the ring of LogRing: CPUs in the fault handler append to it and      *)
(* processes copy it out while the module is loaded and unloaded.          *)
(***************************************************************************)
EXTENDS LogRing

VARIABLES
  stage,    \* the next step of smmu_guard_init() or smmu_guard_exit()
  pdev,     \* dummy_pdev # NULL
  domain,   \* guard_domain # NULL (with its fault handler)
  attached, \* the IOMMU translates the device through guard_domain
  procFile, \* /proc/smmu_guard_log exists
  active    \* g_smmu_active in safety_mem

devVars == <<stage, pdev, domain, attached, procFile, active>>
sgVars == <<vars, devVars>>

Logging == {"logSpin", "fill", "advance", "logUnlock"}
Showing == {"showSpin", "copy", "print"}

SGInit ==
  /\ Init
  /\ stage = "unloaded"
  /\ pdev = FALSE /\ domain = FALSE /\ attached = FALSE
  /\ procFile = FALSE /\ active = FALSE

-----------------------------------------------------------------------------
(* smmu_guard_init().                                                      *)

(* platform_device_register_simple(): a failure is only reported.          *)
RegisterDevice ==
  /\ stage = "unloaded"
  /\ stage' = "domain"
  /\ pdev' \in BOOLEAN
  /\ UNCHANGED <<domain, attached, procFile, active, vars>>

(* iommu_domain_alloc() and iommu_set_fault_handler().                     *)
AllocDomain ==
  /\ stage = "domain"
  /\ domain' \in BOOLEAN
  /\ stage' = IF domain' /\ pdev THEN "attach" ELSE "proc"
  /\ UNCHANGED <<pdev, attached, procFile, active, vars>>

(* iommu_attach_device(): a failure is only reported.                      *)
Attach ==
  /\ stage = "attach"
  /\ attached' \in BOOLEAN
  /\ stage' = "proc"
  /\ UNCHANGED <<pdev, domain, procFile, active, vars>>

CreateProc ==
  /\ stage = "proc"
  /\ procFile' = TRUE
  /\ stage' = "publish"
  /\ UNCHANGED <<pdev, domain, attached, active, vars>>

(* proc_create() fails: undo what was done and fail the insmod.            *)
CreateProcFails ==
  /\ stage = "proc"
  /\ stage' = "detach"
  /\ UNCHANGED <<pdev, domain, attached, procFile, active, vars>>

(* safety_mem_set_smmu_active(true), whatever failed before.               *)
Publish ==
  /\ stage = "publish"
  /\ active' = TRUE
  /\ stage' = "live"
  /\ UNCHANGED <<pdev, domain, attached, procFile, vars>>

-----------------------------------------------------------------------------
(* smmu_guard_exit(), whose second half the failing init shares.           *)

Withdraw ==
  /\ stage = "live"
  /\ active' = FALSE
  /\ stage' = "removeProc"
  /\ UNCHANGED <<pdev, domain, attached, procFile, vars>>

(* remove_proc_entry() waits for the readers of the file.                  *)
RemoveProc ==
  /\ stage = "removeProc"
  /\ \A c \in Contexts : pc[c] \notin Showing
  /\ procFile' = FALSE
  /\ stage' = "detach"
  /\ UNCHANGED <<pdev, domain, attached, active, vars>>

(* A slip for mutation: the domain is freed under an attached device.      *)
DetachForgotten ==
  /\ stage = "detach"
  /\ stage' = "free"
  /\ UNCHANGED <<pdev, domain, attached, procFile, active, vars>>

(* iommu_detach_device() is called for a device that exists, whether or    *)
(* not attaching it worked; the IOMMU core ignores the latter.  The code   *)
(* frees the domain right after it, so it counts on detaching to wait for  *)
(* fault handlers that are running.                                        *)
Detach ==
  /\ stage = "detach"
  /\ \A c \in Contexts : pc[c] \notin Logging
  /\ attached' = (attached /\ ~(domain /\ pdev))
  /\ stage' = "free"
  /\ UNCHANGED <<pdev, domain, procFile, active, vars>>

(* iommu_domain_free().                                                    *)
FreeDomain ==
  /\ stage = "free"
  /\ domain' = FALSE
  /\ stage' = "unregister"
  /\ UNCHANGED <<pdev, attached, procFile, active, vars>>

(* platform_device_unregister(); the module's memory, and its log, go.     *)
UnregisterDevice ==
  /\ stage = "unregister"
  /\ pdev' = FALSE
  /\ stage' = "unloaded"
  /\ ring' = [i \in Slots |-> Blank] /\ head' = 0 /\ count' = 0
  /\ UNCHANGED <<domain, attached, procFile, active, lock, pc, entry, snapshot, total, seen>>

-----------------------------------------------------------------------------

(* The domain maps nothing, so every access of an attached device is       *)
(* blocked and ends in smmu_iommu_fault_handler(), which logs it.          *)
BlockedDma(c, t) == attached /\ LogBegin(c, t) /\ UNCHANGED devVars

(* A process reads /proc/smmu_guard_log.                                   *)
OpenLog(c) == procFile /\ ShowBegin(c) /\ UNCHANGED devVars

LogStep(c) == Step(c) /\ UNCHANGED devVars

SGNext ==
  \/ RegisterDevice \/ AllocDomain \/ Attach \/ CreateProc \/ CreateProcFails
  \/ Publish \/ Withdraw \/ RemoveProc \/ Detach \/ FreeDomain \/ UnregisterDevice
  \/ \E c \in Contexts :
       (\E t \in Entries : BlockedDma(c, t)) \/ OpenLog(c) \/ LogStep(c)

SGSpec == SGInit /\ [][SGNext]_sgVars

-----------------------------------------------------------------------------
(* Properties.                                                             *)

(* No device is ever translated through a domain that was freed, or stays  *)
(* attached after it was unregistered: the fault handler always has its    *)
(* domain, whatever step of the init failed.                               *)
AttachedHasDomain ==
  attached \/ (\E c \in Contexts : pc[c] \in Logging) => domain /\ pdev

(* After an rmmod, and after an insmod that failed at any step, nothing is *)
(* left behind: device, domain, attachment, proc file and flag are gone,   *)
(* and no reader is still in the log of the module.                        *)
NothingLeft ==
  stage = "unloaded" =>
    /\ ~pdev /\ ~domain /\ ~attached /\ ~procFile /\ ~active
    /\ lock = {} /\ \A c \in Contexts : pc[c] = "idle"

(* The init and the exit of the module take things down in an order that   *)
(* is safe for what still runs, and completely.                            *)
TeardownSound == AttachedHasDomain /\ NothingLeft

(* The ring with its head and count implements a log of the last Capacity  *)
(* entries, which only the unloading of the module empties.                *)
ImplementsBoundedLog ==
  Abstract!Init /\ [][Abstract!Next \/ UnregisterDevice]_Log

=============================================================================
