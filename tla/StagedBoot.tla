----------------------------- MODULE StagedBoot -----------------------------
(***************************************************************************)
(* What a first-stage boot promises, whatever disks and stacks it copes    *)
(* with: it finds a root, it mounts that root or the protected device made *)
(* from it, it hands over to an init while that is mounted, and it never   *)
(* goes back.  A failure to find, protect, mount or enter the root ends    *)
(* with the operator.  A check of the file system that wants a reboot gets *)
(* it before anything is mounted; one that finds other errors stops        *)
(* nothing.                                                                *)
(***************************************************************************)
CONSTANTS None, Device,
          Verified,    \* the device dm-verity stands behind
          Opened       \* devices that are opened on top of another one

VARIABLES stage,       \* "search", "chosen", "mounted", "running", "shell", "reboot" or "off"
          strict,      \* only a verified device may be mounted
          root         \* the device chosen, then the one mounted, until the boot gives up

svars == <<stage, strict, root>>

Init == stage = "search" /\ strict \in BOOLEAN /\ root = None

Choose == stage = "search" /\ stage' = "chosen" /\ root' \in Device /\ UNCHANGED strict

\* Verity may already stand between the device chosen and what will be mounted.
Protect == stage = "chosen" /\ strict /\ root' = Verified /\ UNCHANGED <<stage, strict>>

Mount ==
  /\ stage = "chosen" /\ stage' = "mounted"
  /\ strict => root = Verified
  /\ root' \in {root} \cup Opened
  /\ root' # None
  /\ UNCHANGED strict

HandOver == stage = "mounted" /\ stage' = "running" /\ UNCHANGED <<strict, root>>
RepairFirst == stage = "chosen" /\ stage' = "reboot" /\ root' = None /\ UNCHANGED strict
GiveUp == stage \in {"search", "chosen", "mounted"} /\ stage' = "shell" /\ root' = None /\ UNCHANGED strict
Leave == stage = "shell" /\ stage' \in {"reboot", "off"} /\ UNCHANGED <<strict, root>>

Next == Choose \/ Protect \/ Mount \/ HandOver \/ RepairFirst \/ GiveUp \/ Leave

Spec == Init /\ [][Next]_svars
=============================================================================
