------------------------------ MODULE CacheDir ------------------------------
(***************************************************************************)
(* The two windows in which the library clears the umask of its process.   *)
(* stns_force_create_cache_dir, which every stns_load_config of root runs, *)
(* makes the cache directory or sets its mode; stns_export_file, which a   *)
(* request may end with, makes the user's own directory below it.  The     *)
(* umask belongs to the process and is shared by its threads; the cache    *)
(* directory is shared by all processes.                                   *)
(***************************************************************************)
EXTENDS Naturals

CONSTANTS
  Threads, Procs,
  Proc,      \* the process of each thread
  Roots,     \* the processes of root
  MaxLoads   \* bound: lookups per thread, each with one load

\* What the constants must satisfy.
CacheDirAssumption ==
  Proc \in [Threads -> Procs] /\ Roots \subseteq Procs /\ MaxLoads \in Nat

VARIABLES
  umask,  \* of each process
  um,     \* the thread's saved umask
  dir,    \* the directory: does it exist, sticky bit, open for everyone
  pc, loads,
  overlapped, \* history: processes two of whose windows overlapped
  failed,     \* history: a mkdir or an open failed
  repaired    \* history: the directory was missing or not sticky when asked

vars == <<umask, um, dir, pc, loads, overlapped, failed, repaired>>

Absent == [exists |-> FALSE, sticky |-> FALSE, open |-> FALSE]

Init ==
  /\ umask = [p \in Procs |-> "initial"] /\ um = [t \in Threads |-> "initial"]
  /\ \/ dir = Absent
     \/ dir \in [exists : {TRUE}, sticky : BOOLEAN, open : BOOLEAN]
  /\ pc = [t \in Threads |-> "idle"] /\ loads = [t \in Threads |-> 0]
  /\ overlapped = {} /\ failed = FALSE /\ repaired = FALSE

Go(t, l) == pc' = [pc EXCEPT ![t] = l]
Window == {"stat", "mkdir", "chmod", "restore", "export"}
Busy(p) == \E t \in Threads : Proc[t] = p /\ pc[t] \in Window

\* um = umask(0)
ClearUmask(t) ==
  /\ um' = [um EXCEPT ![t] = umask[Proc[t]]] /\ umask' = [umask EXCEPT ![Proc[t]] = "zero"]
  /\ overlapped' = IF Busy(Proc[t]) THEN overlapped \cup {Proc[t]} ELSE overlapped
  /\ UNCHANGED <<dir, failed, repaired>>

\* stns_load_config, with the cache on: only root looks after the directory.
Load(t) ==
  /\ pc[t] = "idle" /\ loads[t] < MaxLoads /\ loads' = [loads EXCEPT ![t] = @ + 1]
  /\ IF Proc[t] \in Roots
     THEN Go(t, "stat") /\ ClearUmask(t)
     ELSE Go(t, "loaded") /\ UNCHANGED <<umask, um, dir, overlapped, failed, repaired>>

Stat(t) ==
  /\ pc[t] = "stat"
  /\ Go(t, IF ~dir.exists THEN "mkdir" ELSE IF ~dir.sticky THEN "chmod" ELSE "restore")
  /\ repaired' = (repaired \/ ~dir.sticky)
  /\ UNCHANGED <<umask, um, dir, loads, overlapped, failed>>

\* The mode of a new directory is subject to the umask.
Mkdir(t) ==
  /\ pc[t] = "mkdir" /\ Go(t, "restore")
  /\ \/ ~dir.exists /\ UNCHANGED failed
        /\ dir' = [exists |-> TRUE, sticky |-> TRUE, open |-> umask[Proc[t]] = "zero"]
     \/ dir.exists /\ UNCHANGED <<dir, failed>>
     \/ ~dir.exists /\ failed' = TRUE /\ UNCHANGED dir
  /\ UNCHANGED <<umask, um, loads, overlapped, repaired>>

\* open and fchmod, which is not.
Chmod(t) ==
  /\ pc[t] = "chmod" /\ Go(t, "restore")
  /\ \/ dir' = [dir EXCEPT !.sticky = TRUE, !.open = TRUE] /\ UNCHANGED failed
     \/ failed' = TRUE /\ UNCHANGED dir
  /\ UNCHANGED <<umask, um, loads, overlapped, repaired>>

RestoreUmask(t) ==
  /\ pc[t] = "restore" /\ Go(t, "loaded")
  /\ umask' = [umask EXCEPT ![Proc[t]] = um[t]]
  /\ UNCHANGED <<um, dir, loads, overlapped, failed, repaired>>

\* The request exports nothing, or the user's own directory is there.
NoMkdir(t) ==
  /\ pc[t] = "loaded" /\ Go(t, "idle")
  /\ UNCHANGED <<umask, um, dir, loads, overlapped, failed, repaired>>

\* stns_export_file, in a request, whose stat of that directory failed.
ExportClear(t) == pc[t] = "loaded" /\ Go(t, "export") /\ ClearUmask(t) /\ UNCHANGED loads

\* Mutant: an early return behind the mkdir.
ExportRestore_Returns(t) ==
  /\ pc[t] = "export" /\ Go(t, "idle")
  /\ UNCHANGED <<umask, um, dir, loads, overlapped, failed, repaired>>

\* Its mkdir, with a mode no usual umask narrows (the directory is in Request),
\* and umask(um).
ExportRestore(t) ==
  /\ pc[t] = "export" /\ Go(t, "idle")
  /\ umask' = [umask EXCEPT ![Proc[t]] = um[t]]
  /\ UNCHANGED <<um, dir, loads, overlapped, failed, repaired>>

Next ==
  \E t \in Threads :
    \/ Load(t) \/ Stat(t) \/ Mkdir(t) \/ Chmod(t) \/ RestoreUmask(t)
    \/ NoMkdir(t) \/ ExportClear(t) \/ ExportRestore(t)

Spec == Init /\ [][Next]_vars

-----------------------------------------------------------------------------
\* A process whose windows never overlapped has its umask back when none is
\* open, whatever other processes do.  (Of two threads that load or export at
\* once the second saves the 0 of the first, and may leave it for good.)
UmaskRestored ==
  \A p \in Procs : ~Busy(p) /\ p \notin overlapped => umask[p] = "initial"

\* A directory libnss made or repaired is sticky and open to everyone when all
\* windows are closed, provided no system call failed and no two windows of one
\* process overlapped: racing processes do not spoil each other's directory.
DirUsable ==
  (\A p \in Procs : ~Busy(p)) /\ overlapped = {} /\ ~failed /\ repaired =>
    dir.exists /\ dir.sticky /\ dir.open
=============================================================================
