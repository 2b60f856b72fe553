----------------------------- MODULE Enumeration -----------------------------
(***************************************************************************)
(* setXXent / getXXent_r / endXXent of one NSS database (STNS_SET_ENTRIES  *)
(* in stns.h, instantiated by stns_passwd.c, stns_group.c, stns_shadow.c). *)
(*                                                                         *)
(* A database keeps one parsed list and one cursor for the whole process   *)
(* (`entries', `entry_idx'), guarded by one non-recursive mutex that is    *)
(* taken with a bounded trylock loop.  Every access to the shared list and *)
(* cursor is a step of its own, because the mutex does not always exclude: *)
(* GROUP_ENSURE releases grent_mutex on its failure paths, whoever holds   *)
(* it.  What the request layer answers is a nondeterministic choice here;  *)
(* module Request models that layer.                                       *)
(***************************************************************************)
EXTENDS Naturals, Sequences

CONSTANTS
  Threads,         \* threads of the process calling into the library
  Database,        \* "passwd", "group" or "shadow"
  Docs,            \* JSON documents a request may answer with
  DocIds,          \* identities of parsed documents (JSON_Value pointers)
  NULL,            \* the null pointer
  Free,            \* owner of a mutex nobody holds
  STNS_LOCK_RETRY  \* trylock retries of pthread_mutex_retrylock

\* A document is an array of entries or some other JSON value; of an entry
\* only the presence of its "name" matters to the control flow.
Doc == [array : BOOLEAN, named : Seq(BOOLEAN)]

ASSUME EnumAssumption ==
  /\ Database \in {"passwd", "group", "shadow"}
  /\ Docs \subseteq Doc
  /\ \A d \in Docs : ~d.array => d.named = << >>
  /\ NULL \notin DocIds
  /\ Free \notin Threads
  /\ STNS_LOCK_RETRY \in Nat

VARIABLES
  mutex,      \* type##ent_mutex: the thread that took it last, or Free
  entries,    \* static JSON_Value *entries
  entry_idx,  \* static int entry_idx
  live,       \* parsed documents not yet passed to json_value_free
  docOf,      \* contents of a parsed document
  pc, op,     \* where each thread is, and which entry point it is in
  tries,      \* i of pthread_mutex_retrylock
  arr,        \* local array_entries of getXXent_r
  pos,        \* entry copied to the caller and not yet counted in entry_idx
  ret,        \* nss_status of the thread's last call
  stolen,     \* history: some unlock released another thread's lock
  corrupt,    \* history: a freed document was read or freed again
  delivered   \* history: positions returned with SUCCESS since the last reset

shared == <<mutex, entries, entry_idx, live, docOf>>
local  == <<pc, op, tries, arr, pos, ret>>
hist   == <<stolen, corrupt, delivered>>
vars   == <<shared, local, hist>>

Status == {"none", "SUCCESS", "NOTFOUND", "UNAVAIL", "TRYAGAIN"}
SetPc  == {"free", "reset", "install", "set_unlock"}
GetPc  == {"read", "reload", "relock", "fetch", "advance", "unlock"}
Pc     == {"idle", "lock", "unlock_again"} \cup SetPc \cup GetPc

\* The thread is between a successful trylock and its own unlock.
InCS(t) == pc[t] \in SetPc \cup GetPc

Init ==
  /\ mutex = Free /\ entries = NULL /\ entry_idx = 0
  /\ live = {} /\ docOf \in [DocIds -> {[array |-> FALSE, named |-> << >>]}]
  /\ pc = [t \in Threads |-> "idle"] /\ op = [t \in Threads |-> "none"]
  /\ tries = [t \in Threads |-> 0] /\ arr = [t \in Threads |-> NULL]
  /\ pos = [t \in Threads |-> 0] /\ ret = [t \in Threads |-> "none"]
  /\ stolen = FALSE /\ corrupt = FALSE /\ delivered = << >>

Goto(t, l) == pc' = [pc EXCEPT ![t] = l]
Result(t, s) == ret' = [ret EXCEPT ![t] = s]

\* Leaves the entry point: its locals are dead.
Return(t) ==
  /\ Goto(t, "idle")
  /\ op' = [op EXCEPT ![t] = "none"]
  /\ tries' = [tries EXCEPT ![t] = 0]
  /\ arr' = [arr EXCEPT ![t] = NULL]
  /\ pos' = [pos EXCEPT ![t] = 0]

\* pthread_mutex_unlock on a default mutex: no owner check, so it frees the
\* mutex whoever took it, and does nothing on a free one.
Unlock(t) ==
  /\ mutex' = Free
  /\ stolen' = (stolen \/ mutex \notin {t, Free})

-----------------------------------------------------------------------------
(* Entry points.  Loading the configuration and the request touch nothing  *)
(* shared; only their outcome counts.                                      *)

Enter(t, o) ==
  /\ pc[t] = "idle"
  /\ op' = [op EXCEPT ![t] = o] /\ Goto(t, "lock") /\ Result(t, "none")
  /\ UNCHANGED <<shared, tries, arr, pos, hist>>

\* load_config failed, or the request did (a 404 is NOTFOUND).
Refuse(t, statuses) ==
  /\ pc[t] = "idle"
  /\ \E s \in statuses : Result(t, s)
  /\ UNCHANGED <<shared, pc, op, tries, arr, pos, hist>>

setent(t) == Enter(t, "set") \/ Refuse(t, {"NOTFOUND", "UNAVAIL"})
getent_r(t) == Enter(t, "get") \/ Refuse(t, {"UNAVAIL"})
endent(t) == Enter(t, "end")

\* ensure_group_by_name / ensure_group_by_gid on a path that leaves
\* GROUP_ENSURE early: it unlocks grent_mutex without ever locking it.
LookupGroup(t) ==
  /\ Database = "group" /\ pc[t] = "idle"
  /\ \E s \in {"TRYAGAIN", "NOTFOUND"} : Result(t, s)
  /\ Unlock(t)
  /\ UNCHANGED <<entries, entry_idx, live, docOf, pc, op, tries, arr, pos,
                 corrupt, delivered>>

-----------------------------------------------------------------------------
(* pthread_mutex_retrylock, at the entry and again in the setXXent that    *)
(* getXXent_r calls while it holds the mutex.                              *)

\* Mutant: the trylock result is not tested.
LockTaken_Untested(t) ==
  /\ pc[t] \in {"lock", "relock"}
  /\ mutex' = t
  /\ tries' = [tries EXCEPT ![t] = 0]
  /\ Goto(t, IF pc[t] = "lock" /\ op[t] = "get" THEN "read" ELSE "free")
  /\ UNCHANGED <<entries, entry_idx, live, docOf, op, arr, pos, ret, hist>>

\* Mutant: a recursive mutex.
LockTaken_Recursive(t) ==
  /\ pc[t] \in {"lock", "relock"} /\ mutex \in {t, Free}
  /\ mutex' = t
  /\ tries' = [tries EXCEPT ![t] = 0]
  /\ Goto(t, IF pc[t] = "lock" /\ op[t] = "get" THEN "read" ELSE "free")
  /\ UNCHANGED <<entries, entry_idx, live, docOf, op, arr, pos, ret, hist>>

LockTaken(t) ==
  /\ pc[t] \in {"lock", "relock"} /\ mutex = Free
  /\ mutex' = t
  /\ tries' = [tries EXCEPT ![t] = 0]
  /\ Goto(t, IF pc[t] = "lock" /\ op[t] = "get" THEN "read" ELSE "free")
  /\ UNCHANGED <<entries, entry_idx, live, docOf, op, arr, pos, ret, hist>>

\* Mutant: the retries are not counted.
LockBusy_Uncounted(t) ==
  /\ pc[t] \in {"lock", "relock"} /\ mutex # Free
  /\ tries[t] < STNS_LOCK_RETRY
  /\ UNCHANGED vars

LockBusy(t) ==
  /\ pc[t] \in {"lock", "relock"} /\ mutex # Free
  /\ tries[t] < STNS_LOCK_RETRY
  /\ tries' = [tries EXCEPT ![t] = @ + 1]
  /\ UNCHANGED <<shared, pc, op, arr, pos, ret, hist>>

\* Mutant: a call that did not get the mutex leaves through the unlock.
LockGivenUp_Unlocks(t) ==
  /\ pc[t] \in {"lock", "relock"} /\ mutex # Free
  /\ tries[t] >= STNS_LOCK_RETRY
  /\ Result(t, "UNAVAIL") /\ Goto(t, "unlock")
  /\ tries' = [tries EXCEPT ![t] = 0]
  /\ UNCHANGED <<shared, op, arr, pos, hist>>

LockGivenUp(t) ==
  /\ pc[t] \in {"lock", "relock"} /\ mutex # Free
  /\ tries[t] >= STNS_LOCK_RETRY
  /\ Result(t, "UNAVAIL")
  /\ \/ pc[t] = "lock" /\ Return(t)
     \/ /\ pc[t] = "relock" /\ Goto(t, "unlock")
        /\ tries' = [tries EXCEPT ![t] = 0]
        /\ UNCHANGED <<op, arr, pos>>
  /\ UNCHANGED <<shared, hist>>

-----------------------------------------------------------------------------
(* inner_nss_stns_setXXent and endXXent, mutex held.                       *)

\* json_value_free(entries); `entries' still points there afterwards.
FreeEntries(t) ==
  /\ pc[t] = "free" /\ Goto(t, "reset")
  /\ live' = live \ {entries}
  /\ corrupt' = (corrupt \/ entries \notin live \cup {NULL})
  /\ UNCHANGED <<mutex, entries, entry_idx, docOf, op, tries, arr, pos, ret,
                 stolen, delivered>>

\* Mutant: entries is not cleared after it was freed.
ResetEntries_Dangling(t) ==
  /\ pc[t] = "reset"
  /\ entry_idx' = 0 /\ entries' = entries /\ delivered' = << >>
  /\ \/ op[t] = "end" /\ Goto(t, "set_unlock") /\ Result(t, "SUCCESS")
     \/ op[t] # "end" /\ Goto(t, "install") /\ UNCHANGED ret
  /\ UNCHANGED <<mutex, live, docOf, op, tries, arr, pos, stolen, corrupt>>

\* Mutant: a new list is read from the old position.
ResetEntries_KeepsIdx(t) ==
  /\ pc[t] = "reset"
  /\ entry_idx' = entry_idx /\ entries' = NULL /\ delivered' = << >>
  /\ \/ op[t] = "end" /\ Goto(t, "set_unlock") /\ Result(t, "SUCCESS")
     \/ op[t] # "end" /\ Goto(t, "install") /\ UNCHANGED ret
  /\ UNCHANGED <<mutex, live, docOf, op, tries, arr, pos, stolen, corrupt>>

ResetEntries(t) ==
  /\ pc[t] = "reset"
  /\ entry_idx' = 0 /\ entries' = NULL /\ delivered' = << >>
  /\ \/ op[t] = "end" /\ Goto(t, "set_unlock") /\ Result(t, "SUCCESS")
     \/ op[t] # "end" /\ Goto(t, "install") /\ UNCHANGED ret
  /\ UNCHANGED <<mutex, live, docOf, op, tries, arr, pos, stolen, corrupt>>

\* Mutant: the error path returns without unlocking.
ParseFails_Locked(t) ==
  /\ pc[t] = "install" /\ Return(t) /\ Result(t, "UNAVAIL")
  /\ UNCHANGED <<shared, hist>>

ParseFails(t) ==
  /\ pc[t] = "install" /\ Goto(t, "set_unlock") /\ Result(t, "UNAVAIL")
  /\ UNCHANGED <<shared, op, tries, arr, pos, hist>>

\* A document nobody points to stands for freshly allocated memory.
InstallEntries(t) ==
  /\ pc[t] = "install"
  /\ \E id \in DocIds \ (live \cup {entries} \cup {arr[u] : u \in Threads}),
        d \in Docs :
       /\ entries' = id
       /\ live' = live \cup {id}
       /\ docOf' = [docOf EXCEPT ![id] = d]
  /\ Goto(t, "set_unlock") /\ Result(t, "SUCCESS")
  /\ UNCHANGED <<mutex, entry_idx, op, tries, arr, pos, hist>>

\* Unlock at the end of setXXent / endXXent; a setXXent called from
\* getXXent_r returns into it.
SetUnlock(t) ==
  /\ pc[t] = "set_unlock" /\ Unlock(t)
  /\ \/ op[t] # "get" /\ Return(t)
     \/ /\ op[t] = "get"
        /\ Goto(t, IF ret[t] = "SUCCESS" THEN "fetch" ELSE "unlock")
        /\ UNCHANGED <<op, tries, arr, pos>>
  /\ UNCHANGED <<entries, entry_idx, live, docOf, ret, corrupt, delivered>>

-----------------------------------------------------------------------------
(* inner_nss_stns_getXXent_r.                                              *)

\* array_entries = json_value_get_array(entries), read once and not again.
ReadEntries(t) ==
  /\ pc[t] = "read"
  /\ corrupt' = (corrupt \/ entries \notin live \cup {NULL})
  /\ IF entries # NULL /\ docOf[entries].array
     THEN arr' = [arr EXCEPT ![t] = entries] /\ Goto(t, "fetch")
     ELSE arr' = [arr EXCEPT ![t] = NULL] /\ Goto(t, "reload")
  /\ UNCHANGED <<shared, op, tries, pos, ret, stolen, delivered>>

\* _nss_stns_setXXent called with the mutex held: load_config and request.
Reload(t) ==
  /\ pc[t] = "reload"
  /\ \/ Goto(t, "relock") /\ UNCHANGED ret
     \/ \E s \in {"NOTFOUND", "UNAVAIL"} : Result(t, s) /\ Goto(t, "unlock")
  /\ UNCHANGED <<shared, op, tries, arr, pos, hist>>

Count(a) == IF a = NULL THEN 0 ELSE Len(docOf[a].named)

Touch(t) == corrupt' = (corrupt \/ arr[t] \notin live \cup {NULL})

FetchEnd(t) ==
  /\ pc[t] = "fetch" /\ entry_idx >= Count(arr[t])
  /\ Touch(t) /\ Result(t, "NOTFOUND") /\ Goto(t, "unlock")
  /\ UNCHANGED <<shared, op, tries, arr, pos, stolen, delivered>>

\* Mutant: one entry too many.
FetchOk_Beyond(t) ==
  /\ pc[t] = "fetch" /\ entry_idx <= Count(arr[t])
  /\ Database = "group" => docOf[arr[t]].named[entry_idx + 1]
  /\ Touch(t)
  /\ pos' = [pos EXCEPT ![t] = entry_idx + 1] /\ Goto(t, "advance")
  /\ UNCHANGED <<shared, op, tries, arr, ret, stolen, delivered>>

\* The entry fits the caller's buffer.  A group needs a name; passwd and
\* shadow substitute the empty string.
FetchOk(t) ==
  /\ pc[t] = "fetch" /\ entry_idx < Count(arr[t])
  /\ Database = "group" => docOf[arr[t]].named[entry_idx + 1]
  /\ Touch(t)
  /\ pos' = [pos EXCEPT ![t] = entry_idx + 1] /\ Goto(t, "advance")
  /\ UNCHANGED <<shared, op, tries, arr, ret, stolen, delivered>>

\* SET_ATTRBUTE runs out of buffer: ERANGE, the cursor stays.
FetchRange(t) ==
  /\ pc[t] = "fetch" /\ entry_idx < Count(arr[t])
  /\ Database = "group" => docOf[arr[t]].named[entry_idx + 1]
  /\ Touch(t) /\ Result(t, "TRYAGAIN") /\ Goto(t, "unlock")
  /\ UNCHANGED <<shared, op, tries, arr, pos, stolen, delivered>>

\* GROUP_ENSURE unlocks by itself when the member area does not fit or the
\* group has no name; _nss_stns_getgrent_r then unlocks a second time.
FetchEarlyUnlock(t) ==
  /\ Database = "group"
  /\ pc[t] = "fetch" /\ entry_idx < Count(arr[t])
  /\ Touch(t) /\ Unlock(t)
  /\ Result(t, IF docOf[arr[t]].named[entry_idx + 1] THEN "TRYAGAIN"
               ELSE "NOTFOUND")
  /\ Goto(t, "unlock_again")
  /\ UNCHANGED <<entries, entry_idx, live, docOf, op, tries, arr, pos,
                 delivered>>

Advance(t) ==
  /\ pc[t] = "advance"
  /\ entry_idx' = entry_idx + 1
  /\ delivered' = Append(delivered, pos[t])
  /\ Result(t, "SUCCESS") /\ Goto(t, "unlock")
  /\ UNCHANGED <<mutex, entries, live, docOf, op, tries, arr, pos, stolen,
                 corrupt>>

GetUnlock(t) ==
  /\ pc[t] \in {"unlock", "unlock_again"}
  /\ Unlock(t) /\ Return(t)
  /\ UNCHANGED <<entries, entry_idx, live, docOf, ret, corrupt, delivered>>

-----------------------------------------------------------------------------
Call(t) == setent(t) \/ getent_r(t) \/ endent(t) \/ LookupGroup(t)

Locking(t) == LockTaken(t) \/ LockBusy(t) \/ LockGivenUp(t)

SetStep(t) == \/ FreeEntries(t) \/ ResetEntries(t) \/ ParseFails(t)
              \/ InstallEntries(t) \/ SetUnlock(t)

GetStep(t) == \/ ReadEntries(t) \/ Reload(t) \/ FetchEnd(t) \/ FetchOk(t)
              \/ FetchRange(t) \/ FetchEarlyUnlock(t) \/ Advance(t)
              \/ GetUnlock(t)

\* A call that has begun: nothing but the scheduler can hold it back.
Step(t) == Locking(t) \/ SetStep(t) \/ GetStep(t)

Next == \E t \in Threads : Call(t) \/ Step(t)

Spec == Init /\ [][Next]_vars

FairSpec == Spec /\ \A t \in Threads : WF_vars(Step(t))

-----------------------------------------------------------------------------
(* Properties.                                                             *)

TypeOK ==
  /\ mutex \in Threads \cup {Free}
  /\ entries \in DocIds \cup {NULL}
  /\ entry_idx \in Nat
  /\ live \in SUBSET DocIds
  /\ docOf \in [DocIds -> Doc]
  /\ pc \in [Threads -> Pc]
  /\ op \in [Threads -> {"none", "set", "get", "end"}]
  /\ tries \in [Threads -> Nat]
  /\ arr \in [Threads -> DocIds \cup {NULL}]
  /\ pos \in [Threads -> Nat]
  /\ ret \in [Threads -> Status]
  /\ stolen \in BOOLEAN /\ corrupt \in BOOLEAN
  /\ delivered \in Seq(Nat)

\* Outside the group database no thread ever releases a lock it does not
\* hold: every pthread_mutex_unlock of STNS_SET_ENTRIES is reached only after
\* a successful pthread_mutex_retrylock of the same call, error paths and the
\* nested setXXent included.
NeverStolen == Database # "group" => ~stolen

\* At most one thread is between its trylock and its unlock, as long as no
\* GROUP_ENSURE failure path has released another thread's lock.
MutualExclusion ==
  stolen \/ \A t, u \in Threads : InCS(t) /\ InCS(u) => t = u

\* The mutex never stays locked after the call that took it has returned: all
\* the early returns of setXXent, getXXent_r and endXXent give it back.
LockReleased ==
  stolen \/ \A t \in Threads : mutex = t => InCS(t)

\* getXXent_r, setXXent and endXXent of several threads never read a parsed
\* document after json_value_free, and never free one twice.
NoUseAfterFree == stolen \/ ~corrupt

\* getXXent_r on a database with no list loaded calls setXXent while holding
\* the non-recursive mutex, so that setXXent always gives up: the call never
\* loads a list, never frees one, and never answers SUCCESS.
ReloadNeverLocks ==
  stolen \/ \A t \in Threads : op[t] = "get" => pc[t] \notin SetPc

\* Entries come out in order, none lost or repeated: an ERANGE retry gets the
\* same entry again, and the cursor counts exactly what was delivered.
DeliveredInOrder ==
  stolen \/ delivered = [i \in 1..entry_idx |-> i]

\* The steps of all threads together implement EntryCursor.
Cursor == INSTANCE EntryCursor WITH
            Lengths <- {Len(d.named) : d \in Docs},
            size <- Count(entries),
            given <- delivered

ImplementsCursor == Cursor!CursorSpec

\* Every call returns: the trylock loop is bounded, even when getXXent_r
\* waits for the mutex it holds itself.
CallsReturn == \A t \in Threads : pc[t] # "idle" ~> pc[t] = "idle"
=============================================================================
