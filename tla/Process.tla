------------------------------ MODULE Process ------------------------------
(***************************************************************************)
(* What a process does around a request: the blocks that grow (Buffers,    *)
(* extended here), the headers of a response and the id filter (IdRange),  *)
(* the cache directory (CacheDir), the configuration (Config).  They share *)
(* nothing; "part" says which of them a behaviour is about, and only that  *)
(* one moves.                                                              *)
(***************************************************************************)
EXTENDS Buffers

CONSTANTS
  Threads, None, Responses, Ids, Width, Shift, Garbage, MaxResponses, \* IdRange
  Loaders, Procs, Proc, Roots, MaxLoads,                              \* CacheDir
  Keys, Spellings, MaxHeaders                                         \* Config

VARIABLES
  part,
  ids, mutex, olds, idpc, headers, response, arg, crashed, announced, crossed,
  lost, alone, refused, count,
  umask, um, dir, dirpc, loads, overlapped, dirfailed, repaired,
  confpc, confj, conf, cached, values, table, heap, files, tab, fault, raw

idvars == <<ids, mutex, olds, idpc, headers, response, arg, crashed, announced, crossed,
            lost, alone, refused, count>>
dirvars == <<umask, um, dir, dirpc, loads, overlapped, dirfailed, repaired>>
confvars == <<confpc, confj, conf, cached, values, table, heap, files, tab, fault, raw>>

Id == INSTANCE IdRange WITH pc <- idpc
Dir == INSTANCE CacheDir WITH pc <- dirpc, failed <- dirfailed, Threads <- Loaders
Conf == INSTANCE Config WITH pc <- confpc, j <- confj

ASSUME ProcessAssumption ==
  Id!IdRangeAssumption /\ Dir!CacheDirAssumption /\ Conf!ConfigAssumption

-----------------------------------------------------------------------------
ProcessInit ==
  /\ part \in {"buffers", "ids", "dir", "conf"}
  /\ Init /\ (part # "buffers" => fn = "keys")
  /\ Id!Init
  /\ Dir!Init /\ (part # "dir" => dir = Dir!Absent)
  /\ Conf!Init

Receive == part = "buffers" /\ Next /\ UNCHANGED <<part, idvars, dirvars, confvars>>
Filter == part = "ids" /\ Id!Next /\ UNCHANGED <<part, vars, dirvars, confvars>>
CreateDir == part = "dir" /\ Dir!Next /\ UNCHANGED <<part, vars, idvars, confvars>>
Configure == part = "conf" /\ Conf!Next /\ UNCHANGED <<part, vars, idvars, dirvars>>

ProcessNext == Receive \/ Filter \/ CreateDir \/ Configure

ProcessSpec == ProcessInit /\ [][ProcessNext]_<<part, vars, idvars, dirvars, confvars>>

-----------------------------------------------------------------------------
\* An id is refused only for a range some header announced, or because it does
\* not fit into an int, as long as strtok never went on in a foreign buffer.
RefusalJustified == Id!RefusalJustified

\* header_callback ends the process only after two transfers were interleaved.
CrashOnlyWhenCrossed == Id!CrashOnlyWhenCrossed

\* A transfer that nothing disturbed leaves the four ids at what it announced,
\* whatever the interleaved ones before it left in them.
Restores == Id!Restores

\* A process whose loads and exports never overlapped has its umask back, and a
\* directory stns_force_create_cache_dir made or repaired is open to all,
\* whatever other processes do at the same time.
UmaskRestored == Dir!UmaskRestored /\ Dir!DirUsable

\* A configuration that is loaded, used and unloaded: a field without a value
\* goes back to a key that was refused, a wild access to such a key, to a
\* header that is no string or to a second header, and nothing is left over.
ConfigSound == Conf!FieldsDefined /\ Conf!FaultExplained /\ Conf!NothingLeft
=============================================================================
