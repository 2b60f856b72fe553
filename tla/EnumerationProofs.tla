-------------------------- MODULE EnumerationProofs --------------------------
(***************************************************************************)
(* Proofs about Enumeration for any number of threads, any documents and   *)
(* any retry bound.                                                        *)
(***************************************************************************)
EXTENDS Enumeration, TLAPS

\* As long as no lock was stolen: the owner of the mutex is the thread in the
\* critical section, ...
OwnerInv == \A t \in Threads : InCS(t) <=> mutex = t

\* ... entries dangles only between json_value_free and the reset, a thread
\* about to copy an entry points at the current list, ...
HeapInv ==
  /\ ~corrupt
  /\ entries \in live \cup {NULL} \/ \E t \in Threads : pc[t] = "reset"
  /\ \A t \in Threads : pc[t] = "fetch" => arr[t] = entries

\* ... and the cursor, the history and the entry in flight agree.
CursorInv ==
  /\ delivered = [i \in 1..entry_idx |-> i]
  /\ \A t \in Threads :
       /\ pc[t] = "advance" => pos[t] = entry_idx + 1
                            /\ pos[t] <= Count(entries)
       /\ pc[t] = "install" => entry_idx = 0

\* ... a getXXent_r is never inside its nested setXXent ...
ReloadInv == \A t \in Threads : op[t] = "get" => pc[t] \notin SetPc

GuardedInv == OwnerInv /\ ReloadInv /\ HeapInv /\ CursorInv

\* passwd and shadow have no failure path that unlocks early.
SoloInv == ~stolen /\ \A t \in Threads : pc[t] # "unlock_again"

IndInv ==
  /\ TypeOK
  /\ Database # "group" => SoloInv
  /\ stolen \/ GuardedInv

-----------------------------------------------------------------------------
(* Type correctness, one step per action.                                  *)

\* The static variables of stns.h and the idle threads start well typed.
LEMMA InitTypeOK == Init => TypeOK
<1> SUFFICES ASSUME Init PROVE TypeOK
  OBVIOUS
<1>1. << >> \in Seq(BOOLEAN) /\ << >> \in Seq(Nat)
  OBVIOUS
<1>2. [array |-> FALSE, named |-> << >>] \in Doc
  BY <1>1 DEF Doc
<1> QED
  BY <1>1, <1>2, EnumAssumption DEF Init, TypeOK, Pc, Status

\* Leaving an entry point resets the thread's locals to typed values.
LEMMA ReturnType ==
  ASSUME TypeOK, NEW t \in Threads, Return(t)
  PROVE  /\ pc' \in [Threads -> Pc]
         /\ op' \in [Threads -> {"none", "set", "get", "end"}]
         /\ tries' \in [Threads -> Nat] /\ pos' \in [Threads -> Nat]
         /\ arr' \in [Threads -> DocIds \cup {NULL}]
  BY DEF TypeOK, Return, Goto, Pc

\* Every step of every entry point keeps the types.
LEMMA TypeStep == TypeOK /\ [Next]_vars => TypeOK'
<1> SUFFICES ASSUME TypeOK, [Next]_vars PROVE TypeOK'
  OBVIOUS
<1> USE DEF TypeOK, Pc, SetPc, GetPc, Status, Goto, Result, Unlock,
            shared, local, hist
<1>1. ASSUME NEW t \in Threads, setent(t) PROVE TypeOK'
  BY <1>1 DEF setent, Enter, Refuse
<1>2. ASSUME NEW t \in Threads, getent_r(t) PROVE TypeOK'
  BY <1>2 DEF getent_r, Enter, Refuse
<1>3. ASSUME NEW t \in Threads, endent(t) PROVE TypeOK'
  BY <1>3 DEF endent, Enter
<1>4. ASSUME NEW t \in Threads, LookupGroup(t) PROVE TypeOK'
  BY <1>4 DEF LookupGroup
<1>5. ASSUME NEW t \in Threads, LockTaken(t) PROVE TypeOK'
  BY <1>5 DEF LockTaken
<1>6. ASSUME NEW t \in Threads, LockBusy(t) PROVE TypeOK'
  BY <1>6 DEF LockBusy
<1>7. ASSUME NEW t \in Threads, LockGivenUp(t) PROVE TypeOK'
  <2>1. CASE pc[t] = "lock" /\ Return(t)
    BY <1>7, <2>1, ReturnType DEF LockGivenUp
  <2>2. CASE /\ Goto(t, "unlock") /\ tries' = [tries EXCEPT ![t] = 0]
             /\ UNCHANGED <<op, arr, pos>>
    BY <1>7, <2>2 DEF LockGivenUp
  <2> QED
    <3> HIDE DEF TypeOK, Goto
    <3> QED
      BY <1>7, <2>1, <2>2 DEF LockGivenUp
<1>8. ASSUME NEW t \in Threads, FreeEntries(t) PROVE TypeOK'
  BY <1>8 DEF FreeEntries
<1>9. ASSUME NEW t \in Threads, ResetEntries(t) PROVE TypeOK'
  <2>1. << >> \in Seq(Nat)
    OBVIOUS
  <2> QED
    BY <1>9, <2>1 DEF ResetEntries
<1>10. ASSUME NEW t \in Threads, ParseFails(t) PROVE TypeOK'
  BY <1>10 DEF ParseFails
<1>11. ASSUME NEW t \in Threads, InstallEntries(t) PROVE TypeOK'
  BY <1>11, EnumAssumption DEF InstallEntries
<1>12. ASSUME NEW t \in Threads, SetUnlock(t) PROVE TypeOK'
  <2>1. CASE op[t] # "get" /\ Return(t)
    BY <1>12, <2>1, ReturnType DEF SetUnlock
  <2>2. CASE op[t] = "get"
    BY <1>12, <2>2 DEF SetUnlock
  <2> QED
    BY <1>12, <2>1, <2>2 DEF SetUnlock
<1>13. ASSUME NEW t \in Threads, ReadEntries(t) PROVE TypeOK'
  BY <1>13 DEF ReadEntries
<1>14. ASSUME NEW t \in Threads, Reload(t) PROVE TypeOK'
  BY <1>14, ZenonT(30) DEF Reload
<1>15. ASSUME NEW t \in Threads, FetchEnd(t) PROVE TypeOK'
  BY <1>15 DEF FetchEnd, Touch
<1>16. ASSUME NEW t \in Threads, FetchOk(t) PROVE TypeOK'
  BY <1>16 DEF FetchOk, Touch
<1>17. ASSUME NEW t \in Threads, FetchRange(t) PROVE TypeOK'
  BY <1>17 DEF FetchRange, Touch
<1>18. ASSUME NEW t \in Threads, FetchEarlyUnlock(t) PROVE TypeOK'
  BY <1>18 DEF FetchEarlyUnlock, Touch
<1>19. ASSUME NEW t \in Threads, Advance(t) PROVE TypeOK'
  BY <1>19 DEF Advance
<1>20. ASSUME NEW t \in Threads, GetUnlock(t) PROVE TypeOK'
  BY <1>20, ReturnType DEF GetUnlock
<1>21. CASE UNCHANGED vars
  BY <1>21 DEF vars
<1> QED
  BY <1>1, <1>2, <1>3, <1>4, <1>5, <1>6, <1>7, <1>8, <1>9, <1>10, <1>11,
     <1>12, <1>13, <1>14, <1>15, <1>16, <1>17, <1>18, <1>19, <1>20, <1>21
     DEF Next, Call, Step, Locking, SetStep, GetStep

\* Every variable of the enumeration keeps its type.
THEOREM TypeCorrect == Spec => []TypeOK
<1> QED
  BY InitTypeOK, TypeStep, PTL DEF Spec
-----------------------------------------------------------------------------
\* Every step keeps the owner of the mutex and the critical section in step.
LEMMA OwnerStep ==
  TypeOK /\ OwnerInv /\ ReloadInv /\ [Next]_vars /\ ~stolen'
    => OwnerInv'
<1> SUFFICES ASSUME TypeOK, OwnerInv, ReloadInv, [Next]_vars, ~stolen'
             PROVE  OwnerInv'
  OBVIOUS
<1> USE EnumAssumption DEF TypeOK, OwnerInv, ReloadInv, InCS, SetPc, GetPc,
        Goto, Result, shared, hist
<1>1. ASSUME NEW t \in Threads, setent(t) PROVE OwnerInv'
  BY <1>1 DEF setent, Enter, Refuse
<1>2. ASSUME NEW t \in Threads, getent_r(t) PROVE OwnerInv'
  BY <1>2 DEF getent_r, Enter, Refuse
<1>3. ASSUME NEW t \in Threads, endent(t) PROVE OwnerInv'
  BY <1>3 DEF endent, Enter
<1>4. ASSUME NEW t \in Threads, LookupGroup(t) PROVE OwnerInv'
  BY <1>4 DEF LookupGroup, Unlock
<1>5. ASSUME NEW t \in Threads, LockTaken(t) PROVE OwnerInv'
  BY <1>5 DEF LockTaken
<1>6. ASSUME NEW t \in Threads, LockBusy(t) PROVE OwnerInv'
  BY <1>6 DEF LockBusy
<1>7. ASSUME NEW t \in Threads, LockGivenUp(t) PROVE OwnerInv'
  BY <1>7 DEF LockGivenUp, Return
<1>8. ASSUME NEW t \in Threads, FreeEntries(t) PROVE OwnerInv'
  BY <1>8 DEF FreeEntries
<1>9. ASSUME NEW t \in Threads, ResetEntries(t) PROVE OwnerInv'
  BY <1>9 DEF ResetEntries
<1>10. ASSUME NEW t \in Threads, ParseFails(t) PROVE OwnerInv'
  BY <1>10 DEF ParseFails
<1>11. ASSUME NEW t \in Threads, InstallEntries(t) PROVE OwnerInv'
  BY <1>11 DEF InstallEntries
<1>12. ASSUME NEW t \in Threads, SetUnlock(t) PROVE OwnerInv'
  BY <1>12 DEF SetUnlock, Unlock, Return
<1>13. ASSUME NEW t \in Threads, ReadEntries(t) PROVE OwnerInv'
  BY <1>13 DEF ReadEntries
<1>14. ASSUME NEW t \in Threads, Reload(t) PROVE OwnerInv'
  BY <1>14 DEF Reload
<1>15. ASSUME NEW t \in Threads, FetchEnd(t) PROVE OwnerInv'
  BY <1>15 DEF FetchEnd, Touch
<1>16. ASSUME NEW t \in Threads, FetchOk(t) PROVE OwnerInv'
  BY <1>16 DEF FetchOk, Touch
<1>17. ASSUME NEW t \in Threads, FetchRange(t) PROVE OwnerInv'
  BY <1>17 DEF FetchRange, Touch
<1>18. ASSUME NEW t \in Threads, FetchEarlyUnlock(t) PROVE OwnerInv'
  BY <1>18 DEF FetchEarlyUnlock, Touch, Unlock
<1>19. ASSUME NEW t \in Threads, Advance(t) PROVE OwnerInv'
  BY <1>19 DEF Advance
<1>20. ASSUME NEW t \in Threads, GetUnlock(t) PROVE OwnerInv'
  BY <1>20 DEF GetUnlock, Unlock, Return
<1>21. CASE UNCHANGED vars
  BY <1>21 DEF vars, shared, local, hist
<1> QED
  BY <1>1, <1>2, <1>3, <1>4, <1>5, <1>6, <1>7, <1>8, <1>9, <1>10, <1>11, <1>12,
     <1>13, <1>14, <1>15, <1>16, <1>17, <1>18, <1>19, <1>20, <1>21
     DEF Next, Call, Step, Locking, SetStep, GetStep

\* A getXXent_r that reloads cannot retake the mutex it holds.
LEMMA ReloadStep ==
  TypeOK /\ OwnerInv /\ ReloadInv /\ [Next]_vars /\ ~stolen'
    => ReloadInv'
<1> SUFFICES ASSUME TypeOK, OwnerInv, ReloadInv, [Next]_vars, ~stolen'
             PROVE  ReloadInv'
  OBVIOUS
<1> USE EnumAssumption DEF TypeOK, OwnerInv, ReloadInv, InCS, SetPc, GetPc,
        Goto, Result, shared, hist
<1>1. ASSUME NEW t \in Threads, setent(t) PROVE ReloadInv'
  BY <1>1 DEF setent, Enter, Refuse
<1>2. ASSUME NEW t \in Threads, getent_r(t) PROVE ReloadInv'
  BY <1>2 DEF getent_r, Enter, Refuse
<1>3. ASSUME NEW t \in Threads, endent(t) PROVE ReloadInv'
  BY <1>3 DEF endent, Enter
<1>4. ASSUME NEW t \in Threads, LookupGroup(t) PROVE ReloadInv'
  BY <1>4 DEF LookupGroup, Unlock
<1>5. ASSUME NEW t \in Threads, LockTaken(t) PROVE ReloadInv'
  BY <1>5 DEF LockTaken
<1>6. ASSUME NEW t \in Threads, LockBusy(t) PROVE ReloadInv'
  BY <1>6 DEF LockBusy
<1>7. ASSUME NEW t \in Threads, LockGivenUp(t) PROVE ReloadInv'
  BY <1>7 DEF LockGivenUp, Return
<1>8. ASSUME NEW t \in Threads, FreeEntries(t) PROVE ReloadInv'
  BY <1>8 DEF FreeEntries
<1>9. ASSUME NEW t \in Threads, ResetEntries(t) PROVE ReloadInv'
  BY <1>9 DEF ResetEntries
<1>10. ASSUME NEW t \in Threads, ParseFails(t) PROVE ReloadInv'
  BY <1>10 DEF ParseFails
<1>11. ASSUME NEW t \in Threads, InstallEntries(t) PROVE ReloadInv'
  BY <1>11 DEF InstallEntries
<1>12. ASSUME NEW t \in Threads, SetUnlock(t) PROVE ReloadInv'
  BY <1>12 DEF SetUnlock, Unlock, Return
<1>13. ASSUME NEW t \in Threads, ReadEntries(t) PROVE ReloadInv'
  BY <1>13 DEF ReadEntries
<1>14. ASSUME NEW t \in Threads, Reload(t) PROVE ReloadInv'
  BY <1>14 DEF Reload
<1>15. ASSUME NEW t \in Threads, FetchEnd(t) PROVE ReloadInv'
  BY <1>15 DEF FetchEnd, Touch
<1>16. ASSUME NEW t \in Threads, FetchOk(t) PROVE ReloadInv'
  BY <1>16 DEF FetchOk, Touch
<1>17. ASSUME NEW t \in Threads, FetchRange(t) PROVE ReloadInv'
  BY <1>17 DEF FetchRange, Touch
<1>18. ASSUME NEW t \in Threads, FetchEarlyUnlock(t) PROVE ReloadInv'
  BY <1>18 DEF FetchEarlyUnlock, Touch, Unlock
<1>19. ASSUME NEW t \in Threads, Advance(t) PROVE ReloadInv'
  BY <1>19 DEF Advance
<1>20. ASSUME NEW t \in Threads, GetUnlock(t) PROVE ReloadInv'
  BY <1>20 DEF GetUnlock, Unlock, Return
<1>21. CASE UNCHANGED vars
  BY <1>21 DEF vars, shared, local, hist
<1> QED
  BY <1>1, <1>2, <1>3, <1>4, <1>5, <1>6, <1>7, <1>8, <1>9, <1>10, <1>11, <1>12,
     <1>13, <1>14, <1>15, <1>16, <1>17, <1>18, <1>19, <1>20, <1>21
     DEF Next, Call, Step, Locking, SetStep, GetStep

\* Every step keeps entries and array_entries off freed documents.
LEMMA HeapStep ==
  TypeOK /\ OwnerInv /\ ReloadInv /\ HeapInv /\ [Next]_vars /\ ~stolen'
    => HeapInv'
<1> SUFFICES ASSUME TypeOK, OwnerInv, ReloadInv, HeapInv, [Next]_vars, ~stolen'
             PROVE  HeapInv'
  OBVIOUS
<1> USE EnumAssumption DEF TypeOK, OwnerInv, ReloadInv, HeapInv, InCS, SetPc,
        GetPc, Goto, Result, shared, hist
<1>1. ASSUME NEW t \in Threads, setent(t) PROVE HeapInv'
  BY <1>1 DEF setent, Enter, Refuse
<1>2. ASSUME NEW t \in Threads, getent_r(t) PROVE HeapInv'
  BY <1>2 DEF getent_r, Enter, Refuse
<1>3. ASSUME NEW t \in Threads, endent(t) PROVE HeapInv'
  BY <1>3 DEF endent, Enter
<1>4. ASSUME NEW t \in Threads, LookupGroup(t) PROVE HeapInv'
  BY <1>4 DEF LookupGroup, Unlock
<1>5. ASSUME NEW t \in Threads, LockTaken(t) PROVE HeapInv'
  BY <1>5 DEF LockTaken
<1>6. ASSUME NEW t \in Threads, LockBusy(t) PROVE HeapInv'
  BY <1>6 DEF LockBusy
<1>7. ASSUME NEW t \in Threads, LockGivenUp(t) PROVE HeapInv'
  BY <1>7, ZenonT(30) DEF LockGivenUp, Return
<1>8. ASSUME NEW t \in Threads, FreeEntries(t) PROVE HeapInv'
  BY <1>8 DEF FreeEntries
<1>9. ASSUME NEW t \in Threads, ResetEntries(t) PROVE HeapInv'
  BY <1>9 DEF ResetEntries
<1>10. ASSUME NEW t \in Threads, ParseFails(t) PROVE HeapInv'
  BY <1>10 DEF ParseFails
<1>11. ASSUME NEW t \in Threads, InstallEntries(t) PROVE HeapInv'
  BY <1>11 DEF InstallEntries
<1>12. ASSUME NEW t \in Threads, SetUnlock(t) PROVE HeapInv'
  BY <1>12 DEF SetUnlock, Unlock, Return
<1>13. ASSUME NEW t \in Threads, ReadEntries(t) PROVE HeapInv'
  BY <1>13 DEF ReadEntries
<1>14. ASSUME NEW t \in Threads, Reload(t) PROVE HeapInv'
  BY <1>14 DEF Reload
<1>15. ASSUME NEW t \in Threads, FetchEnd(t) PROVE HeapInv'
  BY <1>15 DEF FetchEnd, Touch
<1>16. ASSUME NEW t \in Threads, FetchOk(t) PROVE HeapInv'
  BY <1>16 DEF FetchOk, Touch
<1>17. ASSUME NEW t \in Threads, FetchRange(t) PROVE HeapInv'
  BY <1>17 DEF FetchRange, Touch
<1>18. ASSUME NEW t \in Threads, FetchEarlyUnlock(t) PROVE HeapInv'
  BY <1>18 DEF FetchEarlyUnlock, Touch, Unlock
<1>19. ASSUME NEW t \in Threads, Advance(t) PROVE HeapInv'
  BY <1>19 DEF Advance
<1>20. ASSUME NEW t \in Threads, GetUnlock(t) PROVE HeapInv'
  BY <1>20 DEF GetUnlock, Unlock, Return
<1>21. CASE UNCHANGED vars
  BY <1>21 DEF vars, shared, local, hist
<1> QED
  BY <1>1, <1>2, <1>3, <1>4, <1>5, <1>6, <1>7, <1>8, <1>9, <1>10, <1>11, <1>12,
     <1>13, <1>14, <1>15, <1>16, <1>17, <1>18, <1>19, <1>20, <1>21
     DEF Next, Call, Step, Locking, SetStep, GetStep

\* Every step keeps entry_idx, the deliveries and the entry in flight in step.
LEMMA CursorStep ==
  TypeOK /\ OwnerInv /\ ReloadInv /\ HeapInv /\ CursorInv
    /\ [Next]_vars /\ ~stolen'
    => CursorInv'
<1> SUFFICES ASSUME TypeOK, OwnerInv, ReloadInv, HeapInv, CursorInv,
                    [Next]_vars, ~stolen'
             PROVE  CursorInv'
  OBVIOUS
<1> USE EnumAssumption DEF TypeOK, OwnerInv, ReloadInv, HeapInv, CursorInv,
        InCS, SetPc, GetPc, Goto, Result, shared, hist, Count
<1>1. ASSUME NEW t \in Threads, setent(t) PROVE CursorInv'
  BY <1>1 DEF setent, Enter, Refuse
<1>2. ASSUME NEW t \in Threads, getent_r(t) PROVE CursorInv'
  BY <1>2 DEF getent_r, Enter, Refuse
<1>3. ASSUME NEW t \in Threads, endent(t) PROVE CursorInv'
  BY <1>3 DEF endent, Enter
<1>4. ASSUME NEW t \in Threads, LookupGroup(t) PROVE CursorInv'
  BY <1>4 DEF LookupGroup, Unlock
<1>5. ASSUME NEW t \in Threads, LockTaken(t) PROVE CursorInv'
  BY <1>5 DEF LockTaken
<1>6. ASSUME NEW t \in Threads, LockBusy(t) PROVE CursorInv'
  BY <1>6 DEF LockBusy
<1>7. ASSUME NEW t \in Threads, LockGivenUp(t) PROVE CursorInv'
  BY <1>7 DEF LockGivenUp, Return
<1>8. ASSUME NEW t \in Threads, FreeEntries(t) PROVE CursorInv'
  BY <1>8 DEF FreeEntries
<1>9. ASSUME NEW t \in Threads, ResetEntries(t) PROVE CursorInv'
  BY <1>9 DEF ResetEntries
<1>10. ASSUME NEW t \in Threads, ParseFails(t) PROVE CursorInv'
  BY <1>10 DEF ParseFails
<1>11. ASSUME NEW t \in Threads, InstallEntries(t) PROVE CursorInv'
  BY <1>11 DEF InstallEntries
<1>12. ASSUME NEW t \in Threads, SetUnlock(t) PROVE CursorInv'
  BY <1>12 DEF SetUnlock, Unlock, Return
<1>13. ASSUME NEW t \in Threads, ReadEntries(t) PROVE CursorInv'
  BY <1>13 DEF ReadEntries
<1>14. ASSUME NEW t \in Threads, Reload(t) PROVE CursorInv'
  BY <1>14 DEF Reload
<1>15. ASSUME NEW t \in Threads, FetchEnd(t) PROVE CursorInv'
  BY <1>15 DEF FetchEnd, Touch
<1>16. ASSUME NEW t \in Threads, FetchOk(t) PROVE CursorInv'
  BY <1>16 DEF FetchOk, Touch
<1>17. ASSUME NEW t \in Threads, FetchRange(t) PROVE CursorInv'
  BY <1>17 DEF FetchRange, Touch
<1>18. ASSUME NEW t \in Threads, FetchEarlyUnlock(t) PROVE CursorInv'
  BY <1>18 DEF FetchEarlyUnlock, Touch, Unlock
<1>19. ASSUME NEW t \in Threads, Advance(t) PROVE CursorInv'
  BY <1>19 DEF Advance
<1>20. ASSUME NEW t \in Threads, GetUnlock(t) PROVE CursorInv'
  BY <1>20 DEF GetUnlock, Unlock, Return
<1>21. CASE UNCHANGED vars
  BY <1>21 DEF vars, shared, local, hist
<1> QED
  BY <1>1, <1>2, <1>3, <1>4, <1>5, <1>6, <1>7, <1>8, <1>9, <1>10, <1>11, <1>12,
     <1>13, <1>14, <1>15, <1>16, <1>17, <1>18, <1>19, <1>20, <1>21
     DEF Next, Call, Step, Locking, SetStep, GetStep

-----------------------------------------------------------------------------
\* A stolen lock is remembered.
LEMMA StolenStays == [Next]_vars /\ stolen => stolen'
  BY DEF Next, Call, Step, Locking, SetStep, GetStep, vars, hist, setent,
         getent_r, endent, LookupGroup, LockTaken, LockBusy, LockGivenUp,
         FreeEntries, ResetEntries, ParseFails, InstallEntries, SetUnlock,
         ReadEntries, Reload, FetchEnd, FetchOk, FetchRange,
         FetchEarlyUnlock, Advance, GetUnlock, Enter, Refuse, Unlock

\* Outside the group database every unlock is the holder's own.
LEMMA SoloStep ==
  TypeOK /\ OwnerInv /\ ReloadInv /\ SoloInv /\ Database # "group"
    /\ [Next]_vars
    => SoloInv'
<1> SUFFICES ASSUME TypeOK, OwnerInv, ReloadInv, SoloInv, Database # "group",
                    [Next]_vars
             PROVE  SoloInv'
  OBVIOUS
<1> USE DEF TypeOK, OwnerInv, ReloadInv, SoloInv, InCS, SetPc, GetPc, Goto,
        hist
<1>1. ASSUME NEW t \in Threads, setent(t) PROVE SoloInv'
  BY <1>1 DEF setent, Enter, Refuse
<1>2. ASSUME NEW t \in Threads, getent_r(t) PROVE SoloInv'
  BY <1>2 DEF getent_r, Enter, Refuse
<1>3. ASSUME NEW t \in Threads, endent(t) PROVE SoloInv'
  BY <1>3 DEF endent, Enter
<1>4. ASSUME NEW t \in Threads, LookupGroup(t) PROVE SoloInv'
  BY <1>4 DEF LookupGroup, Unlock
<1>5. ASSUME NEW t \in Threads, LockTaken(t) PROVE SoloInv'
  BY <1>5 DEF LockTaken
<1>6. ASSUME NEW t \in Threads, LockBusy(t) PROVE SoloInv'
  BY <1>6 DEF LockBusy
<1>7. ASSUME NEW t \in Threads, LockGivenUp(t) PROVE SoloInv'
  BY <1>7 DEF LockGivenUp, Return
<1>8. ASSUME NEW t \in Threads, FreeEntries(t) PROVE SoloInv'
  BY <1>8 DEF FreeEntries
<1>9. ASSUME NEW t \in Threads, ResetEntries(t) PROVE SoloInv'
  BY <1>9 DEF ResetEntries
<1>10. ASSUME NEW t \in Threads, ParseFails(t) PROVE SoloInv'
  BY <1>10 DEF ParseFails
<1>11. ASSUME NEW t \in Threads, InstallEntries(t) PROVE SoloInv'
  BY <1>11 DEF InstallEntries
<1>12. ASSUME NEW t \in Threads, SetUnlock(t) PROVE SoloInv'
  BY <1>12 DEF SetUnlock, Unlock, Return
<1>13. ASSUME NEW t \in Threads, ReadEntries(t) PROVE SoloInv'
  BY <1>13 DEF ReadEntries
<1>14. ASSUME NEW t \in Threads, Reload(t) PROVE SoloInv'
  BY <1>14 DEF Reload
<1>15. ASSUME NEW t \in Threads, FetchEnd(t) PROVE SoloInv'
  BY <1>15 DEF FetchEnd, Touch
<1>16. ASSUME NEW t \in Threads, FetchOk(t) PROVE SoloInv'
  BY <1>16 DEF FetchOk, Touch
<1>17. ASSUME NEW t \in Threads, FetchRange(t) PROVE SoloInv'
  BY <1>17 DEF FetchRange, Touch
<1>18. ASSUME NEW t \in Threads, FetchEarlyUnlock(t) PROVE SoloInv'
  BY <1>18 DEF FetchEarlyUnlock, Touch, Unlock
<1>19. ASSUME NEW t \in Threads, Advance(t) PROVE SoloInv'
  BY <1>19 DEF Advance
<1>20. ASSUME NEW t \in Threads, GetUnlock(t) PROVE SoloInv'
  BY <1>20 DEF GetUnlock, Unlock, Return
<1>21. CASE UNCHANGED vars
  BY <1>21 DEF vars, local
<1> QED
  BY <1>1, <1>2, <1>3, <1>4, <1>5, <1>6, <1>7, <1>8, <1>9, <1>10, <1>11, <1>12,
     <1>13, <1>14, <1>15, <1>16, <1>17, <1>18, <1>19, <1>20, <1>21
     DEF Next, Call, Step, Locking, SetStep, GetStep

\* The library starts with nothing loaded and the mutex free.
LEMMA InitIndInv == Init => IndInv
<1> SUFFICES ASSUME Init PROVE IndInv
  OBVIOUS
<1>1. TypeOK
  BY InitTypeOK
<1>2. OwnerInv /\ ReloadInv /\ HeapInv /\ SoloInv
  BY EnumAssumption DEF Init, OwnerInv, ReloadInv, HeapInv, SoloInv, InCS,
                        SetPc, GetPc
<1>3. CursorInv
  BY DEF Init, CursorInv
<1> QED
  BY <1>1, <1>2, <1>3 DEF IndInv, GuardedInv

\* Every step of every thread keeps the inductive invariant.
LEMMA IndInvStep == IndInv /\ [Next]_vars => IndInv'
<1> SUFFICES ASSUME IndInv, [Next]_vars PROVE IndInv'
  OBVIOUS
<1>1. TypeOK'
  BY TypeStep DEF IndInv
<1>2. stolen' \/ GuardedInv'
  <2> SUFFICES ASSUME ~stolen' PROVE GuardedInv'
    OBVIOUS
  <2>1. TypeOK /\ GuardedInv
    BY StolenStays DEF IndInv
  <2> QED
    BY <2>1, OwnerStep, ReloadStep, HeapStep, CursorStep DEF GuardedInv
<1>3. Database # "group" => SoloInv'
  BY SoloStep DEF IndInv, GuardedInv, SoloInv
<1> QED
  BY <1>1, <1>2, <1>3 DEF IndInv

\* The inductive invariant behind the results below: mutex ownership, heap and
\* cursor agree in every reachable state until a lock has been stolen.
THEOREM Inductive == Spec => []IndInv
<1> QED
  BY InitIndInv, IndInvStep, PTL DEF Spec

\* passwd and shadow: no unlock ever hits a lock of another thread.
THEOREM NeverStolenThm == Spec => []NeverStolen
<1>1. IndInv => NeverStolen
  BY DEF IndInv, SoloInv, NeverStolen
<1> QED
  BY <1>1, Inductive, PTL

\* One thread at a time between trylock and unlock.
THEOREM MutualExclusionThm == Spec => []MutualExclusion
<1>1. IndInv => MutualExclusion
  BY DEF IndInv, GuardedInv, OwnerInv, MutualExclusion
<1> QED
  BY <1>1, Inductive, PTL

\* Every return path has given the mutex back.
THEOREM LockReleasedThm == Spec => []LockReleased
<1>1. IndInv => LockReleased
  BY DEF IndInv, GuardedInv, OwnerInv, LockReleased
<1> QED
  BY <1>1, Inductive, PTL

\* No parsed document is used or freed after it was freed.
THEOREM NoUseAfterFreeThm == Spec => []NoUseAfterFree
<1>1. IndInv => NoUseAfterFree
  BY DEF IndInv, GuardedInv, HeapInv, NoUseAfterFree
<1> QED
  BY <1>1, Inductive, PTL

\* The setXXent nested in getXXent_r never gets the mutex.
THEOREM ReloadNeverLocksThm == Spec => []ReloadNeverLocks
<1>1. IndInv => ReloadNeverLocks
  BY DEF IndInv, GuardedInv, ReloadInv, ReloadNeverLocks
<1> QED
  BY <1>1, Inductive, PTL

\* What was delivered is exactly 1, 2, ..., entry_idx.
THEOREM DeliveredInOrderThm == Spec => []DeliveredInOrder
<1>1. IndInv => DeliveredInOrder
  BY DEF IndInv, GuardedInv, CursorInv, DeliveredInOrder
<1> QED
  BY <1>1, Inductive, PTL

-----------------------------------------------------------------------------
(* Outside the group database the enumeration implements EntryCursor.      *)

\* Nothing loaded is an empty cursor.
LEMMA InitCursor == Init => Cursor!CursorInit
  BY DEF Init, Cursor!CursorInit, Count

\* A step resets, loads, hands out the next entry, or leaves the cursor alone.
LEMMA StepCursor ==
  ASSUME IndInv, ~stolen, Next
  PROVE  Cursor!CursorNext \/ UNCHANGED <<Count(entries), delivered>>
<1> USE DEF Count
<1>1. ASSUME NEW t \in Threads, ResetEntries(t) PROVE Cursor!Clear
  BY <1>1 DEF ResetEntries, Cursor!Clear
<1>2. ASSUME NEW t \in Threads, InstallEntries(t) PROVE Cursor!Load
  <2>1. PICK id \in DocIds, d \in Docs :
          entries' = id /\ docOf' = [docOf EXCEPT ![id] = d]
    BY <1>2 DEF InstallEntries
  <2>2. Count(entries)' = Len(d.named)
    BY <2>1, EnumAssumption DEF IndInv, TypeOK
  <2>3. delivered' = << >>
    <3>1. delivered' = delivered /\ entry_idx = 0
      BY <1>2 DEF InstallEntries, hist, IndInv, GuardedInv, CursorInv
    <3> QED
      BY <3>1 DEF IndInv, GuardedInv, CursorInv
  <2> QED
    BY <2>2, <2>3 DEF Cursor!Load
<1>3. ASSUME NEW t \in Threads, Advance(t) PROVE Cursor!Give
  <2>1. /\ entry_idx \in Nat /\ delivered = [i \in 1..entry_idx |-> i]
        /\ pos[t] = entry_idx + 1 /\ pos[t] <= Count(entries)
    BY <1>3 DEF Advance, IndInv, TypeOK, GuardedInv, CursorInv
  <2>2. Len(delivered) = entry_idx
    BY <2>1
  <2> QED
    BY <1>3, <2>1, <2>2 DEF Advance, Cursor!Give
<1>4. ASSUME NEW t \in Threads,
             ~ResetEntries(t), ~InstallEntries(t), ~Advance(t),
             Call(t) \/ Step(t)
      PROVE  UNCHANGED <<entries, docOf, delivered>>
  BY <1>4 DEF Call, Step, Locking, SetStep, GetStep, shared, hist, setent,
         getent_r, endent, LookupGroup, LockTaken, LockBusy, LockGivenUp,
         FreeEntries, ParseFails, SetUnlock, ReadEntries, Reload, FetchEnd,
         FetchOk, FetchRange, FetchEarlyUnlock, GetUnlock, Enter, Refuse
<1> QED
  <2>1. PICK t \in Threads : Call(t) \/ Step(t)
    BY DEF Next
  <2>2. CASE ResetEntries(t) \/ InstallEntries(t) \/ Advance(t)
    BY <2>2, <1>1, <1>2, <1>3 DEF Cursor!CursorNext
  <2>3. CASE UNCHANGED <<entries, docOf, delivered>>
    BY <2>3
  <2> QED
    BY <2>1, <2>2, <2>3, <1>4

\* passwd and shadow hand out one list at a time, each entry once, in order.
THEOREM Refinement ==
  ASSUME Database # "group" PROVE Spec => ImplementsCursor
<1>1. IndInv => ~stolen
  BY DEF IndInv, SoloInv
<1>2. UNCHANGED vars => UNCHANGED <<Count(entries), delivered>>
  BY DEF vars, shared, hist, Count
<1>3. IndInv /\ [Next]_vars =>
        Cursor!CursorNext \/ UNCHANGED <<Count(entries), delivered>>
  BY <1>1, <1>2, StepCursor
<1>4. IndInv /\ [Next]_vars => [Cursor!CursorNext]_(Cursor!cursorVars)
  BY <1>3 DEF Cursor!cursorVars
<1> QED
  BY <1>4, Inductive, InitCursor, PTL DEF Spec, ImplementsCursor,
     Cursor!CursorSpec
=============================================================================
