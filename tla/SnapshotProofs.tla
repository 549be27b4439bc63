--------------------------- MODULE SnapshotProofs ---------------------------
(* What the snapshot keeps its promise by, for any number of mutators and of  *)
(* changes.                                                                   *)
EXTENDS Snapshot, TLAPS

(* The inductive invariant: while no two flushes overlapped, at most one is   *)
(* under way; bytes that no longer match the map imply that the change since  *)
(* is announced; and after the tasks ended only the final flush is left.      *)
Alone == ~overlapped => \A f, g \in Flusher : Busy(f) /\ Busy(g) => f = g

Covered ==
  ~overlapped => \A f \in Flusher :
    flush[f].pc = "write" /\ flush[f].json # mem => dirty \/ marking # {}

LastFlush ==
  phase \in {"dropped", "stopped"} =>
    /\ final \subseteq {Loop}
    /\ final = {} /\ ~failed => ~dirty

NoneLeft == phase = "stopped" => final = {} /\ \A f \in Flusher : ~Busy(f)

IInv == TypeOK /\ Alone /\ Covered /\ LastFlush /\ NoneLeft /\ NoChangeForgotten

FlushState == [pc : {"idle", "serialize", "write"}, json : Nat]

(* Nobody flushing is a legal state of the flushers. *)
LEMMA NobodyFlushing ==
  /\ [f \in Flusher |-> Idle] \in [Flusher -> FlushState]
  /\ \A f \in Flusher : [g \in Flusher |-> Idle][f].pc = "idle"
<1>1. Idle \in FlushState /\ Idle.pc = "idle"
  BY DEF Idle, FlushState
<1>2. QED
  BY <1>1

(* A fresh registry satisfies the invariant. *)
LEMMA InitIInv == Init => IInv
<1> SUFFICES ASSUME Init PROVE IInv
  OBVIOUS
<1> USE DEF Init
<1>1. \A f \in Flusher : ~Busy(f) /\ flush[f].pc = "idle"
  BY NobodyFlushing DEF Busy
<1>2. flush \in [Flusher -> FlushState]
  BY NobodyFlushing
<1>3. TypeOK
  BY <1>1, <1>2 DEF TypeOK, FlushState
<1>4. Alone /\ Covered
  BY <1>1 DEF Alone, Covered
<1>5. LastFlush /\ NoneLeft /\ NoChangeForgotten
  BY DEF LastFlush, NoneLeft, NoChangeForgotten
<1>6. QED
  BY <1>3, <1>4, <1>5 DEF IInv

(* Every step keeps the types, and lets nobody but the final flush work after *)
(* the tasks ended.                                                           *)
LEMMA NextType == TypeOK /\ LastFlush /\ [Next]_vars => TypeOK'
<1> SUFFICES ASSUME TypeOK, LastFlush, [Next]_vars PROVE TypeOK'
  OBVIOUS
<1> USE SnapshotAssumption DEF TypeOK, Busy
<1>1. ASSUME NEW m \in Mutator, Change(m) PROVE TypeOK'
  BY <1>1 DEF Change
<1>2. ASSUME NEW m \in Mutator, MarkDirty(m) PROVE TypeOK'
  BY <1>2 DEF MarkDirty
<1>3. ASSUME NEW f \in Flusher, Swap(f) PROVE TypeOK'
  <2>1. CASE dirty
    <3>1. flush' = [flush EXCEPT ![f].pc = "serialize"] /\ final' = final \ {f}
      BY <1>3, <2>1 DEF Swap
    <3>2. flush' \in [Flusher -> [pc : {"idle", "serialize", "write"}, json : Nat]]
      BY <3>1
    <3>3. phase' = phase /\ marking' = marking /\ final' \subseteq Flusher
      BY <1>3 DEF Swap
    <3>4. \A g \in Flusher : Busy(g)' => g = f \/ Busy(g)
      BY <3>1
    <3>5. phase \in {"dropped", "stopped"} => f = Loop
      BY <1>3 DEF Swap, Calls, LastFlush
    <3>6. phase' \in {"dropped", "stopped"} =>
            marking' = {} /\ \A g \in Flusher \ {Loop} : ~Busy(g)'
      BY <3>3, <3>4, <3>5
    <3>7. /\ mem' \in Nat /\ disk' \in Nat /\ crashes' \in Nat /\ marking' \subseteq Mutator
          /\ dirty' \in BOOLEAN /\ overlapped' \in BOOLEAN /\ failed' \in BOOLEAN
      BY <1>3, <2>1 DEF Swap
    <3>8. QED
      BY <3>2, <3>3, <3>6, <3>7
  <2>2. CASE ~dirty
    BY <1>3, <2>2 DEF Swap
  <2>3. QED
    BY <2>1, <2>2
<1>4. ASSUME NEW f \in Flusher, Serialize(f) PROVE TypeOK'
  BY <1>4 DEF Serialize
<1>5. ASSUME NEW f \in Flusher, WriteOk(f) PROVE TypeOK'
  BY <1>5 DEF WriteOk, Idle
<1>6. ASSUME NEW f \in Flusher, WriteFail(f) PROVE TypeOK'
  BY <1>6 DEF WriteFail, AfterFailure, AfterFailedWrite, Idle
<1>7. CASE Cancel
  BY <1>7 DEF Cancel
<1>8. CASE Drop
  BY <1>8 DEF Drop, TasksEnded, FlushOnDrop
<1>9. CASE Exit
  BY <1>9 DEF Exit
<1>10. CASE Crash
  <2>1. flush' \in [Flusher -> FlushState] /\ \A f \in Flusher : ~Busy(f)'
    BY <1>10, NobodyFlushing DEF Crash
  <2>2. phase' = "running" /\ marking' = {} /\ final' = {}
    BY <1>10 DEF Crash
  <2>3. mem' \in Nat /\ disk' \in Nat /\ crashes' \in Nat
    BY <1>10 DEF Crash
  <2>4. dirty' \in BOOLEAN /\ overlapped' \in BOOLEAN /\ failed' \in BOOLEAN
    BY <1>10 DEF Crash
  <2>5. QED
    BY <2>1, <2>2, <2>3, <2>4 DEF FlushState
<1>11. CASE UNCHANGED vars
  BY <1>11 DEF vars
<1>12. QED
  BY <1>1, <1>2, <1>3, <1>4, <1>5, <1>6, <1>7, <1>8, <1>9, <1>10, <1>11 DEF Next, FlushStep

(* The bookkeeping of the shutdown: with the tasks ended, a clear list of     *)
(* pending flushes means a clear flag, and nothing runs after the exit.       *)
LEMMA NextShutdown ==
  TypeOK /\ LastFlush /\ NoneLeft /\ [Next]_vars => LastFlush' /\ NoneLeft'
<1> SUFFICES ASSUME TypeOK, LastFlush, NoneLeft, [Next]_vars
             PROVE  LastFlush' /\ NoneLeft'
  OBVIOUS
<1> USE DEF LastFlush, NoneLeft, Busy
<1>1. ASSUME NEW m \in Mutator, Change(m) PROVE LastFlush' /\ NoneLeft'
  BY <1>1 DEF Change
<1>2. ASSUME NEW m \in Mutator, MarkDirty(m) PROVE LastFlush' /\ NoneLeft'
  BY <1>2 DEF MarkDirty, TypeOK
<1>3. ASSUME NEW f \in Flusher, Swap(f) PROVE LastFlush' /\ NoneLeft'
  <2>1. phase' = phase /\ final' = final \ {f} /\ ~dirty'
    BY <1>3 DEF Swap
  <2>2. phase # "stopped"
    BY <1>3 DEF Swap, Calls
  <2>3. QED
    BY <2>1, <2>2
<1>4. ASSUME NEW f \in Flusher, Serialize(f) PROVE LastFlush' /\ NoneLeft'
  BY <1>4 DEF Serialize
<1>5. ASSUME NEW f \in Flusher, WriteOk(f) PROVE LastFlush' /\ NoneLeft'
  BY <1>5 DEF WriteOk
<1>6. ASSUME NEW f \in Flusher, WriteFail(f) PROVE LastFlush' /\ NoneLeft'
  BY <1>6 DEF WriteFail
<1>7. CASE Cancel
  BY <1>7 DEF Cancel
<1>8. CASE Drop
  BY <1>8 DEF Drop, FlushOnDrop
<1>9. CASE Exit
  BY <1>9 DEF Exit
<1>10. CASE Crash
  BY <1>10 DEF Crash
<1>11. CASE UNCHANGED vars
  BY <1>11 DEF vars
<1>12. QED
  BY <1>1, <1>2, <1>3, <1>4, <1>5, <1>6, <1>7, <1>8, <1>9, <1>10, <1>11 DEF Next, FlushStep

(* What a swap that finds the flag set knows when no flush overlapped: it is  *)
(* the only one at work.                                                      *)
LEMMA SwapIsAlone ==
  ASSUME TypeOK, NEW f \in Flusher, Swap(f), dirty, ~overlapped'
  PROVE  /\ flush' = [flush EXCEPT ![f].pc = "serialize"]
         /\ flush'[f].pc = "serialize"
         /\ \A g \in Flusher : Busy(g)' => g = f
<1>1. flush' = [flush EXCEPT ![f].pc = "serialize"]
  BY DEF Swap
<1>2. \A g \in Flusher \ {f} : ~Busy(g)
  BY DEF Swap
<1>3. \A g \in Flusher \ {f} : flush'[g] = flush[g]
  BY <1>1 DEF TypeOK
<1>4. flush'[f].pc = "serialize"
  BY <1>1 DEF TypeOK
<1>5. QED
  BY <1>1, <1>2, <1>3, <1>4 DEF Busy

(* A swap that finds the flag clear changes nothing the flushers see. *)
LEMMA SwapFindsNothing ==
  ASSUME TypeOK, NEW f \in Flusher, Swap(f), ~dirty
  PROVE  UNCHANGED <<mem, marking, dirty, disk, flush, overlapped>>
BY DEF Swap, TypeOK

(* At most one flush is under way until two overlap. *)
LEMMA NextAlone == TypeOK /\ Alone /\ [Next]_vars => Alone'
<1> SUFFICES ASSUME TypeOK, Alone, [Next]_vars PROVE Alone'
  OBVIOUS
<1>1. ASSUME UNCHANGED <<flush, overlapped>> PROVE Alone'
  BY <1>1 DEF Alone, Busy
<1>2. ASSUME NEW f \in Flusher, Swap(f) PROVE Alone'
  <2>1. CASE dirty
    BY <1>2, <2>1, SwapIsAlone DEF Alone
  <2>2. CASE ~dirty
    BY <1>1, <1>2, <2>2, SwapFindsNothing
  <2>3. QED
    BY <2>1, <2>2
<1>3. ASSUME NEW f \in Flusher, Serialize(f) \/ WriteOk(f) \/ WriteFail(f) PROVE Alone'
  <2>1. Busy(f) /\ overlapped' = overlapped
    BY <1>3 DEF Serialize, WriteOk, WriteFail, Busy
  <2>2. \A g \in Flusher \ {f} : flush'[g] = flush[g]
    BY <1>3 DEF Serialize, WriteOk, WriteFail, TypeOK
  <2>3. QED
    BY <2>1, <2>2 DEF Alone, Busy
<1>4. CASE Crash
  BY <1>4, NobodyFlushing DEF Crash, Alone, Busy
<1>5. QED
  BY <1>1, <1>2, <1>3, <1>4 DEF Next, FlushStep, Change, MarkDirty, Cancel, Drop, Exit, vars

(* Stale bytes are announced as such. *)
LEMMA NextCovered == TypeOK /\ Alone /\ Covered /\ [Next]_vars => Covered'
<1> SUFFICES ASSUME TypeOK, Alone, Covered, [Next]_vars PROVE Covered'
  OBVIOUS
<1>1. ASSUME dirty' \/ marking' # {} PROVE Covered'
  BY <1>1 DEF Covered
<1>2. ASSUME UNCHANGED <<mem, dirty, marking, flush, overlapped>> PROVE Covered'
  BY <1>2 DEF Covered
<1>3. ASSUME NEW m \in Mutator, Change(m) \/ MarkDirty(m) PROVE Covered'
  BY <1>1, <1>3 DEF Change, MarkDirty
<1>4. ASSUME NEW f \in Flusher, Swap(f) PROVE Covered'
  <2>1. CASE dirty
    BY <1>4, <2>1, SwapIsAlone DEF Covered, Busy
  <2>2. CASE ~dirty
    BY <1>2, <1>4, <2>2, SwapFindsNothing
  <2>3. QED
    BY <2>1, <2>2
<1>5. ASSUME NEW f \in Flusher, Serialize(f) \/ WriteOk(f) PROVE Covered'
  <2>1. UNCHANGED <<mem, dirty, marking, overlapped>>
    BY <1>5 DEF Serialize, WriteOk
  <2>2. \A g \in Flusher \ {f} : flush'[g] = flush[g]
    BY <1>5 DEF Serialize, WriteOk, TypeOK
  <2>3. flush'[f].pc = "write" => flush'[f].json = mem
    BY <1>5 DEF Serialize, WriteOk, TypeOK, Idle
  <2>4. QED
    BY <2>1, <2>2, <2>3 DEF Covered
<1>6. ASSUME NEW f \in Flusher, WriteFail(f) PROVE Covered'
  BY <1>1, <1>6 DEF WriteFail, AfterFailure
<1>7. CASE Cancel \/ Drop \/ Exit \/ UNCHANGED vars
  BY <1>2, <1>7 DEF Cancel, Drop, Exit, vars
<1>8. CASE Crash
  BY <1>8, NobodyFlushing DEF Crash, Covered
<1>9. QED
  BY <1>3, <1>4, <1>5, <1>6, <1>7, <1>8 DEF Next, FlushStep

(* No step forgets a change the file does not have. *)
LEMMA NextPending ==
  TypeOK /\ Covered /\ NoChangeForgotten /\ [Next]_vars => NoChangeForgotten'
<1> SUFFICES ASSUME TypeOK, Covered, NoChangeForgotten, [Next]_vars
             PROVE  NoChangeForgotten'
  OBVIOUS
<1>1. ASSUME dirty' \/ marking' # {} PROVE NoChangeForgotten'
  BY <1>1 DEF NoChangeForgotten, Pending
<1>2. ASSUME UNCHANGED <<mem, disk, dirty, marking, flush, overlapped>>
      PROVE  NoChangeForgotten'
  BY <1>2 DEF NoChangeForgotten, Pending
<1>3. ASSUME NEW m \in Mutator, Change(m) \/ MarkDirty(m) PROVE NoChangeForgotten'
  BY <1>1, <1>3 DEF Change, MarkDirty
<1>4. ASSUME NEW f \in Flusher, Swap(f) PROVE NoChangeForgotten'
  <2>1. CASE dirty
    BY <1>4, <2>1, SwapIsAlone DEF NoChangeForgotten, Pending
  <2>2. CASE ~dirty
    BY <1>2, <1>4, <2>2, SwapFindsNothing
  <2>3. QED
    BY <2>1, <2>2
<1>5. ASSUME NEW f \in Flusher, Serialize(f) PROVE NoChangeForgotten'
  <2>1. flush'[f] = [pc |-> "write", json |-> mem] /\ mem' = mem
    BY <1>5 DEF Serialize, TypeOK
  <2>2. QED
    BY <2>1 DEF NoChangeForgotten, Pending
<1>6. ASSUME NEW f \in Flusher, WriteOk(f) PROVE NoChangeForgotten'
  <2>1. /\ flush[f].pc = "write" /\ disk' = flush[f].json
        /\ UNCHANGED <<mem, marking, dirty, overlapped>>
    BY <1>6 DEF WriteOk
  <2>2. CASE flush[f].json = mem
    BY <2>1, <2>2 DEF NoChangeForgotten
  <2>3. CASE flush[f].json # mem
    BY <2>1, <2>3 DEF Covered, NoChangeForgotten, Pending
  <2>4. QED
    BY <2>2, <2>3
<1>7. ASSUME NEW f \in Flusher, WriteFail(f) PROVE NoChangeForgotten'
  BY <1>1, <1>7 DEF WriteFail, AfterFailure
<1>8. CASE Cancel \/ Drop \/ Exit \/ UNCHANGED vars
  BY <1>2, <1>8 DEF Cancel, Drop, Exit, vars
<1>9. CASE Crash
  BY <1>9 DEF Crash, NoChangeForgotten
<1>10. QED
  BY <1>3, <1>4, <1>5, <1>6, <1>7, <1>8, <1>9 DEF Next, FlushStep

(* The invariant is inductive, so it always holds. *)
THEOREM Invariance == Spec => []IInv
<1>1. Init => IInv
  BY InitIInv
<1>2. IInv /\ [Next]_vars => IInv'
  BY NextType, NextShutdown, NextAlone, NextCovered, NextPending DEF IInv
<1>3. QED
  BY <1>1, <1>2, PTL DEF Spec

(* The state is always of its type, and only the final flush is at work once  *)
(* the tasks have ended (main.rs, shutdown).                                  *)
THEOREM TypeCorrect == Spec => []TypeOK
<1>1. IInv => TypeOK
  BY DEF IInv
<1>2. QED
  BY <1>1, Invariance, PTL

(* Whatever fails, races or restarts: while no two flushes overlapped, a      *)
(* change the file does not hold is one somebody will still write (store.rs,  *)
(* mark_dirty and flush).                                                     *)
THEOREM ChangesAreNotForgotten == Spec => []NoChangeForgotten
<1>1. IInv => NoChangeForgotten
  BY DEF IInv
<1>2. QED
  BY <1>1, Invariance, PTL

(* A clean shutdown leaves the last state in the file, unless two flushes     *)
(* overlapped or its own write failed (main.rs, shutdown; store.rs, Drop).    *)
THEOREM ShutdownIsDurable == Spec => []CleanShutdownDurableAlone
<1>1. IInv => CleanShutdownDurableAlone
  <2> SUFFICES ASSUME IInv, ~overlapped, phase = "stopped", ~failed PROVE disk = mem
    BY DEF CleanShutdownDurableAlone, CleanShutdownDurable
  <2>1. marking = {} /\ ~dirty
    BY DEF IInv, TypeOK, LastFlush, NoneLeft
  <2>2. \A f \in Flusher : flush[f].pc = "idle"
    BY DEF IInv, NoneLeft, Busy
  <2>3. ~Pending
    BY <2>1, <2>2 DEF Pending
  <2>4. QED
    BY <2>3 DEF IInv, NoChangeForgotten
<1>2. QED
  BY <1>1, Invariance, PTL

(* Until two flushes overlap the file only moves forward, and so do the bytes *)
(* on their way to it.                                                        *)
Forward ==
  ~overlapped =>
    /\ disk <= mem
    /\ \A f \in Flusher :
         flush[f].pc = "write" => disk <= flush[f].json /\ flush[f].json <= mem

(* A flush that works alone never takes the file back to an older state. *)
LEMMA NextForward ==
  ASSUME TypeOK, TypeOK', Alone, Forward, [Next]_vars
  PROVE  Forward'
<1>0. /\ mem \in Nat /\ disk \in Nat /\ mem' \in Nat /\ disk' \in Nat
      /\ \A f \in Flusher : flush[f].json \in Nat /\ flush'[f].json \in Nat
  BY DEF TypeOK
<1>1. ASSUME UNCHANGED <<disk, flush, overlapped>>, mem <= mem' PROVE Forward'
  BY <1>0, <1>1 DEF Forward
<1>2. ASSUME NEW m \in Mutator, Change(m) \/ MarkDirty(m) PROVE Forward'
  BY <1>0, <1>1, <1>2 DEF Change, MarkDirty
<1>3. ASSUME NEW f \in Flusher, Swap(f) PROVE Forward'
  <2>1. UNCHANGED <<mem, disk>> /\ (~overlapped' => ~overlapped)
    BY <1>3 DEF Swap
  <2>2. CASE dirty
    BY <1>3, <2>1, <2>2, SwapIsAlone DEF Forward, Busy
  <2>3. CASE ~dirty
    BY <1>0, <1>1, <1>3, <2>3, SwapFindsNothing
  <2>4. QED
    BY <2>2, <2>3
<1>4. ASSUME NEW f \in Flusher, Serialize(f) PROVE Forward'
  <2>1. UNCHANGED <<mem, disk, overlapped>> /\ flush'[f].json = mem
    BY <1>4 DEF Serialize, TypeOK
  <2>2. \A g \in Flusher \ {f} : flush'[g] = flush[g]
    BY <1>4 DEF Serialize, TypeOK
  <2>3. QED
    BY <1>0, <2>1, <2>2 DEF Forward
<1>5. ASSUME NEW f \in Flusher, WriteOk(f) \/ WriteFail(f) PROVE Forward'
  <2>1. /\ flush[f].pc = "write" /\ UNCHANGED <<mem, overlapped>>
        /\ disk' \in {disk, flush[f].json}
    BY <1>5 DEF WriteOk, WriteFail, AfterFailedWrite
  <2>2. flush'[f].pc = "idle" /\ \A g \in Flusher \ {f} : flush'[g] = flush[g]
    BY <1>5 DEF WriteOk, WriteFail, TypeOK, Idle
  <2>3. ~overlapped => \A g \in Flusher \ {f} : flush[g].pc # "write"
    BY <2>1 DEF Alone, Busy
  <2>4. ~overlapped => disk' <= mem
    BY <1>0, <2>1 DEF Forward
  <2>5. \A g \in Flusher : flush'[g].pc = "write" => overlapped
    BY <2>2, <2>3
  <2>6. QED
    BY <2>1, <2>4, <2>5 DEF Forward
<1>6. CASE Cancel \/ Drop \/ Exit \/ UNCHANGED vars
  BY <1>0, <1>1, <1>6 DEF Cancel, Drop, Exit, vars
<1>7. CASE Crash
  BY <1>0, <1>7, NobodyFlushing DEF Crash, Forward
<1>8. QED
  BY <1>2, <1>3, <1>4, <1>5, <1>6, <1>7 DEF Next, FlushStep

(* Until two flushes overlap, every step of the snapshot is a step of the     *)
(* durable map, or a stutter.                                                 *)
LEMMA StepIsDurable ==
  ASSUME TypeOK, TypeOK', Forward, [Next]_vars
  PROVE  [overlapped \/ Durable!Next]_<<mem, disk>>
<1> SUFFICES ASSUME ~overlapped PROVE [Durable!Next]_<<mem, disk>>
  OBVIOUS
<1> USE DEF Durable!Next
<1>0. mem \in Nat /\ disk \in Nat /\ mem' \in Nat /\ disk' \in Nat
  BY DEF TypeOK
<1>1. ASSUME NEW m \in Mutator, Change(m) PROVE Durable!Change
  BY <1>1 DEF Change, Durable!Change
<1>2. ASSUME NEW m \in Mutator, MarkDirty(m) PROVE UNCHANGED <<mem, disk>>
  BY <1>2 DEF MarkDirty
<1>3. ASSUME NEW f \in Flusher, Swap(f) \/ Serialize(f) PROVE UNCHANGED <<mem, disk>>
  BY <1>3 DEF Swap, Serialize
<1>4. ASSUME NEW f \in Flusher, WriteOk(f) PROVE [Durable!Next]_<<mem, disk>>
  <2>1. disk <= disk' /\ disk' <= mem /\ mem' = mem
    BY <1>4 DEF WriteOk, Forward
  <2>2. QED
    BY <1>0, <2>1 DEF Durable!Persist
<1>5. ASSUME NEW f \in Flusher, WriteFail(f) PROVE UNCHANGED <<mem, disk>>
  BY <1>5 DEF WriteFail, AfterFailedWrite
<1>6. CASE Cancel \/ Drop \/ Exit \/ UNCHANGED vars
  BY <1>6 DEF Cancel, Drop, Exit, vars
<1>7. CASE Crash
  BY <1>7 DEF Crash, Durable!Crash
<1>8. QED
  BY <1>1, <1>2, <1>3, <1>4, <1>5, <1>6, <1>7 DEF Next, FlushStep

(* Until two flushes overlap - which takes a shutdown - the snapshot          *)
(* implements the durable map: the file only ever moves forward, to a state   *)
(* the map was in, and a crash costs no more than the changes made since      *)
(* (store.rs, module documentation).                                          *)
THEOREM SnapshotImplementsDurableMap == Spec => ImplementsDurableMap
<1>1. Init => Durable!Init /\ Forward
  <2>1. ASSUME Init PROVE disk = 0 /\ mem = 0 /\ \A f \in Flusher : flush[f].pc = "idle"
    BY <2>1, NobodyFlushing DEF Init
  <2>2. QED
    BY <2>1 DEF Durable!Init, Forward
<1>2. IInv /\ IInv' /\ Forward /\ [Next]_vars => Forward'
  BY NextForward DEF IInv
<1>3. IInv /\ IInv' /\ Forward /\ [Next]_vars
        => [overlapped \/ Durable!Next]_<<mem, disk>>
  BY StepIsDurable DEF IInv
<1>4. QED
  BY <1>1, <1>2, <1>3, Invariance, PTL DEF Spec, ImplementsDurableMap
=============================================================================
