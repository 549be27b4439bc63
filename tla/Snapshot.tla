------------------------------ MODULE Snapshot ------------------------------
(* The debounced snapshot of a registry (store.rs: mark_dirty, flush,         *)
(* flush_loop, Drop; relationships.rs has the same code for the TSP           *)
(* relationships): mutators, the flusher task, the main task's flush at       *)
(* shutdown (main.rs), failed writes and crashes.  The map is abstracted to   *)
(* the number of changes made to it.                                          *)
EXTENDS Integers, FiniteSets

CONSTANTS
  Mutator,      \* request handlers and the sweep
  Flusher,      \* tasks that call flush: the loop, and at shutdown main
  Loop, Main,   \* two of them
  MaxChanges, MaxCrashes    \* bounds of the model

ASSUME SnapshotAssumption ==
  /\ Loop \in Flusher /\ Flusher \subseteq {Loop, Main} /\ Loop # Main
  /\ MaxChanges \in Nat /\ MaxCrashes \in Nat

VARIABLES
  mem,         \* state of the map: changes made so far
  marking,     \* mutators between the unlock and mark_dirty
  dirty,       \* AtomicBool: set by every mutation, cleared by a flush
  disk,        \* state in the snapshot file
  flush,       \* Flusher -> where it is in flush, and the bytes it serialised
  phase,       \* running, stopping (cancelled), dropped (the final flush), stopped
  final,       \* who still owes a last flush: main, then Drop
  overlapped,  \* history of this process: two flushes were under way together
  failed,      \* history of this process: a write failed during the shutdown
  crashes      \* history: crashes so far

vars == <<mem, marking, dirty, disk, flush, phase, final, overlapped, failed, crashes>>

Idle == [pc |-> "idle", json |-> 0]
Busy(f) == flush[f].pc # "idle"

(* Types, and: once the tasks have ended no mutator is left to mark and no    *)
(* flusher but the final one is at work.                                      *)
TypeOK ==
  /\ mem \in Nat /\ disk \in Nat
  /\ marking \subseteq Mutator
  /\ dirty \in BOOLEAN
  /\ flush \in [Flusher -> [pc : {"idle", "serialize", "write"}, json : Nat]]
  /\ phase \in {"running", "stopping", "dropped", "stopped"}
  /\ final \subseteq Flusher
  /\ overlapped \in BOOLEAN /\ failed \in BOOLEAN
  /\ crashes \in Nat
  /\ phase \in {"dropped", "stopped"} => marking = {} /\ \A f \in Flusher \ {Loop} : ~Busy(f)

Init ==
  /\ mem = 0 /\ disk = 0
  /\ marking = {}
  /\ dirty = FALSE
  /\ flush = [f \in Flusher |-> Idle]
  /\ phase = "running"
  /\ final = {}
  /\ overlapped = FALSE /\ failed = FALSE
  /\ crashes = 0
-----------------------------------------------------------------------------
(* A mutation in the write section; the flag is set after the lock is free.   *)
Change(m) ==
  /\ phase \in {"running", "stopping"}
  /\ m \notin marking
  /\ mem < MaxChanges
  /\ mem' = mem + 1
  /\ marking' = marking \cup {m}
  /\ UNCHANGED <<dirty, disk, flush, phase, final, overlapped, failed, crashes>>

MarkDirty(m) ==
  /\ m \in marking
  /\ marking' = marking \ {m}
  /\ dirty' = TRUE
  /\ UNCHANGED <<mem, disk, flush, phase, final, overlapped, failed, crashes>>
-----------------------------------------------------------------------------
(* When a flusher calls flush: the loop at a tick, and when it sees the       *)
(* cancellation - select! takes either when both are ready, and the runtime   *)
(* may drop the task before it sees anything; main once after cancelling;     *)
(* Drop when all others ended.                                                *)
Calls(f) ==
  \/ f = Loop /\ phase \in {"running", "stopping"}
  \/ f \in final

(* dirty.swap(false): the one that finds it set does the work. *)
Swap(f) ==
  /\ ~Busy(f)
  /\ Calls(f)
  /\ final' = final \ {f}
  /\ dirty' = FALSE
  /\ IF dirty
     THEN /\ flush' = [flush EXCEPT ![f].pc = "serialize"]
          /\ overlapped' = (overlapped \/ \E g \in Flusher \ {f} : Busy(g))
     ELSE UNCHANGED <<flush, overlapped>>
  /\ UNCHANGED <<mem, marking, disk, phase, failed, crashes>>

(* Serialise the map under the read lock. *)
Serialize(f) ==
  /\ flush[f].pc = "serialize"
  /\ flush' = [flush EXCEPT ![f] = [pc |-> "write", json |-> mem]]
  /\ UNCHANGED <<mem, marking, dirty, disk, phase, final, overlapped, failed, crashes>>

(* write_owner_only_atomic: a temporary file renamed into place, so the       *)
(* snapshot is replaced as a whole or not at all.                             *)
WriteOk(f) ==
  /\ flush[f].pc = "write"
  /\ disk' = flush[f].json
  /\ flush' = [flush EXCEPT ![f] = Idle]
  /\ UNCHANGED <<mem, marking, dirty, phase, final, overlapped, failed, crashes>>

(* "Put the flag back so the next tick retries." *)
AfterFailure_Forget == dirty
AfterFailure == TRUE

(* A failed write touched only its temporary file. *)
AfterFailedWrite_InPlace == 0
AfterFailedWrite == disk

WriteFail(f) ==
  /\ flush[f].pc = "write"
  /\ dirty' = AfterFailure
  /\ disk' = AfterFailedWrite
  /\ flush' = [flush EXCEPT ![f] = Idle]
  /\ failed' = (failed \/ phase # "running")
  /\ UNCHANGED <<mem, marking, phase, final, overlapped, crashes>>
-----------------------------------------------------------------------------
(* main: the servers have stopped; the timers are cancelled and main flushes. *)
Cancel ==
  /\ phase = "running"
  /\ phase' = "stopping"
  /\ final' = Flusher \ {Loop}
  /\ UNCHANGED <<mem, marking, dirty, disk, flush, overlapped, failed, crashes>>

(* Every task has ended: the last reference goes, and Drop flushes. *)
TasksEnded_NoWait == final = {}
TasksEnded == final = {} /\ marking = {} /\ \A f \in Flusher : ~Busy(f)

FlushOnDrop_None == {}
FlushOnDrop == {Loop}

Drop ==
  /\ phase = "stopping" /\ TasksEnded
  /\ phase' = "dropped"
  /\ final' = FlushOnDrop
  /\ UNCHANGED <<mem, marking, dirty, disk, flush, overlapped, failed, crashes>>

Exit ==
  /\ phase = "dropped" /\ final = {}
  /\ \A f \in Flusher : ~Busy(f)
  /\ phase' = "stopped"
  /\ UNCHANGED <<mem, marking, dirty, disk, flush, final, overlapped, failed, crashes>>

(* The process dies at any point and starts again from the file; the flag     *)
(* starts clear (open_with_limits).                                           *)
Crash ==
  /\ crashes < MaxCrashes
  /\ crashes' = crashes + 1
  /\ mem' = disk
  /\ marking' = {}
  /\ dirty' = FALSE
  /\ flush' = [f \in Flusher |-> Idle]
  /\ phase' = "running"
  /\ final' = {}
  /\ overlapped' = FALSE /\ failed' = FALSE
  /\ UNCHANGED disk

FlushStep(f) == Swap(f) \/ Serialize(f) \/ WriteOk(f) \/ WriteFail(f)

Next ==
  \/ \E m \in Mutator : Change(m) \/ MarkDirty(m)
  \/ \E f \in Flusher : FlushStep(f)
  \/ Cancel \/ Drop \/ Exit \/ Crash

Spec == Init /\ [][Next]_vars

(* The ticker of flush_loop never stops, a mutator that released the lock     *)
(* runs on, and the disk does not fail every write for ever.                  *)
Fairness ==
  /\ \A m \in Mutator : WF_vars(MarkDirty(m))
  /\ WF_vars(Swap(Loop)) /\ WF_vars(Serialize(Loop))
  /\ SF_vars(WriteOk(Loop))

FairSpec == Spec /\ Fairness
-----------------------------------------------------------------------------
(* Until two flushes overlap - which takes a shutdown - the snapshot is a     *)
(* DurableMap: every step is one of its steps, or changes nothing it sees.    *)
Durable == INSTANCE DurableMap
ImplementsDurableMap == Durable!Init /\ [][overlapped \/ Durable!Next]_<<mem, disk>>

(* The change is known to someone: the flag, a mutator about to set it, or    *)
(* the flush under way that has yet to read the map or has read it whole.     *)
Pending ==
  \/ dirty
  \/ marking # {}
  \/ \E f \in Flusher :
       flush[f].pc = "serialize" \/ (flush[f].pc = "write" /\ flush[f].json = mem)

(* Debouncing never loses track of a change: while the file is behind the     *)
(* map, someone will write it - whatever failed or raced before.              *)
NoChangeForgotten == ~overlapped => (disk = mem \/ Pending)

(* A clean shutdown is durable (main.rs, "take one last snapshot so a clean   *)
(* shutdown is durable even if the change landed inside the final flush       *)
(* window").                                                                  *)
CleanShutdownDurable == phase = "stopped" /\ ~failed => disk = mem

(* It is, unless two flushes overlapped (or its own write failed). *)
CleanShutdownDurableAlone == ~overlapped => CleanShutdownDurable

(* Every change reaches the file, unless the process crashes or stops first.  *)
EventuallyDurable ==
  \A v \in 1..MaxChanges : mem >= v ~> (disk >= v \/ mem < v \/ phase # "running")
=============================================================================
