----------------------------- MODULE Standalone -----------------------------
(***************************************************************************)
(* A kv-server in standalone mode: recovery at start-up, the request       *)
(* handler run by the workers of the thread pool, the write-ahead log, and *)
(* the snapshot written at a graceful stop (server_main.cpp with wal.cpp,  *)
(* snapshot.cpp and concurrent_kv_store.cpp).                              *)
(*                                                                         *)
(* A mutation takes two locks one after the other: the handler changes the *)
(* store under the store's mutex, and only then appends to the log under   *)
(* the log's mutex.  Everything this module is about follows from what can *)
(* happen between those two steps, and from the main thread saving and     *)
(* truncating while the workers keep running.                              *)
(*                                                                         *)
(* GET, PING and a rejected or failed mutation change no state of the      *)
(* server; what a GET would return is the current value of store.          *)
(***************************************************************************)
EXTENDS KVStore, Sequences, FiniteSets

CONSTANTS
    Worker,           \* threads of the pool
    Garbled,          \* what SnapshotManager::load makes of a cut-off value
    MaxLog,           \* bound: records in the log and on their way to it
    CrashMidRequest,  \* can the process die while a mutation is under way?
    GracefulStop      \* can the server receive SIGINT or SIGTERM?

ASSUME StandaloneAssumption ==
    /\ Garbled \notin Value \cup {NotFound}
    /\ MaxLog \in Nat
    /\ CrashMidRequest \in BOOLEAN
    /\ GracefulStop \in BOOLEAN

VARIABLES
    alive,       \* is the process running?
    main,        \* where the main thread is in main()
    store,       \* ConcurrentKVStore: the map in memory
    cursor,      \* WriteAheadLog::replay: the next record to read
    pc,          \* where each worker is in the handler
    req,         \* the mutation each worker is serving
    log,         \* wal.log: the records on disk
    entryCount,  \* WriteAheadLog::entry_count_
    snapFile,    \* snapshot.dat: what SnapshotManager::load would return
    copy,        \* the map returned by ConcurrentKVStore::snapshot
    toSave,      \* keys of copy that SnapshotManager::save has yet to write
    raced,       \* history: keys mutated while another mutation was pending
    late         \* history: keys logged between the copy and the truncation

disk == <<log, snapFile>>
saving == <<copy, toSave>>
history == <<raced, late>>
vars == <<alive, main, store, cursor, pc, req, log, entryCount, snapFile,
          copy, toSave, raced, late>>

-----------------------------------------------------------------------------
Stored == Value \cup {NotFound, Garbled}

(* A mutation as it is logged: WriteAheadLog::append(cmd, key, value). *)
Mutation ==
    [cmd : {"PUT"}, key : Key, value : Value]
        \cup [cmd : {"DELETE"}, key : Key, value : {NotFound}]

NoMutation == [cmd |-> "NONE", key |-> NotFound, value |-> NotFound]

(* A record of the log; whole is FALSE while only a part of it has reached *)
(* the file, in which case its checksum does not match.                    *)
Record == [op : Mutation, whole : BOOLEAN]

(* The value its key has once a mutation has been applied. *)
Effect(op) == IF op.cmd = "PUT" THEN op.value ELSE NotFound

(* What the handler and the replay loop do to the store for a mutation. *)
Applied(m, op) ==
    IF op.cmd = "PUT" THEN Put(m, op.key, op.value) ELSE Del(m, op.key)

(* Worker w has changed the store for key k and has not finished logging. *)
Pending(w, k) == pc[w] \in {"applied", "appending"} /\ req[w].key = k

Settled(k) == \A w \in Worker : ~Pending(w, k)

(* The mutex of the log: held by the worker that is appending. *)
LogMutexFree == \A w \in Worker : pc[w] # "appending"

RoomInLog ==
    Len(log) + Cardinality({w \in Worker : pc[w] = "applied"}) < MaxLog

-----------------------------------------------------------------------------
Init ==
    /\ alive = FALSE
    /\ main = "replay"
    /\ store = EmptyMap
    /\ cursor = 1
    /\ pc = [w \in Worker |-> "idle"]
    /\ req = [w \in Worker |-> NoMutation]
    /\ log = <<>>
    /\ entryCount = 0
    /\ snapFile = EmptyMap
    /\ copy = EmptyMap
    /\ toSave = {}
    /\ raced = {}
    /\ late = {}

(* Mutant: replay believes records are numbered from zero. *)
FirstRecordZero == 0

(* The reader of the replay loop starts at the head of the file. *)
FirstRecord == 1

(* The process starts: a fresh store and a fresh log object (its counter   *)
(* starts at zero, the file is opened for appending), the snapshot loaded  *)
(* into the store.                                                         *)
Start ==
    /\ ~alive
    /\ alive' = TRUE
    /\ main' = "replay"
    /\ store' = snapFile
    /\ cursor' = FirstRecord
    /\ pc' = [w \in Worker |-> "idle"]
    /\ req' = [w \in Worker |-> NoMutation]
    /\ entryCount' = 0
    /\ copy' = EmptyMap
    /\ toSave' = {}
    /\ raced' = {}
    /\ late' = {}
    /\ UNCHANGED disk

(* One turn of the replay loop on a record whose checksum matches. *)
ReplayRecord ==
    /\ alive /\ main = "replay"
    /\ cursor <= Len(log)
    /\ log[cursor].whole
    /\ store' = Applied(store, log[cursor].op)
    /\ cursor' = cursor + 1
    /\ UNCHANGED <<alive, main, pc, req, disk, entryCount, saving, history>>

(* The loop breaks at the end of the file or at the first record that is   *)
(* not whole, which stays in the file; the server then starts serving.     *)
ReplayDone ==
    /\ alive /\ main = "replay"
    /\ cursor <= Len(log) => ~log[cursor].whole
    /\ main' = "serving"
    /\ UNCHANGED <<alive, store, cursor, pc, req, disk, entryCount, saving,
                   history>>

-----------------------------------------------------------------------------
(* The workers take requests from the first connection on until the        *)
(* process is gone; the main thread does not stop them.                    *)
Serving == alive /\ main # "replay"

Apply(w, op) ==
    /\ Serving
    /\ pc[w] = "idle"
    /\ RoomInLog
    /\ store' = Applied(store, op)
    /\ pc' = [pc EXCEPT ![w] = "applied"]
    /\ req' = [req EXCEPT ![w] = op]
    /\ raced' = IF Settled(op.key) THEN raced \ {op.key}
                                   ELSE raced \cup {op.key}
    /\ UNCHANGED <<alive, main, cursor, disk, entryCount, saving, late>>

(* The PUT branch of the handler up to the end of store.put. *)
HandlePut(w, k, v) ==
    /\ PutStatus(k, v) = "OK"
    /\ Apply(w, [cmd |-> "PUT", key |-> k, value |-> v])

(* Mutant: the DELETE branch erases the key and never logs it. *)
HandleDeleteUnlogged(w, k) ==
    /\ Serving
    /\ pc[w] = "idle"
    /\ DelStatus(store, k) = "OK"
    /\ store' = Del(store, k)
    /\ UNCHANGED <<alive, main, cursor, pc, req, disk, entryCount, saving,
                   history>>

(* The DELETE branch of the handler up to the end of store.del. *)
HandleDelete(w, k) ==
    /\ DelStatus(store, k) = "OK"
    /\ Apply(w, [cmd |-> "DELETE", key |-> k, value |-> NotFound])

(* Mutant: append does not take the mutex of the log. *)
AppendBeginUnlocked(w) ==
    /\ alive
    /\ pc[w] = "applied"
    /\ log' = Append(log, [op |-> req[w], whole |-> FALSE])
    /\ pc' = [pc EXCEPT ![w] = "appending"]
    /\ UNCHANGED <<alive, main, store, cursor, req, snapFile, entryCount,
                   saving, history>>

(* WriteAheadLog::append, from taking the mutex to the moment a first part *)
(* of the record is in the file.                                           *)
AppendBegin(w) ==
    /\ alive
    /\ pc[w] = "applied"
    /\ LogMutexFree
    /\ log' = Append(log, [op |-> req[w], whole |-> FALSE])
    /\ pc' = [pc EXCEPT ![w] = "appending"]
    /\ UNCHANGED <<alive, main, store, cursor, req, snapFile, entryCount,
                   saving, history>>

(* The rest of append: the record is flushed, the counter incremented, the *)
(* mutex released; the handler returns and the client is answered.         *)
AppendEnd(w) ==
    /\ alive
    /\ pc[w] = "appending"
    /\ log' = [log EXCEPT ![Len(log)] = [op |-> req[w], whole |-> TRUE]]
    /\ entryCount' = entryCount + 1
    /\ pc' = [pc EXCEPT ![w] = "idle"]
    /\ req' = [req EXCEPT ![w] = NoMutation]
    /\ late' = IF main \in {"saving", "truncating"}
               THEN late \cup {req[w].key}
               ELSE late \ {req[w].key}
    /\ UNCHANGED <<alive, main, store, cursor, snapFile, saving, raced>>

-----------------------------------------------------------------------------
(* start() has returned, because a signal ended the accept loop or because *)
(* the socket could not be bound: the main thread copies the store and     *)
(* opens snapshot.dat, which empties the file.                             *)
BeginSave ==
    /\ GracefulStop
    /\ alive /\ main = "serving"
    /\ main' = "saving"
    /\ copy' = store
    /\ toSave' = {k \in Key : store[k] # NotFound}
    /\ snapFile' = EmptyMap
    /\ UNCHANGED <<alive, store, cursor, pc, req, log, entryCount, history>>

(* The entries are written one after the other, in the map's order. *)
BetweenEntries == \A k \in toSave : snapFile[k] = NotFound

(* The entry of k has reached the file up to a part of its value. *)
SaveEntryBegin(k) ==
    /\ alive /\ main = "saving"
    /\ k \in toSave
    /\ BetweenEntries
    /\ snapFile' = [snapFile EXCEPT ![k] = Garbled]
    /\ UNCHANGED <<alive, main, store, cursor, pc, req, log, entryCount,
                   saving, history>>

SaveEntryEnd(k) ==
    /\ alive /\ main = "saving"
    /\ k \in toSave
    /\ snapFile[k] # NotFound
    /\ snapFile' = [snapFile EXCEPT ![k] = copy[k]]
    /\ toSave' = toSave \ {k}
    /\ UNCHANGED <<alive, main, store, cursor, pc, req, log, entryCount,
                   copy, history>>

(* Mutant: the save ends with entries still to be written. *)
EndSaveEarly ==
    /\ alive /\ main = "saving"
    /\ BetweenEntries
    /\ main' = "truncating"
    /\ UNCHANGED <<alive, store, cursor, pc, req, disk, entryCount, saving,
                   history>>

(* Every entry is written and the stream closed. *)
EndSave ==
    /\ alive /\ main = "saving"
    /\ toSave = {}
    /\ main' = "truncating"
    /\ UNCHANGED <<alive, store, cursor, pc, req, disk, entryCount, saving,
                   history>>

(* WriteAheadLog::truncate, under the mutex of the log. *)
Truncate ==
    /\ alive /\ main = "truncating"
    /\ LogMutexFree
    /\ log' = <<>>
    /\ entryCount' = 0
    /\ main' = "truncated"
    /\ UNCHANGED <<alive, store, cursor, pc, req, snapFile, saving, history>>

(* The process ends: killed at any moment, or by returning from main once  *)
(* the log is truncated.  What was in memory is kept, unread, until the    *)
(* next start so that the properties can compare it with the disk.         *)
Crash ==
    /\ alive
    /\ CrashMidRequest \/ \A w \in Worker : pc[w] = "idle"
    /\ alive' = FALSE
    /\ UNCHANGED <<main, store, cursor, pc, req, disk, entryCount, saving,
                   history>>

-----------------------------------------------------------------------------
Recover == ReplayRecord \/ ReplayDone

Mutate(w) ==
    \/ \E k \in Key, v \in Value : HandlePut(w, k, v)
    \/ \E k \in Key : HandleDelete(w, k)
    \/ AppendBegin(w)
    \/ AppendEnd(w)

Shutdown ==
    \/ BeginSave
    \/ \E k \in Key : SaveEntryBegin(k) \/ SaveEntryEnd(k)
    \/ EndSave
    \/ Truncate

Next ==
    \/ Start
    \/ Recover
    \/ \E w \in Worker : Mutate(w)
    \/ Shutdown
    \/ Crash

Spec == Init /\ [][Next]_vars

-----------------------------------------------------------------------------
(* Every variable holds a value of its type; the replay position is a      *)
(* record of the log or one past its end (wal.cpp, replay).                *)
TypeOK ==
    /\ alive \in BOOLEAN
    /\ main \in {"replay", "serving", "saving", "truncating", "truncated"}
    /\ store \in [Key -> Stored]
    /\ cursor \in Nat /\ (main = "replay" => cursor \in 1 .. Len(log) + 1)
    /\ pc \in [Worker -> {"idle", "applied", "appending"}]
    /\ req \in [Worker -> Mutation \cup {NoMutation}]
    /\ \A w \in Worker : pc[w] # "idle" => req[w] \in Mutation
    /\ log \in Seq(Record)
    /\ entryCount \in Nat
    /\ snapFile \in [Key -> Stored]
    /\ copy \in [Key -> Stored]
    /\ toSave \in SUBSET Key
    /\ raced \in SUBSET Key
    /\ late \in SUBSET Key

(* Record i of log l is reached by the replay loop: it and every record    *)
(* before it are whole.                                                    *)
Readable(l, i) == \A j \in 1 .. i : l[j].whole

(* Replaying the first n records of log l over the map base leaves k with  *)
(* value x.  This is the loop's result stated without the loop: the last   *)
(* readable record for k decides, and without one the map does.            *)
ReplaysTo(l, base, n, k, x) ==
    \/ \E i \in 1 .. n :
          /\ Readable(l, i)
          /\ l[i].op.key = k
          /\ x = Effect(l[i].op)
          /\ \A j \in i + 1 .. n : Readable(l, j) => l[j].op.key # k
    \/ /\ \A i \in 1 .. n : Readable(l, i) => l[i].op.key # k
       /\ x = base[k]

(* A restart, now, would give key k the value x. *)
Recovers(k, x) == ReplaysTo(log, snapFile, Len(log), k, x)

(* Only the last record of the log may be a torn one. *)
NoTornInside == \A i \in 1 .. Len(log) - 1 : log[i].whole

(* What recovery guarantees.  Once every mutation of a key has been        *)
(* answered, a restart gives the key the value it has, or had, in memory:  *)
(* while serving, after the snapshot is complete, after the log is         *)
(* truncated, and when the process has died in any of these.  The          *)
(* exceptions are the four windows the code leaves open: two mutations of  *)
(* the key overlapped (server_main.cpp:115-116), a record was appended     *)
(* behind a torn one (wal.cpp:79-83), the mutation was logged between the  *)
(* copy and the truncation (server_main.cpp:160-161), or the process died  *)
(* while snapshot.dat was being rewritten (snapshot.cpp:25).               *)
RecoveryExact ==
    \A k \in Key :
        ( /\ main \notin {"replay", "saving"}
          /\ Settled(k)
          /\ k \notin raced
          /\ main = "truncated" => k \notin late
          /\ NoTornInside )
        => Recovers(k, store[k])

(* A process that dies while snapshot.dat is being rewritten can lose what *)
(* only the old snapshot held, but never brings back an overwritten value: *)
(* a key comes back with its last value, not at all, or, for at most one   *)
(* key, with a value cut short (snapshot.cpp:25-37 and 56-61).             *)
InterruptedSaveNeverStale ==
    main = "saving" /\ NoTornInside =>
        \E torn \in Key : \A k \in Key :
            Settled(k) /\ k \notin raced =>
                \/ Recovers(k, store[k])
                \/ Recovers(k, NotFound)
                \/ k = torn /\ Recovers(k, Garbled)

(* Appends never interleave: while a worker is inside append, the record   *)
(* at the end of the log is its own and still incomplete, and no other     *)
(* worker is inside append (the mutex taken at wal.cpp:31).                *)
AppendOwnsTail ==
    \A w \in Worker : pc[w] = "appending" =>
        /\ log # <<>>
        /\ log[Len(log)] = [op |-> req[w], whole |-> FALSE]
        /\ \A u \in Worker \ {w} : pc[u] # "appending"

(* Truncating the log takes nothing from the disk that the snapshot does   *)
(* not give back: for a settled key outside the two windows above, what a  *)
(* restart recovers is the same before and after WriteAheadLog::truncate   *)
(* (server_main.cpp:160-161).                                              *)
TruncationLosesNothing ==
    [][ log # <<>> /\ log' = <<>> =>
        \A k \in Key, x \in Stored :
            ( /\ Settled(k)
              /\ k \notin raced \cup late
              /\ NoTornInside
              /\ Recovers(k, x) )
            => (Recovers(k, x))' ]_vars

-----------------------------------------------------------------------------
(* What the documentation says, without the exceptions of RecoveryExact.   *)

(* "No committed data lost across crashes" (docs/architecture.md:14): when *)
(* the process is gone, a restart gives every key whose mutations had all  *)
(* been answered the value it had in memory.                               *)
NoCommittedDataLost ==
    \A k \in Key :
        (~alive /\ main # "replay" /\ Settled(k)) => Recovers(k, store[k])
=============================================================================
