-------------------------- MODULE StandaloneProofs --------------------------
(***************************************************************************)
(* Proofs about Standalone, for any number of workers, keys and values and *)
(* a log of any length.  RecoveryExact is not inductive: it says nothing   *)
(* of a server that is replaying, of a key whose mutation is not logged    *)
(* yet, or of the copy that is being saved.  IndInv adds those parts.      *)
(***************************************************************************)
EXTENDS Standalone, TLAPS

(* A mutation that passed the size checks; replay passes them again. *)
Legal(op) == op.cmd = "PUT" => PutStatus(op.key, op.value) = "OK"

LegalOps ==
    /\ \A i \in 1 .. Len(log) : Legal(log[i].op)
    /\ \A w \in Worker : pc[w] # "idle" => Legal(req[w])

(* The replay loop has applied the records before the cursor, and only the *)
(* main thread is running.                                                 *)
ReplayPrefix ==
    main = "replay" =>
        /\ \A w \in Worker : pc[w] = "idle"
        /\ \A i \in 1 .. cursor - 1 : log[i].whole
        /\ \A k \in Key : ReplaysTo(log, snapFile, cursor - 1, k, store[k])

(* A mutation that overlaps no other of its key is the last to have        *)
(* changed that key.                                                       *)
PendingUnique ==
    \A k \in Key \ raced : \A w \in Worker : Pending(w, k) =>
        /\ store[k] = Effect(req[w])
        /\ \A u \in Worker \ {w} : ~Pending(u, k)

(* The map a restart would start from once the save under way is done. *)
Base == IF main = "saving" THEN copy ELSE snapFile

Exact ==
    main # "replay" /\ NoTornInside =>
        \A k \in Key \ raced :
            Settled(k) /\ (main = "truncated" => k \notin late) =>
                ReplaysTo(log, Base, Len(log), k, store[k])

(* Until the log is truncated the copy is out of date only for keys with a *)
(* mutation under way or logged since.                                     *)
CopyFresh ==
    main \in {"saving", "truncating"} =>
        \A k \in Key \ (raced \cup late) : Settled(k) => copy[k] = store[k]

(* How much of the copy is in snapshot.dat. *)
SaveProgress ==
    /\ main = "saving" =>
        /\ \A k \in Key \ toSave : snapFile[k] = copy[k]
        /\ \A k \in toSave : snapFile[k] \in {NotFound, Garbled}
        /\ \A j, k \in toSave :
              snapFile[j] = Garbled /\ snapFile[k] = Garbled => j = k
    /\ main = "truncating" => \A k \in Key : snapFile[k] = copy[k]

IndInv ==
    /\ TypeOK
    /\ AppendOwnsTail
    /\ LegalOps
    /\ ReplayPrefix
    /\ PendingUnique
    /\ Exact
    /\ CopyFresh
    /\ SaveProgress

-----------------------------------------------------------------------------
(* What the log looks like after the first part of append. *)
LEMMA AppendTorn ==
    ASSUME NEW l \in Seq(Record), NEW op \in Mutation
    PROVE  LET m == Append(l, [op |-> op, whole |-> FALSE])
           IN  /\ m \in Seq(Record)
               /\ Len(m) = Len(l) + 1
               /\ \A i \in 1 .. Len(l) : m[i] = l[i]
               /\ m[Len(l) + 1] = [op |-> op, whole |-> FALSE]
               /\ m # <<>>
  BY DEF Record

(* What the log looks like after the rest of append. *)
LEMMA FinishTail ==
    ASSUME NEW l \in Seq(Record), NEW op \in Mutation, l # <<>>
    PROVE  LET m == [l EXCEPT ![Len(l)] = [op |-> op, whole |-> TRUE]]
           IN  /\ m \in Seq(Record)
               /\ Len(m) = Len(l)
               /\ \A i \in 1 .. Len(l) - 1 : m[i] = l[i]
               /\ m[Len(l)] = [op |-> op, whole |-> TRUE]
               /\ m # <<>>
  <1> DEFINE r == [op |-> op, whole |-> TRUE]
             m == [l EXCEPT ![Len(l)] = r]
  <1>0. Len(l) \in Nat /\ Len(l) >= 1
    OBVIOUS
  <1>1. l \in [1 .. Len(l) -> Record] /\ Len(l) \in 1 .. Len(l)
    BY <1>0
  <1>2. r \in Record
    BY DEF Record
  <1> HIDE DEF r
  <1>3. m \in [1 .. Len(l) -> Record]
    BY <1>1, <1>2
  <1>4. m \in Seq(Record) /\ Len(m) = Len(l)
    BY <1>0, <1>3
  <1>5. ASSUME NEW i \in 1 .. Len(l) - 1
        PROVE  m[i] = l[i]
    <2>1. i \in 1 .. Len(l) /\ i # Len(l)
      BY <1>0
    <2> QED
      BY <1>1, <2>1
  <1>6. m[Len(l)] = r
    BY <1>1
  <1>7. m # <<>>
    BY <1>0, <1>4
  <1> QED
    BY <1>4, <1>5, <1>6, <1>7 DEF r

(* A torn record at the end of the log does not change what is recovered. *)
LEMMA TornTailIgnored ==
    ASSUME NEW l \in Seq(Record), NEW m \in Seq(Record), NEW base,
           NEW k \in Key, NEW x,
           Len(m) = Len(l) + 1,
           \A i \in 1 .. Len(l) : m[i] = l[i],
           m[Len(l) + 1].whole = FALSE,
           ReplaysTo(l, base, Len(l), k, x)
    PROVE  ReplaysTo(m, base, Len(m), k, x)
  <1>1. Len(l) \in Nat
    OBVIOUS
  <1>2. \A i \in 1 .. Len(l) : Readable(m, i) <=> Readable(l, i)
    BY <1>1 DEF Readable
  <1>3. ~Readable(m, Len(m))
    BY <1>1 DEF Readable
  <1> QED
    BY <1>1, <1>2, <1>3 DEF ReplaysTo

(* Finishing a record of another key does not change what is recovered. *)
LEMMA OtherKeyIgnored ==
    ASSUME NEW l \in Seq(Record), NEW m \in Seq(Record), NEW base,
           NEW k \in Key, NEW x,
           l # <<>>,
           Len(m) = Len(l),
           \A i \in 1 .. Len(l) - 1 : m[i] = l[i],
           l[Len(l)].whole = FALSE,
           m[Len(l)].op.key # k,
           ReplaysTo(l, base, Len(l), k, x)
    PROVE  ReplaysTo(m, base, Len(m), k, x)
  <1>1. Len(l) \in Nat /\ Len(l) >= 1
    OBVIOUS
  <1>2. \A i \in 1 .. Len(l) - 1 : Readable(m, i) <=> Readable(l, i)
    BY <1>1 DEF Readable
  <1>3. ~Readable(l, Len(l))
    BY <1>1 DEF Readable
  <1> QED
    BY <1>1, <1>2, <1>3 DEF ReplaysTo

(* A log of whole records recovers the effect of its last one. *)
LEMMA LastRecordDecides ==
    ASSUME NEW l \in Seq(Record), NEW base, NEW k \in Key,
           l # <<>>,
           \A i \in 1 .. Len(l) : l[i].whole,
           l[Len(l)].op.key = k
    PROVE  ReplaysTo(l, base, Len(l), k, Effect(l[Len(l)].op))
  <1>1. Len(l) \in Nat /\ Len(l) >= 1
    OBVIOUS
  <1>2. Readable(l, Len(l))
    BY <1>1 DEF Readable
  <1> QED
    BY <1>1, <1>2 DEF ReplaysTo

(* Recovery gives a key one value. *)
LEMMA ReplayUnique ==
    ASSUME NEW l \in Seq(Record), NEW base, NEW k \in Key, NEW x, NEW y,
           ReplaysTo(l, base, Len(l), k, x), ReplaysTo(l, base, Len(l), k, y)
    PROVE  x = y
  <1>1. Len(l) \in Nat
    OBVIOUS
  <1> QED
    BY <1>1 DEF ReplaysTo

(* The effect of one mutation on the store. *)
LEMMA AppliedEffect ==
    ASSUME NEW m \in [Key -> Stored], NEW op \in Mutation, Legal(op)
    PROVE  /\ Applied(m, op) \in [Key -> Stored]
           /\ Applied(m, op)[op.key] = Effect(op)
           /\ \A k \in Key \ {op.key} : Applied(m, op)[k] = m[k]
  <1>1. CASE op.cmd = "PUT"
    BY <1>1 DEF Mutation, Legal, Applied, Put, Effect, Stored
  <1>2. CASE op.cmd # "PUT"
    BY <1>2 DEF Mutation, Legal, Applied, Del, Effect, Stored
  <1> QED
    BY <1>1, <1>2

(* One turn of the replay loop. *)
LEMMA ReplayTurn ==
    ASSUME NEW l \in Seq(Record), NEW base, NEW c \in 1 .. Len(l),
           NEW k \in Key, NEW x, NEW y,
           \A i \in 1 .. c : l[i].whole,
           ReplaysTo(l, base, c - 1, k, x),
           y = IF l[c].op.key = k THEN Effect(l[c].op) ELSE x
    PROVE  ReplaysTo(l, base, c, k, y)
  <1>1. Len(l) \in Nat /\ c \in Nat /\ c >= 1
    OBVIOUS
  <1>2. \A i \in 1 .. c : Readable(l, i)
    BY <1>1 DEF Readable
  <1>3. CASE l[c].op.key = k
    BY <1>1, <1>2, <1>3 DEF ReplaysTo
  <1>4. CASE l[c].op.key # k
    BY <1>1, <1>2, <1>4 DEF ReplaysTo
  <1> QED
    BY <1>3, <1>4

(* The replay loop may stop at a torn record. *)
LEMMA ReplayStops ==
    ASSUME NEW l \in Seq(Record), NEW base, NEW c \in 1 .. Len(l) + 1,
           NEW k \in Key, NEW x,
           c <= Len(l) => ~l[c].whole,
           ReplaysTo(l, base, c - 1, k, x)
    PROVE  ReplaysTo(l, base, Len(l), k, x)
  <1>1. Len(l) \in Nat /\ c \in Nat /\ c >= 1
    OBVIOUS
  <1>2. \A i \in c .. Len(l) : ~Readable(l, i)
    BY <1>1 DEF Readable
  <1> QED
    BY <1>1, <1>2 DEF ReplaysTo

-----------------------------------------------------------------------------
(* Each action preserves the inductive invariant. *)

LEMMA InitEstablishes == Init => IndInv
  <1> SUFFICES ASSUME Init PROVE IndInv
    OBVIOUS
  <1>1. TypeOK
    <2>1. store \in [Key -> Stored] /\ snapFile \in [Key -> Stored]
          /\ copy \in [Key -> Stored]
      BY DEF Init, EmptyMap, Stored
    <2>2. log \in Seq(Record) /\ cursor \in 1 .. Len(log) + 1
      BY DEF Init
    <2>3. pc \in [Worker -> {"idle", "applied", "appending"}]
          /\ req \in [Worker -> Mutation \cup {NoMutation}]
          /\ \A w \in Worker : pc[w] = "idle"
      BY DEF Init
    <2> QED
      BY <2>1, <2>2, <2>3 DEF Init, TypeOK
  <1>2. AppendOwnsTail /\ LegalOps /\ PendingUnique
    BY DEF Init, AppendOwnsTail, LegalOps, PendingUnique, Pending
  <1>3. ReplayPrefix
    BY DEF Init, ReplayPrefix, ReplaysTo, EmptyMap
  <1>4. Exact /\ CopyFresh /\ SaveProgress
    BY DEF Init, Exact, CopyFresh, SaveProgress
  <1> QED
    BY <1>1, <1>2, <1>3, <1>4 DEF IndInv

LEMMA StartKeeps == IndInv /\ Start => IndInv'
  <1> SUFFICES ASSUME IndInv, Start PROVE IndInv'
    OBVIOUS
  <1> USE DEF IndInv, Start, disk
  <1>1. TypeOK'
    BY DEF TypeOK, FirstRecord, EmptyMap, Stored
  <1>2. AppendOwnsTail' /\ LegalOps' /\ PendingUnique'
    BY DEF AppendOwnsTail, LegalOps, PendingUnique, Pending
  <1>3. ReplayPrefix'
    BY DEF ReplayPrefix, ReplaysTo, FirstRecord
  <1>4. Exact' /\ CopyFresh' /\ SaveProgress'
    BY DEF Exact, CopyFresh, SaveProgress
  <1> QED
    BY <1>1, <1>2, <1>3, <1>4

LEMMA ReplayRecordKeeps == IndInv /\ ReplayRecord => IndInv'
  <1> SUFFICES ASSUME IndInv, ReplayRecord PROVE IndInv'
    OBVIOUS
  <1> USE DEF IndInv, ReplayRecord, disk, saving, history
  <1> DEFINE op == log[cursor].op
  <1>1. cursor \in 1 .. Len(log) /\ cursor \in Nat
    BY DEF TypeOK
  <1>2. op \in Mutation /\ Legal(op)
    <2>1. log[cursor] \in Record
      BY <1>1 DEF TypeOK
    <2> QED
      BY <1>1, <2>1 DEF LegalOps, Record
  <1>3. store \in [Key -> Stored]
    BY DEF TypeOK
  <1>4. /\ store' \in [Key -> Stored]
        /\ store'[op.key] = Effect(op)
        /\ \A k \in Key \ {op.key} : store'[k] = store[k]
    BY <1>2, <1>3, AppliedEffect
  <1>5. TypeOK'
    BY <1>1, <1>4 DEF TypeOK
  <1>6. AppendOwnsTail' /\ LegalOps'
    BY DEF AppendOwnsTail, LegalOps
  <1>7. PendingUnique'
    BY DEF ReplayPrefix, PendingUnique, Pending
  <1>8. ReplayPrefix'
    <2>1. \A i \in 1 .. cursor : log[i].whole
      BY <1>1 DEF ReplayPrefix
    <2>2. ASSUME NEW k \in Key
          PROVE  ReplaysTo(log, snapFile, cursor, k, store'[k])
      <3>1. ReplaysTo(log, snapFile, cursor - 1, k, store[k])
        BY DEF ReplayPrefix
      <3>2. store'[k] = IF op.key = k THEN Effect(op) ELSE store[k]
        BY <1>4
      <3>3. log \in Seq(Record)
        BY DEF TypeOK
      <3> QED
        BY <1>1, <2>1, <3>1, <3>2, <3>3, ReplayTurn
    <2>3. cursor' - 1 = cursor
      BY <1>1
    <2> QED
      BY <2>1, <2>2, <2>3 DEF ReplayPrefix
  <1>9. Exact' /\ CopyFresh' /\ SaveProgress'
    BY DEF Exact, CopyFresh, SaveProgress
  <1> QED
    BY <1>5, <1>6, <1>7, <1>8, <1>9

LEMMA ReplayDoneKeeps == IndInv /\ ReplayDone => IndInv'
  <1> SUFFICES ASSUME IndInv, ReplayDone PROVE IndInv'
    OBVIOUS
  <1> USE DEF IndInv, ReplayDone, disk, saving, history
  <1>1. TypeOK'
    BY DEF TypeOK
  <1>2. AppendOwnsTail' /\ LegalOps' /\ ReplayPrefix'
    BY DEF AppendOwnsTail, LegalOps, ReplayPrefix
  <1>3. PendingUnique'
    BY DEF PendingUnique, Pending
  <1>4. Exact'
    <2>1. log \in Seq(Record) /\ cursor \in 1 .. Len(log) + 1
      BY DEF TypeOK
    <2>2. \A k \in Key : ReplaysTo(log, snapFile, Len(log), k, store[k])
      BY <2>1, ReplayStops DEF ReplayPrefix
    <2> QED
      BY <2>2 DEF Exact, Base
  <1>5. CopyFresh' /\ SaveProgress'
    BY DEF CopyFresh, SaveProgress
  <1> QED
    BY <1>1, <1>2, <1>3, <1>4, <1>5

LEMMA ApplyKeeps ==
    ASSUME IndInv, NEW w \in Worker, NEW op \in Mutation, Legal(op), Apply(w, op)
    PROVE  IndInv'
  <1> USE DEF IndInv, Apply, Serving, disk, saving
  <1>1. op.key \in Key
    BY DEF Mutation
  <1>2. /\ store' \in [Key -> Stored]
        /\ store'[op.key] = Effect(op)
        /\ \A k \in Key \ {op.key} : store'[k] = store[k]
    BY AppliedEffect DEF TypeOK
  <1>3. /\ pc'[w] = "applied" /\ req'[w] = op
        /\ \A u \in Worker \ {w} : pc'[u] = pc[u] /\ req'[u] = req[u]
    BY DEF TypeOK
  <1>4. \A k \in Key \ {op.key} : \A u \in Worker : Pending(u, k)' <=> Pending(u, k)
    BY <1>3 DEF Pending
  <1>5. Pending(w, op.key)' /\ \A u \in Worker \ {w} : Pending(u, op.key)' <=> Pending(u, op.key)
    BY <1>3 DEF Pending
  <1>6. \A k \in Key : Settled(k)' => k # op.key /\ Settled(k)
    BY <1>4, <1>5 DEF Settled
  <1>7. \A k \in Key \ {op.key} : k \in raced' <=> k \in raced
    BY <1>1 DEF TypeOK
  <1>8. TypeOK'
    <2>1. pc' \in [Worker -> {"idle", "applied", "appending"}]
      BY DEF TypeOK
    <2>2. req' \in [Worker -> Mutation \cup {NoMutation}]
      BY DEF TypeOK
    <2>3. \A u \in Worker : pc'[u] # "idle" => req'[u] \in Mutation
      BY <1>3 DEF TypeOK
    <2>4. raced' \in SUBSET Key
      BY <1>1 DEF TypeOK
    <2> QED
      BY <1>2, <2>1, <2>2, <2>3, <2>4 DEF TypeOK
  <1>9. AppendOwnsTail'
    BY <1>3 DEF AppendOwnsTail
  <1>10. LegalOps'
    BY <1>3 DEF LegalOps
  <1>11. ReplayPrefix'
    BY DEF ReplayPrefix
  <1>12. PendingUnique'
    <2> SUFFICES ASSUME NEW k \in Key \ raced', NEW u \in Worker, Pending(u, k)'
                 PROVE  /\ store'[k] = Effect(req'[u])
                        /\ \A v \in Worker \ {u} : ~Pending(v, k)'
      BY DEF PendingUnique
    <2>1. CASE k # op.key
      <3>1. k \in Key \ raced /\ Pending(u, k) /\ store'[k] = store[k]
        BY <1>2, <1>4, <1>7, <2>1
      <3>2. req'[u] = req[u]
        BY <1>3, <2>1 DEF Pending
      <3> QED
        BY <1>4, <2>1, <3>1, <3>2 DEF PendingUnique
    <2>2. CASE k = op.key
      <3>1. Settled(k)
        BY <2>2
      <3>2. u = w
        BY <1>5, <2>2, <3>1 DEF Settled
      <3> QED
        BY <1>2, <1>3, <1>5, <2>2, <3>1, <3>2 DEF Settled
    <2> QED
      BY <2>1, <2>2
  <1>13. Exact'
    BY <1>2, <1>6, <1>7 DEF Exact, Base, NoTornInside
  <1>14. CopyFresh'
    BY <1>2, <1>6, <1>7 DEF CopyFresh
  <1>15. SaveProgress'
    BY DEF SaveProgress
  <1> QED
    BY <1>8, <1>9, <1>10, <1>11, <1>12, <1>13, <1>14, <1>15

LEMMA HandleKeeps ==
    ASSUME IndInv, NEW w \in Worker, NEW k \in Key,
           HandleDelete(w, k) \/ \E v \in Value : HandlePut(w, k, v)
    PROVE  IndInv'
  <1>1. CASE HandleDelete(w, k)
    <2> DEFINE op == [cmd |-> "DELETE", key |-> k, value |-> NotFound]
    <2>1. op \in Mutation /\ Legal(op)
      BY DEF Mutation, Legal
    <2> QED
      BY <1>1, <2>1, ApplyKeeps DEF HandleDelete
  <1>2. ASSUME NEW v \in Value, HandlePut(w, k, v)
        PROVE  IndInv'
    <2> DEFINE op == [cmd |-> "PUT", key |-> k, value |-> v]
    <2>1. op \in Mutation /\ Legal(op)
      BY <1>2 DEF Mutation, Legal, HandlePut
    <2> QED
      BY <1>2, <2>1, ApplyKeeps DEF HandlePut
  <1> QED
    BY <1>1, <1>2

LEMMA AppendBeginKeeps ==
    ASSUME IndInv, NEW w \in Worker, AppendBegin(w)
    PROVE  IndInv'
  <1> USE DEF IndInv, AppendBegin, saving, history
  <1>1. log \in Seq(Record) /\ req[w] \in Mutation /\ Len(log) \in Nat
    BY DEF TypeOK
  <1>2. /\ log' \in Seq(Record)
        /\ Len(log') = Len(log) + 1
        /\ \A i \in 1 .. Len(log) : log'[i] = log[i]
        /\ log'[Len(log) + 1] = [op |-> req[w], whole |-> FALSE]
        /\ log' # <<>>
    BY <1>1, AppendTorn
  <1>3. /\ pc'[w] = "appending"
        /\ \A u \in Worker \ {w} : pc'[u] = pc[u] /\ pc'[u] # "appending"
    BY DEF TypeOK, LogMutexFree
  <1>4. \A k \in Key : \A u \in Worker : Pending(u, k)' <=> Pending(u, k)
    BY <1>3 DEF Pending
  <1>5. \A k \in Key : Settled(k)' <=> Settled(k)
    BY <1>4 DEF Settled
  <1>6. main # "replay"
    BY DEF ReplayPrefix
  <1>7. TypeOK'
    BY <1>2, <1>3, <1>6 DEF TypeOK
  <1>8. AppendOwnsTail'
    BY <1>1, <1>2, <1>3 DEF AppendOwnsTail
  <1>9. LegalOps'
    <2>1. Legal(req[w])
      BY DEF LegalOps
    <2>2. \A i \in 1 .. Len(log') : Legal(log'[i].op)
      BY <1>1, <1>2, <2>1 DEF LegalOps
    <2> QED
      BY <1>3, <2>1, <2>2 DEF LegalOps
  <1>10. ReplayPrefix'
    BY <1>6 DEF ReplayPrefix
  <1>11. PendingUnique'
    BY <1>4 DEF PendingUnique
  <1>12. Exact'
    <2> SUFFICES ASSUME NoTornInside', NEW k \in Key \ raced, Settled(k),
                        main = "truncated" => k \notin late
                 PROVE  ReplaysTo(log', Base', Len(log'), k, store[k])
      BY <1>5 DEF Exact
    <2>1. NoTornInside
      BY <1>1, <1>2 DEF NoTornInside
    <2>2. ReplaysTo(log, Base, Len(log), k, store[k])
      BY <1>6, <2>1 DEF Exact
    <2>3. Base' = Base
      BY DEF Base
    <2>4. log'[Len(log) + 1].whole = FALSE
      BY <1>2
    <2>5. ReplaysTo(log', Base, Len(log'), k, store[k])
      BY <1>1, <1>2, <2>2, <2>4, TornTailIgnored
    <2> QED
      BY <2>3, <2>5
  <1>13. CopyFresh' /\ SaveProgress'
    BY <1>5 DEF CopyFresh, SaveProgress
  <1> QED
    BY <1>7, <1>8, <1>9, <1>10, <1>11, <1>12, <1>13

LEMMA AppendEndKeeps ==
    ASSUME IndInv, NEW w \in Worker, AppendEnd(w)
    PROVE  IndInv'
  <1> USE DEF IndInv
  <1> DEFINE key == req[w].key
  <1>0. /\ pc[w] = "appending"
        /\ entryCount' = entryCount + 1
        /\ late' = IF main \in {"saving", "truncating"}
                   THEN late \cup {key} ELSE late \ {key}
        /\ UNCHANGED <<alive, main, store, cursor, snapFile, copy, toSave, raced>>
    BY DEF AppendEnd, saving
  <1>1. /\ log \in Seq(Record) /\ log # <<>> /\ Len(log) \in Nat /\ Len(log) >= 1
        /\ req[w] \in Mutation /\ key \in Key
    <2>1. log \in Seq(Record) /\ log # <<>> /\ req[w] \in Mutation
      BY <1>0 DEF TypeOK, AppendOwnsTail
    <2>2. key \in Key
      BY <2>1 DEF Mutation
    <2> QED
      BY <2>1, <2>2
  <1>2. /\ log' \in Seq(Record)
        /\ Len(log') = Len(log)
        /\ \A i \in 1 .. Len(log) - 1 : log'[i] = log[i]
        /\ log'[Len(log)] = [op |-> req[w], whole |-> TRUE]
        /\ log' # <<>>
    BY <1>1, FinishTail DEF AppendEnd
  <1>3. log[Len(log)] = [op |-> req[w], whole |-> FALSE]
    BY <1>0 DEF AppendOwnsTail
  <1>4. /\ pc'[w] = "idle" /\ req'[w] = NoMutation
        /\ \A u \in Worker \ {w} : pc'[u] = pc[u] /\ req'[u] = req[u]
        /\ \A u \in Worker : pc'[u] # "appending"
    BY <1>0 DEF TypeOK, AppendOwnsTail, AppendEnd
  <1>5. \A k \in Key : \A u \in Worker : Pending(u, k)' <=> Pending(u, k) /\ u # w
    BY <1>4 DEF Pending
  <1>6. Pending(w, key) /\ \A k \in Key \ {key} : ~Pending(w, k)
    BY <1>0 DEF Pending
  <1>7. \A k \in Key \ {key} : Settled(k)' <=> Settled(k)
    BY <1>5, <1>6 DEF Settled
  <1>8. \A k \in Key \ {key} : k \in late' <=> k \in late
    BY <1>0 DEF TypeOK
  <1>9. main # "replay"
    BY <1>0 DEF ReplayPrefix
  <1>10. TypeOK'
    <2>1. pc' \in [Worker -> {"idle", "applied", "appending"}]
      BY DEF TypeOK, AppendEnd
    <2>2. req' \in [Worker -> Mutation \cup {NoMutation}]
      BY DEF TypeOK, AppendEnd
    <2>3. \A u \in Worker : pc'[u] # "idle" => req'[u] \in Mutation
      BY <1>4 DEF TypeOK
    <2>4. late' \in SUBSET Key /\ entryCount' \in Nat
      BY <1>0, <1>1 DEF TypeOK
    <2> QED
      BY <1>0, <1>2, <1>9, <2>1, <2>2, <2>3, <2>4 DEF TypeOK
  <1>11. AppendOwnsTail'
    BY <1>4 DEF AppendOwnsTail
  <1>12. LegalOps'
    <2>1. Legal(req[w])
      BY <1>0 DEF LegalOps
    <2>2. \A i \in 1 .. Len(log') : Legal(log'[i].op)
      BY <1>1, <1>2, <2>1 DEF LegalOps
    <2> QED
      BY <1>4, <2>2 DEF LegalOps
  <1>13. ReplayPrefix'
    BY <1>0, <1>9 DEF ReplayPrefix
  <1>14. PendingUnique'
    BY <1>0, <1>4, <1>5 DEF PendingUnique
  <1>15. Exact'
    <2> SUFFICES ASSUME NoTornInside', NEW k \in Key \ raced, Settled(k)',
                        main = "truncated" => k \notin late'
                 PROVE  ReplaysTo(log', Base', Len(log'), k, store[k])
      BY <1>0 DEF Exact
    <2>1. NoTornInside
      BY <1>1, <1>2 DEF NoTornInside
    <2>2. Base' = Base
      BY <1>0 DEF Base
    <2>3. CASE k = key
      <3>1. store[k] = Effect(req[w])
        BY <1>6, <2>3 DEF PendingUnique
      <3>2. \A i \in 1 .. Len(log') : log'[i].whole
        BY <1>1, <1>2, <2>1 DEF NoTornInside
      <3>3. log'[Len(log')].op = req[w] /\ log'[Len(log')].op.key = k
        BY <1>2, <2>3
      <3>4. ReplaysTo(log', Base', Len(log'), k, Effect(log'[Len(log')].op))
        BY <1>2, <3>2, <3>3, LastRecordDecides
      <3> QED
        BY <3>1, <3>3, <3>4
    <2>4. CASE k # key
      <3>1. ReplaysTo(log, Base, Len(log), k, store[k])
        BY <1>7, <1>8, <1>9, <2>1, <2>4 DEF Exact
      <3>2. log[Len(log)].whole = FALSE /\ log'[Len(log)].op.key # k
        BY <1>2, <1>3, <2>4
      <3>3. ReplaysTo(log', Base, Len(log'), k, store[k])
        BY <1>1, <1>2, <3>1, <3>2, OtherKeyIgnored
      <3> QED
        BY <2>2, <3>3
    <2> QED
      BY <2>3, <2>4
  <1>16. CopyFresh'
    BY <1>0, <1>1, <1>7, <1>8 DEF CopyFresh
  <1>17. SaveProgress'
    BY <1>0 DEF SaveProgress
  <1> QED
    BY <1>10, <1>11, <1>12, <1>13, <1>14, <1>15, <1>16, <1>17

LEMMA BeginSaveKeeps == IndInv /\ BeginSave => IndInv'
  <1> SUFFICES ASSUME IndInv, BeginSave PROVE IndInv'
    OBVIOUS
  <1> USE DEF IndInv, BeginSave, history
  <1>1. TypeOK'
    BY DEF TypeOK, EmptyMap, Stored
  <1>2. AppendOwnsTail' /\ LegalOps' /\ ReplayPrefix'
    BY DEF AppendOwnsTail, LegalOps, ReplayPrefix
  <1>3. \A k \in Key : (Settled(k)' <=> Settled(k))
                      /\ \A w \in Worker : Pending(w, k)' <=> Pending(w, k)
    BY DEF Settled, Pending
  <1>4. PendingUnique'
    BY <1>3 DEF PendingUnique
  <1>5. Exact'
    <2> SUFFICES ASSUME NoTornInside, NEW k \in Key \ raced, Settled(k)
                 PROVE  ReplaysTo(log, store, Len(log), k, store[k])
      BY <1>3 DEF Exact, Base, NoTornInside
    <2>1. ReplaysTo(log, snapFile, Len(log), k, store[k])
      BY DEF Exact, Base
    <2> QED
      BY <2>1 DEF ReplaysTo
  <1>6. CopyFresh'
    BY DEF CopyFresh
  <1>7. SaveProgress'
    <2>1. \A k \in Key : snapFile'[k] = NotFound
      BY DEF EmptyMap
    <2>2. NotFound # Garbled
      BY StandaloneAssumption
    <2> QED
      BY <2>1, <2>2 DEF SaveProgress
  <1> QED
    BY <1>1, <1>2, <1>4, <1>5, <1>6, <1>7

(* While snapshot.dat is being written nothing but the file changes. *)
LEMMA SaveEntryKeeps ==
    ASSUME IndInv, NEW k \in Key, SaveEntryBegin(k) \/ SaveEntryEnd(k)
    PROVE  IndInv'
  <1> USE DEF IndInv
  <1>1. /\ main = "saving" /\ k \in toSave
        /\ UNCHANGED <<alive, main, store, cursor, pc, req, log, entryCount,
                       copy, raced, late>>
    BY DEF SaveEntryBegin, SaveEntryEnd, saving, history
  <1>2. snapFile' \in [Key -> Stored] /\ toSave' \in SUBSET Key
    BY DEF SaveEntryBegin, SaveEntryEnd, saving, TypeOK, Stored
  <1>3. TypeOK'
    BY <1>1, <1>2 DEF TypeOK
  <1>4. AppendOwnsTail' /\ LegalOps' /\ ReplayPrefix'
    BY <1>1 DEF AppendOwnsTail, LegalOps, ReplayPrefix
  <1>5. PendingUnique' /\ Exact' /\ CopyFresh'
    BY <1>1 DEF PendingUnique, Pending, Exact, Base, NoTornInside, Settled,
                CopyFresh
  <1>6. SaveProgress'
    <2>1. CASE SaveEntryBegin(k)
      <3>1. /\ toSave' = toSave /\ snapFile'[k] = Garbled
            /\ \A j \in Key \ {k} : snapFile'[j] = snapFile[j]
            /\ \A j \in toSave : snapFile[j] = NotFound
        BY <2>1 DEF SaveEntryBegin, BetweenEntries, saving, TypeOK
      <3>2. NotFound # Garbled /\ toSave \in SUBSET Key
        BY StandaloneAssumption DEF TypeOK
      <3> QED
        BY <1>1, <3>1, <3>2 DEF SaveProgress
    <2>2. CASE SaveEntryEnd(k)
      <3>1. /\ toSave' = toSave \ {k} /\ snapFile'[k] = copy[k]
            /\ \A j \in Key \ {k} : snapFile'[j] = snapFile[j]
            /\ toSave \in SUBSET Key
        BY <2>2 DEF SaveEntryEnd, TypeOK
      <3> QED
        BY <1>1, <3>1 DEF SaveProgress
    <2> QED
      BY <2>1, <2>2
  <1> QED
    BY <1>3, <1>4, <1>5, <1>6

LEMMA EndSaveKeeps == IndInv /\ EndSave => IndInv'
  <1> SUFFICES ASSUME IndInv, EndSave PROVE IndInv'
    OBVIOUS
  <1> USE DEF IndInv, EndSave, disk, saving, history
  <1>1. \A k \in Key : snapFile[k] = copy[k]
    BY DEF SaveProgress
  <1>2. TypeOK' /\ AppendOwnsTail' /\ LegalOps' /\ ReplayPrefix'
    BY DEF TypeOK, AppendOwnsTail, LegalOps, ReplayPrefix
  <1>3. PendingUnique' /\ CopyFresh'
    BY DEF PendingUnique, Pending, CopyFresh, Settled
  <1>4. SaveProgress'
    BY <1>1 DEF SaveProgress
  <1>5. Exact'
    BY <1>1 DEF Exact, Base, NoTornInside, Settled, Pending, ReplaysTo
  <1> QED
    BY <1>2, <1>3, <1>4, <1>5

LEMMA TruncateKeeps == IndInv /\ Truncate => IndInv'
  <1> SUFFICES ASSUME IndInv, Truncate PROVE IndInv'
    OBVIOUS
  <1> USE DEF IndInv, Truncate, saving, history
  <1>1. log' \in Seq(Record) /\ Len(log') = 0
    OBVIOUS
  <1>2. TypeOK'
    BY <1>1 DEF TypeOK
  <1>3. AppendOwnsTail' /\ LegalOps' /\ ReplayPrefix'
    BY <1>1 DEF AppendOwnsTail, LegalOps, LogMutexFree, ReplayPrefix
  <1>4. PendingUnique' /\ CopyFresh' /\ SaveProgress'
    <2>1. PendingUnique'
      BY DEF PendingUnique, Pending
    <2>2. CopyFresh'
      BY DEF CopyFresh, Settled, Pending
    <2>3. SaveProgress'
      BY DEF SaveProgress
    <2> QED
      BY <2>1, <2>2, <2>3
  <1>5. Exact'
    <2> SUFFICES ASSUME NEW k \in Key \ raced, Settled(k), k \notin late
                 PROVE  ReplaysTo(log', snapFile, Len(log'), k, store[k])
      BY DEF Exact, Base, Settled, Pending
    <2>1. snapFile[k] = store[k]
      BY DEF CopyFresh, SaveProgress
    <2> QED
      BY <1>1, <2>1 DEF ReplaysTo
  <1> QED
    BY <1>2, <1>3, <1>4, <1>5

LEMMA SameStateKeeps ==
    ASSUME IndInv,
           UNCHANGED <<main, store, cursor, pc, req, log, entryCount, snapFile,
                       copy, toSave, raced, late>>,
           alive' \in BOOLEAN
    PROVE  IndInv'
  <1> USE DEF IndInv
  <1>1. TypeOK'
    BY DEF TypeOK
  <1>2. AppendOwnsTail' /\ LegalOps' /\ ReplayPrefix'
    BY DEF AppendOwnsTail, LegalOps, ReplayPrefix
  <1>3. PendingUnique' /\ CopyFresh' /\ SaveProgress'
    BY DEF PendingUnique, Pending, CopyFresh, SaveProgress, Settled
  <1>4. Exact'
    BY DEF Exact, Base, NoTornInside, Settled, Pending
  <1> QED
    BY <1>1, <1>2, <1>3, <1>4

-----------------------------------------------------------------------------
(* The inductive invariant holds in every state of every behaviour of the  *)
(* server, whatever the crashes, restarts and interleavings.               *)
THEOREM Invariance == Spec => []IndInv
  <1>1. IndInv /\ [Next]_vars => IndInv'
    <2> SUFFICES ASSUME IndInv, [Next]_vars PROVE IndInv'
      OBVIOUS
    <2>1. CASE Start
      BY <2>1, StartKeeps
    <2>2. CASE Recover
      BY <2>2, ReplayRecordKeeps, ReplayDoneKeeps DEF Recover
    <2>3. ASSUME NEW w \in Worker, Mutate(w)
          PROVE  IndInv'
      BY <2>3, HandleKeeps, AppendBeginKeeps, AppendEndKeeps DEF Mutate
    <2>4. CASE Shutdown
      BY <2>4, BeginSaveKeeps, SaveEntryKeeps, EndSaveKeeps, TruncateKeeps
         DEF Shutdown
    <2>5. CASE Crash
      BY <2>5, SameStateKeeps DEF Crash, disk, saving, history
    <2>6. CASE UNCHANGED vars
      <3>1. alive' \in BOOLEAN
        BY <2>6 DEF vars, IndInv, TypeOK
      <3> QED
        BY <2>6, <3>1, SameStateKeeps DEF vars
    <2> QED
      BY <2>1, <2>2, <2>3, <2>4, <2>5, <2>6 DEF Next
  <1> QED
    BY <1>1, InitEstablishes, PTL DEF Spec

(* Every variable keeps its type (TypeOK). *)
THEOREM TypeCorrect == Spec => []TypeOK
  <1>1. IndInv => TypeOK
    BY DEF IndInv
  <1> QED
    BY <1>1, Invariance, PTL

(* The mutex of the log keeps appends apart (AppendOwnsTail, wal.cpp:31). *)
THEOREM AppendsDoNotInterleave == Spec => []AppendOwnsTail
  <1>1. IndInv => AppendOwnsTail
    BY DEF IndInv
  <1> QED
    BY <1>1, Invariance, PTL

(* Outside the windows the code leaves open, a restart gives back exactly  *)
(* the map that was in memory (RecoveryExact).                             *)
THEOREM RecoveryIsExact == Spec => []RecoveryExact
  <1>1. IndInv => RecoveryExact
    BY DEF IndInv, Exact, Base, RecoveryExact, Recovers
  <1> QED
    BY <1>1, Invariance, PTL

(* A crash while snapshot.dat is rewritten never brings back an overwritten *)
(* value, and cuts short the value of one key at most                       *)
(* (InterruptedSaveNeverStale).                                             *)
THEOREM InterruptedSave == Spec => []InterruptedSaveNeverStale
  <1>1. ASSUME IndInv, main = "saving", NoTornInside
        PROVE  InterruptedSaveNeverStale
    <2> USE <1>1 DEF IndInv
    <2>1. PICK torn \in Key : \A k \in toSave : snapFile[k] = Garbled => k = torn
      BY KVStoreAssumption DEF SaveProgress, TypeOK
    <2>2. ASSUME NEW k \in Key, Settled(k), k \notin raced
          PROVE  \/ Recovers(k, store[k])
                 \/ Recovers(k, NotFound)
                 \/ k = torn /\ Recovers(k, Garbled)
      <3>1. ReplaysTo(log, copy, Len(log), k, store[k])
        BY <2>2 DEF Exact, Base
      <3>2. CASE snapFile[k] = copy[k]
        BY <3>1, <3>2 DEF Recovers, ReplaysTo
      <3>3. CASE snapFile[k] # copy[k]
        <4>1. k \in toSave /\ snapFile[k] \in {NotFound, Garbled}
          BY <3>3 DEF SaveProgress
        <4>2. Recovers(k, store[k]) \/ Recovers(k, snapFile[k])
          BY <3>1 DEF Recovers, ReplaysTo
        <4> QED
          BY <2>1, <4>1, <4>2
      <3> QED
        BY <3>2, <3>3
    <2> QED
      BY <2>2 DEF InterruptedSaveNeverStale
  <1>2. IndInv => InterruptedSaveNeverStale
    BY <1>1 DEF InterruptedSaveNeverStale
  <1> QED
    BY <1>2, Invariance, PTL

(* Truncating the log loses nothing that the snapshot does not hold        *)
(* (TruncationLosesNothing).                                               *)
THEOREM TruncationIsSafe == Spec => TruncationLosesNothing
  <1> DEFINE Safe ==
        log # <<>> /\ log' = <<>> =>
        \A k \in Key, x \in Stored :
            ( /\ Settled(k)
              /\ k \notin raced \cup late
              /\ NoTornInside
              /\ Recovers(k, x) )
            => (Recovers(k, x))'
  <1>1. IndInv /\ [Next]_vars => [Safe]_vars
    <2> SUFFICES ASSUME IndInv, Next, log # <<>>, log' = <<>>,
                        NEW k \in Key, NEW x \in Stored, Settled(k),
                        k \notin raced \cup late, NoTornInside, Recovers(k, x)
                 PROVE  (Recovers(k, x))'
      BY DEF vars
    <2> USE DEF IndInv
    <2>1. log \in Seq(Record) /\ \A w \in Worker : req[w] \in Mutation \cup {NoMutation}
      BY DEF TypeOK
    <2>2. Truncate
      <3>1. ASSUME NEW w \in Worker, AppendBegin(w)
            PROVE  FALSE
        <4>1. req[w] \in Mutation
          BY <3>1 DEF AppendBegin, TypeOK
        <4>2. log' = Append(log, [op |-> req[w], whole |-> FALSE])
          BY <3>1 DEF AppendBegin
        <4>3. Len(log') = Len(log) + 1 /\ Len(log) \in Nat
          BY <2>1, <4>1, <4>2, AppendTorn
        <4>4. Len(log') = 0
          OBVIOUS
        <4> QED
          BY <4>3, <4>4
      <3>2. ASSUME NEW w \in Worker, AppendEnd(w)
            PROVE  FALSE
        <4>1. req[w] \in Mutation
          BY <3>2 DEF AppendEnd, TypeOK
        <4> QED
          BY <2>1, <3>2, <4>1, FinishTail DEF AppendEnd
      <3> QED
        BY <3>1, <3>2 DEF Next, Start, Recover, ReplayRecord, ReplayDone, Mutate,
           HandlePut, HandleDelete, Apply, Shutdown, BeginSave, SaveEntryBegin,
           SaveEntryEnd, EndSave, Crash, disk, saving, history
    <2>3. x = store[k]
      <3>1. ReplaysTo(log, snapFile, Len(log), k, store[k])
        BY <2>2 DEF Truncate, Exact, Base
      <3> QED
        BY <2>1, <3>1, ReplayUnique DEF Recovers
    <2>4. snapFile[k] = store[k] /\ snapFile' = snapFile
      BY <2>2 DEF Truncate, CopyFresh, SaveProgress
    <2>5. Len(log') = 0
      OBVIOUS
    <2> QED
      BY <2>3, <2>4, <2>5 DEF Recovers, ReplaysTo
  <1> QED
    BY <1>1, Invariance, PTL DEF Spec, TruncationLosesNothing
=============================================================================
