------------------------- MODULE SqliteServiceProofs -------------------------
(***************************************************************************)
(* Proofs about SqliteService for every set of sessions, batches and       *)
(* writes and every bound, when SQLite can serialize, rebuild and roll     *)
(* back, and no BEGIN text commits and begins again.                       *)
(***************************************************************************)
EXTENDS SqliteService, TLAPS

(* The premise of the theorems. *)
FaultFree == ImageFaults = {} /\ "restart" \notin SideEffects

Publishing == {"create", "sync", "rename"}
Owning == Publishing \cup {"run", "restore"}

(* The guard: who is past the lock, or between two commands of an open     *)
(* transaction, is the holder; nobody else is; without an entry in the     *)
(* map there is no guard to hold.                                          *)
Locking ==
  /\ \A a \in Actor : pc[a] \in Owning => holder = a
  /\ \A a \in Actor : holder = a => pc[a] \in Owning \cup {"idle", "reply"}
  /\ \A s \in Session : depth[s] > 0 => holder = s /\ pc[s] \in {"run", "idle", "reply"}
  /\ \A s \in Session : holder = s /\ pc[s] \in {"idle", "reply"} => depth[s] > 0
  /\ \A b \in Batch : holder = b => pc[b] \in Owning
  /\ \A a \in Actor : pc[a] = "load" <=> loader = a
  /\ \A a \in Actor : pc[a] = "load" => ~ entry
  /\ ~ entry => \A s \in Session : pc[s] \in {"closed", "lookup", "load"}
  /\ ~ entry => \A b \in Batch : pc[b] \in {"new", "lookup", "load", "reply", "done"}
  /\ \A s \in Session : pc[s] \in SessionPc
  /\ \A b \in Batch : pc[b] \in BatchPc

(* The open levels: inside a transaction, as many as the session's depth;  *)
(* outside, none, but for a failed BEGIN's before its image is restored.   *)
Nesting ==
  /\ \A s \in Session : depth[s] > 0 => depth[s] = Len(stack) /\ Head(stack) = disk
  /\ stack # <<>> => \/ \E s \in Session : depth[s] > 0
                     \/ \E a \in Actor : pc[a] = "restore"

(* The images: idle memory is the file, and every snapshot kept is too.    *)
Images ==
  /\ disk \in Image
  /\ entry /\ holder = NoOne => mem = disk
  /\ \A a \in Actor : pc[a] = "load" => before[a] = disk
  /\ \A s \in Session : depth[s] > 0 => before[s] = disk
  /\ \A s \in Session : pc[s] = "run" /\ depth[s] = 0 => mem = disk
  /\ \A b \in Batch : pc[b] = "run" => mem = disk
  /\ \A a \in Actor : pc[a] \in Publishing \cup {"restore"} => before[a] = disk
  /\ \A a \in Actor : pc[a] \in Publishing => after[a] = mem
  /\ \A a \in Actor : pc[a] = "rename" => pending = mem
  /\ \A s \in Session :
       before[s] # NoImage => pc[s] \in Publishing \cup {"load", "restore"} \/ depth[s] > 0
  /\ \A b \in Batch :
       before[b] # NoImage => pc[b] \in Publishing \cup {"load", "restore"}

IInv == TypeOK /\ Locking /\ Nesting /\ Images

LEMMA InitIInv == Init => IInv
<1> SUFFICES ASSUME Init PROVE IInv
  OBVIOUS
<1> USE BoundsAssumption, NamesAssumption
<1>1. TypeOK
  <2>1. EmptyImage \in Image /\ disk \in Image
    BY DEF Init, EmptyImage, Image
  <2>2. <<>> \in Seq(Image) /\ <<>> \in Seq(Actor) /\ <<>> \in Seq(SUBSET Write)
    OBVIOUS
  <2>3. pc \in [Actor -> SessionPc \cup BatchPc]
    BY DEF Init, SessionPc, BatchPc
  <2> QED
    BY <2>1, <2>2, <2>3 DEF Init, TypeOK
<1>2. Locking
  BY DEF Init, Locking, Owning, Publishing, Actor, SessionPc, BatchPc
<1>3. Nesting
  BY DEF Init, Nesting
<1>4. Images
  BY DEF Init, Images, Image, Publishing, Actor
<1> QED
  BY <1>1, <1>2, <1>3, <1>4 DEF IInv

LEMMA OpenSocketStep ==
  ASSUME IInv, NEW s \in Session, NEW ro \in BOOLEAN, OpenSocket(s, ro)
  PROVE  IInv'
<1> USE NamesAssumption DEF IInv, OpenSocket, Goto, files, table, database, request, images, client, Actor
<1>1. TypeOK'
  BY DEF TypeOK, SessionPc, BatchPc
<1>2. Locking'
  BY DEF TypeOK, Locking, Owning, Publishing, SessionPc, BatchPc
<1>3. Nesting'
  BY DEF TypeOK, Nesting
<1>4. Images'
  BY DEF TypeOK, Locking, Images, Publishing
<1> QED
  BY <1>1, <1>2, <1>3, <1>4 DEF IInv

LEMMA SubmitBatchStep ==
  ASSUME IInv, NEW b \in Batch, NEW ws \in SUBSET Write, SubmitBatch(b, ws)
  PROVE  IInv'
<1> USE NamesAssumption DEF IInv, SubmitBatch, Goto, Unused, files, table, database, session, images, Actor
<1>1. TypeOK'
  BY DEF TypeOK, SessionPc, BatchPc
<1>2. Locking'
  BY DEF TypeOK, Locking, Owning, Publishing, SessionPc, BatchPc
<1>3. Nesting'
  BY DEF TypeOK, Nesting, Locking, Owning, Publishing
<1>4. Images'
  BY DEF TypeOK, Locking, Images, Owning, Publishing
<1> QED
  BY <1>1, <1>2, <1>3, <1>4 DEF IInv

LEMMA ReadyEffect ==
  ASSUME TypeOK, NEW a \in Actor, Ready(a)
  PROVE  /\ waiters' \in Seq(Actor)
         /\ pc' = [pc EXCEPT ![a] = IF a \in Session THEN "idle" ELSE "wait"]
         /\ pc' \in [Actor -> SessionPc \cup BatchPc]
<1>1. waiters \in Seq(Actor) /\ Append(waiters, a) \in Seq(Actor)
  BY DEF TypeOK
<1>2. waiters' \in Seq(Actor)
  BY <1>1 DEF Ready
<1>3. pc' = [pc EXCEPT ![a] = IF a \in Session THEN "idle" ELSE "wait"]
  BY DEF Ready, Goto
<1>4. pc' \in [Actor -> SessionPc \cup BatchPc]
  BY <1>3 DEF TypeOK, SessionPc, BatchPc
<1> QED
  BY <1>2, <1>3, <1>4

LEMMA LookupHitStep ==
  ASSUME IInv, NEW a \in Actor, LookupHit(a)
  PROVE  IInv'
<1> USE NamesAssumption DEF IInv, LookupHit, MapLockFree, files, table, request, session, images, client, Actor
<1>0. Ready(a)
  BY DEF IInv
<1>a. waiters' \in Seq(Actor) /\ pc' = [pc EXCEPT ![a] = IF a \in Session THEN "idle" ELSE "wait"]
      /\ pc' \in [Actor -> SessionPc \cup BatchPc]
  BY <1>0, ReadyEffect
<1>1. TypeOK'
  BY <1>a DEF TypeOK
<1>2. Locking'
  BY <1>a DEF TypeOK, Locking, Owning, Publishing, SessionPc, BatchPc
<1>3. Nesting'
  BY <1>a DEF TypeOK, Nesting, Locking, Owning, Publishing
<1>4. Images'
  BY <1>a DEF TypeOK, Locking, Images, Owning, Publishing
<1> QED
  BY <1>1, <1>2, <1>3, <1>4 DEF IInv

LEMMA LookupMissStep ==
  ASSUME IInv, NEW a \in Actor, LookupMiss(a)
  PROVE  IInv'
<1> USE NamesAssumption DEF IInv, LookupMiss, MapLockFree, Goto, files, database, request, session, client, Actor
<1>1. TypeOK'
  BY DEF TypeOK, SessionPc, BatchPc
<1>2. Locking'
  BY DEF TypeOK, Locking, Owning, Publishing, SessionPc, BatchPc
<1>3. Nesting'
  BY DEF TypeOK, Nesting, Locking, Owning, Publishing
<1>4. Images'
  BY DEF TypeOK, Locking, Images, Owning, Publishing
<1> QED
  BY <1>1, <1>2, <1>3, <1>4 DEF IInv

LEMMA LoadedStep ==
  ASSUME IInv, NEW a \in Actor, Loaded(a)
  PROVE  IInv'
<1> USE NamesAssumption DEF IInv, Loaded, files, request, session, client, Actor
<1>0. Ready(a)
  BY DEF IInv
<1>a. waiters' \in Seq(Actor) /\ pc' = [pc EXCEPT ![a] = IF a \in Session THEN "idle" ELSE "wait"]
      /\ pc' \in [Actor -> SessionPc \cup BatchPc]
  BY <1>0, ReadyEffect
<1>b. mem' \in Image /\ stack' \in Seq(Image)
  BY DEF Images
<1>1. TypeOK'
  BY <1>a, <1>b DEF TypeOK
<1>2. Locking'
  BY <1>a DEF TypeOK, Locking, Owning, Publishing, SessionPc, BatchPc
<1>3. Nesting'
  BY <1>a DEF TypeOK, Nesting, Locking, Owning, Publishing
<1>4. Images'
  BY <1>a DEF TypeOK, Locking, Images, Owning, Publishing
<1> QED
  BY <1>1, <1>2, <1>3, <1>4 DEF IInv

LEMMA LoadFailedStep ==
  ASSUME IInv, NEW a \in Actor, LoadFailed(a)
  PROVE  IInv'
<1> USE NamesAssumption DEF IInv, LoadFailed, Goto, Answer, files, database, session, client, Actor
<1>1. TypeOK'
  BY DEF TypeOK, SessionPc, BatchPc
<1>2. Locking'
  BY DEF TypeOK, Locking, Owning, Publishing, SessionPc, BatchPc
<1>3. Nesting'
  BY DEF TypeOK, Nesting, Locking, Owning, Publishing
<1>4. Images'
  BY DEF TypeOK, Locking, Images, Owning, Publishing
<1> QED
  BY <1>1, <1>2, <1>3, <1>4 DEF IInv

LEMMA SendStep ==
  ASSUME IInv, NEW s \in Session, NEW o \in Operation, NEW ws \in SUBSET Write, Send(s, o, ws)
  PROVE  IInv'
<1> USE NamesAssumption DEF IInv, Unused, files, table, session, images, Actor
<1>0. \E next \in {"reply", "run", "wait"} :
        /\ pc' = [pc EXCEPT ![s] = next]
        /\ next = "run" => holder = s
        /\ next = "wait" => holder # s
        /\ waiters' = IF next = "wait" THEN Append(waiters, s) ELSE waiters
  BY DEF Send, Goto, TypeOK
<1>a. PICK next \in {"reply", "run", "wait"} :
        /\ pc' = [pc EXCEPT ![s] = next]
        /\ next = "run" => holder = s
        /\ next = "wait" => holder # s
        /\ waiters' = IF next = "wait" THEN Append(waiters, s) ELSE waiters
  BY <1>0
<1>b. waiters' \in Seq(Actor)
  BY <1>a DEF TypeOK
<1>1. TypeOK'
  BY <1>a, <1>b DEF Send, TypeOK, SessionPc, BatchPc
<1>2. Locking'
  BY <1>a DEF Send, TypeOK, Locking, Owning, Publishing, SessionPc, BatchPc
<1>3. Nesting'
  BY <1>a DEF Send, TypeOK, Nesting
<1>4. Images'
  BY <1>a DEF Send, TypeOK, Locking, Images, Owning, Publishing
<1> QED
  BY <1>1, <1>2, <1>3, <1>4 DEF IInv

LEMMA GrantStep ==
  ASSUME IInv, NEW a \in Actor, Grant(a)
  PROVE  IInv'
<1> USE NamesAssumption DEF IInv, Grant, GuardFree, Goto, files, table, request, session, images, client, Actor
<1>1. TypeOK'
  BY DEF TypeOK, SessionPc, BatchPc
<1>2. Locking'
  BY DEF TypeOK, Locking, Owning, Publishing, SessionPc, BatchPc
<1>3. Nesting'
  BY DEF TypeOK, Nesting, Locking, Owning, Publishing
<1>4. Images'
  BY DEF TypeOK, Locking, Images, Owning, Publishing
<1> QED
  BY <1>1, <1>2, <1>3, <1>4 DEF IInv

LEMMA LockTimeoutStep ==
  ASSUME IInv, NEW s \in Session, LockTimeout(s)
  PROVE  IInv'
<1> USE NamesAssumption DEF IInv, LockTimeout, GuardFree, Goto, Answer, files, table, session, images, client, Actor
<1>0. waiters' \in Seq(Actor)
  BY DEF TypeOK, RemoveAt
<1>1. TypeOK'
  BY <1>0 DEF TypeOK, SessionPc, BatchPc
<1>2. Locking'
  BY DEF TypeOK, Locking, Owning, Publishing, SessionPc, BatchPc
<1>3. Nesting'
  BY DEF TypeOK, Nesting, Locking, Owning, Publishing
<1>4. Images'
  BY DEF TypeOK, Locking, Images, Owning, Publishing
<1> QED
  BY <1>1, <1>2, <1>3, <1>4 DEF IInv

LEMMA RunBatchStep ==
  ASSUME IInv, NEW b \in Batch, RunBatch(b)
  PROVE  IInv'
<1> DEFINE written == [mem EXCEPT !.rows = @ \cup args[b]]
<1> USE NamesAssumption DEF IInv, files, table, session, client, Actor
<1>0. mem \in Image /\ written \in Image
  BY DEF TypeOK, Image
<1>a. \E verdict \in {"ok", "err"} :
        /\ pc' = [pc EXCEPT ![b] = IF verdict = "ok" THEN "create" ELSE "restore"]
        /\ reply' = [reply EXCEPT ![b] = verdict]
        /\ mem' \in Image
        /\ verdict = "ok" => after' = [after EXCEPT ![b] = mem']
        /\ verdict = "err" => after' = after
  BY <1>0 DEF RunBatch, Goto, Answer
<1>b. PICK verdict \in {"ok", "err"} :
        /\ pc' = [pc EXCEPT ![b] = IF verdict = "ok" THEN "create" ELSE "restore"]
        /\ reply' = [reply EXCEPT ![b] = verdict]
        /\ mem' \in Image
        /\ verdict = "ok" => after' = [after EXCEPT ![b] = mem']
        /\ verdict = "err" => after' = after
  BY <1>a
<1>c. /\ pc[b] = "run" /\ before' = [before EXCEPT ![b] = mem]
      /\ UNCHANGED <<files, table, stack, holder, waiters, op, args, session, connected, client>>
  BY DEF RunBatch
<1>d. pc' \in [Actor -> SessionPc \cup BatchPc]
  BY <1>b DEF TypeOK, SessionPc, BatchPc
<1>e. reply' \in [Actor -> {"ok", "err"}]
  BY <1>b DEF TypeOK
<1>f. after' \in [Actor -> Image \cup {NoImage}]
  <2>1. CASE verdict = "ok"
    BY <1>b, <2>1 DEF TypeOK
  <2>2. CASE verdict = "err"
    BY <1>b, <2>2 DEF TypeOK
  <2> QED
    BY <1>b, <2>1, <2>2
<1>g. before' \in [Actor -> Image \cup {NoImage, Torn}]
  BY <1>0, <1>c DEF TypeOK
<1> HIDE DEF written
<1>1. TypeOK'
  BY <1>b, <1>c, <1>d, <1>e, <1>f, <1>g DEF TypeOK
<1>2. Locking'
  BY <1>b, <1>c DEF TypeOK, Locking, Owning, Publishing, SessionPc, BatchPc
<1>3. Nesting'
  <2>1. pc[b] # "restore" /\ \A a \in Actor : pc[a] # "restore"
    BY <1>c DEF TypeOK, Locking, Owning
  <2>2. (stack # <<>> => \E s \in Session : depth[s] > 0) /\ UNCHANGED <<stack, depth, disk>>
    BY <1>c, <2>1 DEF Nesting
  <2> QED
    BY <2>2 DEF Nesting
<1>4. Images'
  BY <1>b, <1>c DEF TypeOK, Locking, Images, Owning, Publishing
<1> QED
  BY <1>1, <1>2, <1>3, <1>4 DEF IInv

(* A BEGIN that failed with its transaction open: it will be restored. *)
BeginFailed(s, r) == ~ r.ok /\ depth[s] = 0 /\ NextDepth(s, r) = 0 /\ r.snapshot = mem

(* What session::run may return: a well-typed image and savepoint stack,   *)
(* whose recorded depth counts the open levels (unless a BEGIN failed),    *)
(* with the published image at the bottom; a snapshot only outside a transaction; and without a     *)
(* snapshot an autocommit command changed nothing.                         *)
Shape(s, r) ==
  /\ r.ok \in BOOLEAN
  /\ r.mem \in Image
  /\ r.stack \in Seq(Image)
  /\ NextDepth(s, r) \in Nat
  /\ NextDepth(s, r) = Len(r.stack) \/ BeginFailed(s, r)
  /\ NextDepth(s, r) > 0 => Head(r.stack) = disk
  /\ depth[s] = 0 => r.snapshot \in {mem, NoImage}
  /\ depth[s] = 0 /\ NextDepth(s, r) > 0 => r.snapshot = mem
  /\ depth[s] = 0 /\ NextDepth(s, r) = 0 /\ r.snapshot = NoImage => r.mem = mem

LEMMA PrefixOfLevels ==
  ASSUME NEW S, NEW levels \in Seq(S), NEW n \in Nat, Len(levels) = n + 1
  PROVE  /\ SubSeq(levels, 1, n) \in Seq(S) /\ Len(SubSeq(levels, 1, n)) = n
         /\ n > 0 => Head(SubSeq(levels, 1, n)) = Head(levels)
         /\ levels[n + 1] \in S
<1>1. SubSeq(levels, 1, n) \in Seq(S) /\ Len(SubSeq(levels, 1, n)) = n
  OBVIOUS
<1>2. n > 0 => SubSeq(levels, 1, n)[1] = levels[1]
  OBVIOUS
<1> QED
  BY <1>1, <1>2

LEMMA ResultsShape ==
  ASSUME FaultFree, IInv, NEW s \in Session, pc[s] = "run", NEW r \in Results(s)
  PROVE  Shape(s, r)
<1> USE DEF Actor
<1>1. /\ mem \in Image /\ stack \in Seq(Image) /\ depth[s] \in Nat /\ disk \in Image
      /\ args[s] \in SUBSET Write
  BY DEF IInv, TypeOK, Images
<1>0. depth[s] = 0 => stack = <<>>
  <2>1. \A t \in Session : depth[t] \in Nat
    BY DEF IInv, TypeOK
  <2>2. \A t \in Session : depth[t] > 0 => holder = t
    BY DEF IInv, Locking
  <2>3. holder = s
    BY DEF IInv, Locking, Owning
  <2>4. depth[s] = 0 => \A t \in Session : depth[t] = 0
    BY <2>1, <2>2, <2>3
  <2>5. \A a \in Actor : pc[a] # "restore"
    BY <2>3 DEF IInv, Locking, Owning
  <2>6. ASSUME depth[s] = 0, NEW t \in Session
        PROVE  ~ (depth[t] > 0)
    BY <2>4, <2>6
  <2> QED
    BY <2>5, <2>6 DEF IInv, Nesting
<1>2. depth[s] = Len(stack) /\ (depth[s] > 0 => Head(stack) = disk)
  BY <1>0, <1>1 DEF IInv, Nesting
<1>3. depth[s] = 0 => mem = disk /\ stack = <<>>
  BY <1>0 DEF IInv, Images
<1>4. Written(s) \in Image
  BY <1>1 DEF Image, Written
<1>5. ASSUME NEW ok \in BOOLEAN, NEW snapshot \in {NoImage, Snapshot(s)}, r = Nothing(s, ok, snapshot)
      PROVE  Shape(s, r)
  BY <1>1, <1>2, <1>3, <1>5 DEF Shape, Nothing, Result, Snapshot, NextDepth
<1>6. ASSUME r \in AutoRollback(s)
      PROVE  Shape(s, r)
  <2>1. depth[s] # 0 /\ stack # <<>> /\ r = Result(FALSE, Head(stack), <<>>, depth[s], NoImage)
    BY <1>6 DEF AutoRollback
  <2>2. <<>> \in Seq(Image)
    OBVIOUS
  <2> QED
    BY <1>1, <1>2, <2>1, <2>2 DEF Shape, Result, NextDepth
<1>7. CASE op[s] = "begin"
  <2>1. CASE r = Nothing(s, FALSE, Snapshot(s))
    BY <1>5, <2>1
  <2>2. CASE r = Result(TRUE, Written(s), Append(stack, mem), depth[s] + 1, Snapshot(s))
    <3>1. Append(stack, mem) \in Seq(Image) /\ Len(Append(stack, mem)) = depth[s] + 1
      BY <1>1, <1>2
    <3>2. Head(Append(stack, mem)) = disk
      BY <1>1, <1>2, <1>3
    <3> QED
      BY <1>1, <1>2, <1>3, <1>4, <2>2, <3>1, <3>2 DEF Shape, Result, Snapshot, NextDepth
  <2>3. ASSUME NEW levels \in {stack, Append(stack, mem)},
               depth[s] = 0, r = Result(FALSE, Written(s), levels, 0, mem)
        PROVE  Shape(s, r)
    <3>1. levels \in Seq(Image)
      BY <1>1
    <3>2. NextDepth(s, r) = 0
      BY <2>3 DEF Result, NextDepth
    <3>3. mem # NoImage
      BY <1>1, NamesAssumption
    <3> QED
      BY <1>1, <1>4, <2>3, <3>1, <3>2, <3>3 DEF Shape, Result, BeginFailed
  <2>4. r \in BeginResults(s)
    BY <1>7 DEF Results
  <2>5. CASE depth[s] = 0
    BY <2>1, <2>2, <2>3, <2>4, <2>5 DEF BeginResults, FaultFree
  <2>6. CASE depth[s] # 0
    BY <2>1, <2>2, <2>4, <2>6 DEF BeginResults, FaultFree
  <2> QED
    BY <2>5, <2>6
<1>a. ASSUME depth[s] # 0
      PROVE  /\ Front(stack) \in Seq(Image) /\ Len(Front(stack)) = depth[s] - 1
             /\ Last(stack) \in Image
             /\ depth[s] - 1 > 0 => Head(Front(stack)) = disk
  <2> DEFINE n == depth[s] - 1
  <2>1. n \in Nat /\ Len(stack) = n + 1 /\ Len(stack) - 1 = n
    BY <1>1, <1>2, <1>a
  <2>2. /\ SubSeq(stack, 1, n) \in Seq(Image) /\ Len(SubSeq(stack, 1, n)) = n
        /\ n > 0 => Head(SubSeq(stack, 1, n)) = Head(stack)
        /\ stack[n + 1] \in Image
    <3> HIDE DEF n
    <3> QED
      BY <1>1, <2>1, PrefixOfLevels
  <2>3. Front(stack) = SubSeq(stack, 1, n) /\ Last(stack) = stack[n + 1]
    BY <2>1 DEF Front, Last
  <2>4. Head(stack) = disk
    BY <1>1, <1>2, <1>a
  <2> QED
    BY <2>2, <2>3, <2>4
<1>8. CASE op[s] = "commit"
  <2>1. CASE r \in {Nothing(s, TRUE, NoImage), Nothing(s, FALSE, NoImage)}
    BY <1>5, <2>1
  <2>2. CASE depth[s] # 0 /\ r = Result(TRUE, mem, Front(stack), depth[s] - 1, NoImage)
    BY <1>1, <1>2, <1>a, <2>2 DEF Shape, Result, NextDepth
  <2>3. CASE r \in AutoRollback(s)
    BY <1>6, <2>3
  <2> QED
    BY <1>8, <2>1, <2>2, <2>3 DEF Results, CommitResults
<1>9. CASE op[s] = "rollback"
  <2>1. CASE r \in {Nothing(s, TRUE, NoImage), Nothing(s, FALSE, NoImage)}
    BY <1>5, <2>1
  <2>2. CASE depth[s] # 0 /\ r = Result(TRUE, Last(stack), Front(stack), depth[s] - 1, NoImage)
    BY <1>1, <1>2, <1>a, <2>2 DEF Shape, Result, NextDepth
  <2> QED
    BY <1>9, <2>1, <2>2 DEF Results, RollbackResults
<1>12. ASSUME NEW ok \in BOOLEAN, r = Result(ok, Written(s), stack, depth[s], Snapshot(s))
       PROVE  Shape(s, r)
  <2>1. stack = <<>> <=> depth[s] = 0
    BY <1>1, <1>2
  <2>2. mem # NoImage
    BY <1>1, NamesAssumption
  <2> QED
    BY <1>1, <1>2, <1>3, <1>4, <1>12, <2>1, <2>2 DEF Shape, Result, Snapshot, NextDepth
<1>10. CASE op[s] = "execute"
  <2>1. CASE r \in {Nothing(s, FALSE, Snapshot(s)), Nothing(s, FALSE, NoImage)}
    BY <1>5, <2>1
  <2>2. CASE \E ok \in BOOLEAN : r = Result(ok, Written(s), stack, depth[s], Snapshot(s))
    BY <1>12, <2>2
  <2>3. CASE r \in AutoRollback(s)
    BY <1>6, <2>3
  <2> QED
    BY <1>10, <2>1, <2>2, <2>3 DEF Results, ExecuteResults
<1>11. CASE op[s] \in {"inspect", "close", NoCommand}
  <2>1. r \in InspectResults(s)
    BY <1>11 DEF Results, NoCommand
  <2>2. CASE r \in {Result(ok, Written(s), stack, depth[s], Snapshot(s)) : ok \in BOOLEAN}
    BY <1>12, <2>2
  <2>3. CASE r \in {Nothing(s, ok, NoImage) : ok \in {FALSE, args[s] = {}}}
    <3>1. PICK ok \in {FALSE, args[s] = {}} : r = Nothing(s, ok, NoImage)
      BY <2>3
    <3>2. ok \in BOOLEAN
      BY <3>1
    <3> QED
      BY <1>5, <3>1, <3>2
  <2>4. CASE r = Nothing(s, FALSE, Snapshot(s))
    BY <1>5, <2>4
  <2> QED
    BY <2>1, <2>2, <2>3, <2>4 DEF InspectResults
<1> QED
  BY <1>7, <1>8, <1>9, <1>10, <1>11 DEF IInv, TypeOK, Operation

LEMMA ReclaimedTyped ==
  ASSUME NEW s \in Session, NEW r, r.mem \in Image, NEW image \in Reclaimed(s, r)
  PROVE  image \in Image
<1>1. CASE r.ok /\ ~ readOnly[s]
  <2>1. PICK f \in {r.mem.free, IF r.mem.free > 0 THEN r.mem.free - 1 ELSE 0} :
          image = [r.mem EXCEPT !.free = f]
    BY <1>1 DEF Reclaimed
  <2>2. r.mem.free \in 0..MaxFree /\ r.mem.rows \in SUBSET Write
    BY DEF Image
  <2>3. f \in 0..MaxFree
    BY <2>1, <2>2, BoundsAssumption
  <2> QED
    BY <2>1, <2>3 DEF Image
<1>2. CASE ~ (r.ok /\ ~ readOnly[s])
  BY <1>2 DEF Reclaimed
<1> QED
  BY <1>1, <1>2

LEMMA RunSessionStep ==
  ASSUME IInv, FaultFree, NEW s \in Actor, RunSession(s)
  PROVE  IInv'
<1> USE NamesAssumption DEF files, table, client, Actor
<1>0. s \in Session /\ pc[s] = "run" /\ holder = s
  BY DEF RunSession, IInv, Locking, Owning
<1>1. UNCHANGED <<files, table, waiters, op, args, readOnly, connected, client>>
  BY DEF RunSession
<1>2. PICK r \in Results(s) :
        /\ stack' = r.stack
        /\ depth' = [depth EXCEPT ![s] = NextDepth(s, r)]
        /\ Answer(s, IF r.ok THEN "ok" ELSE "err")
        /\ KeepTransaction(s, r) \/ FinishReadOnly(s, r) \/ FinishWrite(s, r)
  BY DEF RunSession, AfterLost, FaultFree
<1>3. Shape(s, r)
  BY <1>0, <1>2, ResultsShape
<1>4. /\ \A t \in Session : t # s => depth[t] = 0
      /\ depth[s] > 0 => before[s] = disk
      /\ depth[s] = 0 => mem = disk /\ before[s] = NoImage
      /\ disk \in Image /\ disk # NoImage /\ entry
      /\ \A a \in Actor : a # s => pc[a] \notin Owning \cup {"load"}
      /\ \A a \in Actor : a # s => before[a] = NoImage
  <2>1. /\ \A t \in Session : t # s => depth[t] = 0
        /\ entry
        /\ \A a \in Actor : a # s => pc[a] \notin Owning \cup {"load"}
    <3>1. ASSUME NEW t \in Session, t # s
          PROVE  depth[t] = 0
      BY <1>0, <3>1 DEF IInv, TypeOK, Locking
    <3>2. entry
      BY <1>0 DEF IInv, TypeOK, Locking
    <3>3. ASSUME NEW a \in Actor, a # s
          PROVE  pc[a] \notin Owning \cup {"load"}
      BY <1>0, <3>2, <3>3 DEF IInv, Locking
    <3> QED
      BY <3>1, <3>2, <3>3
  <2>2. disk \in Image /\ disk # NoImage
    BY DEF IInv, Images
  <2>3. /\ depth[s] > 0 => before[s] = disk
        /\ depth[s] = 0 => mem = disk /\ before[s] = NoImage
    BY <1>0 DEF IInv, Images, Publishing, TypeOK
  <2>4. \A a \in Actor : a # s => before[a] = NoImage
    BY <2>1 DEF IInv, Images, Owning
  <2> QED
    BY <2>1, <2>2, <2>3, <2>4
(* What the three ways to finish have in common. *)
<1>5. \E next \in {"reply", "create", "restore"}, snapshot \in {disk, NoImage} :
        /\ pc' = [pc EXCEPT ![s] = next]
        /\ before' = [before EXCEPT ![s] = snapshot]
        /\ mem' \in Image
        /\ next = "create" => after' = [after EXCEPT ![s] = mem']
        /\ next = "restore" => after' = after
        /\ next = "reply" => after' = after \/ after' = [after EXCEPT ![s] = NoImage]
        /\ holder' = IF next = "reply" /\ NextDepth(s, r) = 0 THEN NoOne ELSE s
        /\ next = "reply" /\ NextDepth(s, r) = 0 => mem' = disk /\ snapshot = NoImage
        /\ next # "reply" => NextDepth(s, r) = 0 /\ snapshot = disk
        /\ NextDepth(s, r) > 0 => snapshot = disk
        /\ BeginFailed(s, r) => next = "restore"
  <2>0. before[s] \in {disk, NoImage} /\ Baseline(s, r) \in {disk, NoImage}
    <3>1. depth[s] \in Nat
      BY <1>0 DEF IInv, TypeOK
    <3>2. CASE depth[s] > 0
      BY <1>4, <3>2 DEF Baseline
    <3>3. CASE depth[s] = 0
      BY <1>3, <1>4, <3>3 DEF Baseline, Shape
    <3> QED
      BY <3>1, <3>2, <3>3
  <2>1. CASE KeepTransaction(s, r)
    <3>1. before' = [before EXCEPT ![s] = disk]
      <4>1. CASE depth[s] = 0
        BY <1>3, <1>4, <2>1, <4>1 DEF KeepTransaction, Shape
      <4>2. CASE depth[s] > 0
        BY <1>4, <2>1, <4>2 DEF KeepTransaction, IInv, TypeOK
      <4> QED
        BY <1>0, <4>1, <4>2 DEF IInv, TypeOK
    <3>2. mem' \in Image /\ NextDepth(s, r) > 0 /\ holder' = s /\ after' = after
          /\ pc' = [pc EXCEPT ![s] = "reply"]
      BY <1>0, <1>3, <2>1 DEF KeepTransaction, Shape, Goto
    <3>3. ~ BeginFailed(s, r)
      BY <2>1 DEF KeepTransaction, BeginFailed
    <3> QED
      BY <3>1, <3>2, <3>3
  <2>2. CASE FinishReadOnly(s, r)
    <3>1. ~ BeginFailed(s, r)
      BY <1>4, <2>2 DEF FinishReadOnly, BeginFailed, Baseline
    <3> QED
      BY <1>0, <1>3, <1>4, <2>0, <2>2, <3>1
         DEF FinishReadOnly, Shape, Goto, Baseline, Release, ForgetImages, IInv, TypeOK
  <2>3. CASE FinishWrite(s, r)
    <3>1. PICK image \in Reclaimed(s, r) :
            /\ mem' = image
            /\ \/ /\ Goto(s, "restore")
                  /\ before' = [before EXCEPT ![s] = Baseline(s, r)]
                  /\ UNCHANGED <<holder, after>>
               \/ /\ r.ok \/ depth[s] > 0
                  /\ Goto(s, "create")
                  /\ before' = [before EXCEPT ![s] = Baseline(s, r)]
                  /\ after' = [after EXCEPT ![s] = image]
                  /\ UNCHANGED holder
               \/ /\ r.ok \/ depth[s] > 0
                  /\ image = Baseline(s, r)
                  /\ Release
                  /\ Goto(s, "reply")
                  /\ ForgetImages(s)
      BY <2>3 DEF FinishWrite, CarryBaseline
    <3>2. image \in Image
      BY <1>0, <1>3, <3>1, ReclaimedTyped DEF Shape
    <3>3. NextDepth(s, r) = 0 /\ Baseline(s, r) = disk
      BY <2>0, <2>3 DEF FinishWrite
    <3>4. r.ok \/ depth[s] > 0 => ~ BeginFailed(s, r)
      BY DEF BeginFailed
    <3> QED
      BY <1>0, <3>1, <3>2, <3>3, <3>4 DEF Goto, Release, ForgetImages
  <2> QED
    BY <1>2, <2>1, <2>2, <2>3
<1>6. PICK next \in {"reply", "create", "restore"}, snapshot \in {disk, NoImage} :
        /\ pc' = [pc EXCEPT ![s] = next]
        /\ before' = [before EXCEPT ![s] = snapshot]
        /\ mem' \in Image
        /\ next = "create" => after' = [after EXCEPT ![s] = mem']
        /\ next = "restore" => after' = after
        /\ next = "reply" => after' = after \/ after' = [after EXCEPT ![s] = NoImage]
        /\ holder' = IF next = "reply" /\ NextDepth(s, r) = 0 THEN NoOne ELSE s
        /\ next = "reply" /\ NextDepth(s, r) = 0 => mem' = disk /\ snapshot = NoImage
        /\ next # "reply" => NextDepth(s, r) = 0 /\ snapshot = disk
        /\ NextDepth(s, r) > 0 => snapshot = disk
        /\ BeginFailed(s, r) => next = "restore"
  BY <1>5
<1>7. TypeOK'
  <2>1. pc' \in [Actor -> SessionPc \cup BatchPc]
    BY <1>6 DEF IInv, TypeOK, SessionPc, BatchPc
  <2>2. after' \in [Actor -> Image \cup {NoImage}]
    BY <1>6 DEF IInv, TypeOK
  <2>3. before' \in [Actor -> Image \cup {NoImage, Torn}]
    BY <1>4, <1>6 DEF IInv, TypeOK
  <2>4. reply' \in [Actor -> {"ok", "err"}]
    BY <1>2 DEF Answer, IInv, TypeOK
  <2>5. depth' \in [Session -> Nat]
    BY <1>2, <1>3 DEF Shape, IInv, TypeOK
  <2>6. stack' \in Seq(Image) /\ mem' \in Image /\ holder' \in Actor \cup {NoOne}
    BY <1>2, <1>3, <1>6 DEF Shape
  <2> QED
    BY <1>1, <2>1, <2>2, <2>3, <2>4, <2>5, <2>6 DEF IInv, TypeOK
<1>8. Locking'
  BY <1>0, <1>1, <1>2, <1>3, <1>4, <1>6
     DEF IInv, TypeOK, Locking, Owning, Publishing, Shape, SessionPc, BatchPc
<1>9. Nesting'
  BY <1>0, <1>1, <1>2, <1>3, <1>4, <1>6 DEF IInv, TypeOK, Nesting, Shape
<1>10. Images'
  BY <1>0, <1>1, <1>2, <1>3, <1>4, <1>6
     DEF IInv, TypeOK, Images, Owning, Publishing, Shape
<1> QED
  BY <1>7, <1>8, <1>9, <1>10 DEF IInv

LEMMA PublishCreateStep ==
  ASSUME IInv, NEW a \in Actor, PublishCreate(a)
  PROVE  IInv'
<1> USE NamesAssumption DEF IInv, PublishCreate, Goto, table, database, request, session, images, client, Actor
<1>1. TypeOK'
  BY DEF TypeOK, SessionPc, BatchPc
<1>2. Locking'
  BY DEF TypeOK, Locking, Owning, Publishing, SessionPc, BatchPc
<1>3. Nesting'
  BY DEF TypeOK, Nesting, Locking, Owning, Publishing
<1>4. Images'
  BY DEF TypeOK, Locking, Images, Owning, Publishing
<1> QED
  BY <1>1, <1>2, <1>3, <1>4 DEF IInv

LEMMA PublishSyncStep ==
  ASSUME IInv, NEW a \in Actor, PublishSync(a)
  PROVE  IInv'
<1> USE NamesAssumption DEF IInv, PublishSync, Goto, table, database, request, session, images, client, Actor
<1>1. TypeOK'
  BY DEF TypeOK, Images, Publishing, SessionPc, BatchPc
<1>2. Locking'
  BY DEF TypeOK, Locking, Owning, Publishing, SessionPc, BatchPc
<1>3. Nesting'
  BY DEF TypeOK, Nesting, Locking, Owning, Publishing
<1>4. Images'
  BY DEF TypeOK, Locking, Images, Owning, Publishing
<1> QED
  BY <1>1, <1>2, <1>3, <1>4 DEF IInv

LEMMA PublishRenameStep ==
  ASSUME IInv, NEW a \in Actor, PublishRename(a)
  PROVE  IInv'
<1> USE NamesAssumption DEF IInv, PublishRename, Release, ForgetImages, Goto, table, request, session, client, Actor
<1>1. TypeOK'
  BY DEF TypeOK, SessionPc, BatchPc
<1>2. Locking'
  BY DEF TypeOK, Locking, Owning, Publishing, SessionPc, BatchPc
<1>3. Nesting'
  BY DEF TypeOK, Nesting, Locking, Owning, Publishing
<1>4. Images'
  BY DEF TypeOK, Locking, Images, Owning, Publishing
<1> QED
  BY <1>1, <1>2, <1>3, <1>4 DEF IInv

LEMMA PublishFailedStep ==
  ASSUME IInv, NEW a \in Actor, PublishFailed(a)
  PROVE  IInv'
<1> USE NamesAssumption DEF IInv, PublishFailed, Goto, Answer, files, table, database, session, images, client, Actor
<1>1. TypeOK'
  BY DEF TypeOK, SessionPc, BatchPc
<1>2. Locking'
  BY DEF TypeOK, Locking, Owning, Publishing, SessionPc, BatchPc
<1>3. Nesting'
  BY DEF TypeOK, Nesting, Locking, Owning, Publishing
<1>4. Images'
  BY DEF TypeOK, Locking, Images, Owning, Publishing
<1> QED
  BY <1>1, <1>2, <1>3, <1>4 DEF IInv

LEMMA RestoreStep ==
  ASSUME FaultFree, IInv, NEW a \in Actor, Restore(a)
  PROVE  IInv'
<1> USE NamesAssumption DEF IInv, Restore, Release, ForgetImages, Goto, Answer, files, table, session, client, Actor
<1>0. mem' = disk /\ disk \in Image /\ stack' = <<>>
  BY DEF Images, FaultFree
<1>a. <<>> \in Seq(Image)
  OBVIOUS
<1>1. TypeOK'
  BY <1>0, <1>a DEF TypeOK, SessionPc, BatchPc
<1>2. Locking'
  BY DEF TypeOK, Locking, Owning, Publishing, SessionPc, BatchPc
<1>3. Nesting'
  BY <1>0 DEF TypeOK, Nesting, Locking, Owning, Publishing
<1>4. Images'
  BY <1>0 DEF TypeOK, Locking, Images, Owning, Publishing
<1> QED
  BY <1>1, <1>2, <1>3, <1>4 DEF IInv

LEMMA DisconnectStep ==
  ASSUME IInv, NEW a \in Actor, Disconnect(a)
  PROVE  IInv'
<1> USE NamesAssumption DEF IInv, Disconnect, files, table, database, request, session, images, client, Actor
<1>1. TypeOK'
  BY DEF TypeOK, SessionPc, BatchPc
<1>2. Locking'
  BY DEF TypeOK, Locking, Owning, Publishing, SessionPc, BatchPc
<1>3. Nesting'
  BY DEF TypeOK, Nesting, Locking, Owning, Publishing
<1>4. Images'
  BY DEF TypeOK, Locking, Images, Owning, Publishing
<1> QED
  BY <1>1, <1>2, <1>3, <1>4 DEF IInv

LEMMA LevelsTyped ==
  ASSUME NEW levels \in Seq(SUBSET Write), Len(levels) > 0
  PROVE  Front(levels) \in Seq(SUBSET Write) /\ Last(levels) \in SUBSET Write
<1>1. Len(levels) \in Nat /\ Len(levels) >= 1
  OBVIOUS
<1>2. SubSeq(levels, 1, Len(levels) - 1) \in Seq(SUBSET Write)
  BY <1>1
<1>3. levels[Len(levels)] \in SUBSET Write
  BY <1>1
<1> QED
  BY <1>2, <1>3 DEF Front, Last

LEMMA ConfirmedTyped ==
  ASSUME TypeOK, NEW s \in Session
  PROVE  Confirmed(s) \in SUBSET Write
<1>1. work[s] \in Seq(SUBSET Write)
  BY DEF TypeOK
<1>2. \A i \in DOMAIN work[s] : work[s][i] \in SUBSET Write
  BY <1>1
<1>3. ToSet(work[s]) \subseteq SUBSET Write
  BY <1>2 DEF ToSet
<1> QED
  BY <1>3 DEF Confirmed

LEMMA DeliverSessionStep ==
  ASSUME IInv, NEW s \in Actor, DeliverSession(s)
  PROVE  IInv'
<1> USE NamesAssumption DEF files, table, database, session, images, Actor
<1>0. s \in Session /\ TypeOK
  BY DEF DeliverSession, IInv
<1>a. Confirmed(s) \in SUBSET Write /\ args[s] \in SUBSET Write /\ maybe[s] \in SUBSET Write
  BY <1>0, ConfirmedTyped DEF TypeOK
<1>b. work[s] \in Seq(SUBSET Write)
  BY <1>0 DEF TypeOK
<1>c. /\ work' \in [Session -> Seq(SUBSET Write)]
      /\ maybe' \in [Session -> SUBSET Write]
      /\ acked' \in SUBSET Write
      /\ rejected' \in SUBSET Write
  <2>1. CASE LearnOk(s)
    <3> DEFINE levels == work[s]
    <3>0. Len(levels) \in Nat
      BY <1>b
    <3>1. Len(levels) > 0 => Front(levels) \in Seq(SUBSET Write) /\ Last(levels) \in SUBSET Write
      BY <1>b, LevelsTyped
    <3>2. ASSUME Len(levels) > 1
          PROVE  /\ Front(Front(levels)) \in Seq(SUBSET Write)
                 /\ Last(Front(levels)) \in SUBSET Write
      <4>1. Len(Front(levels)) = Len(levels) - 1
        BY <1>b, <3>2 DEF Front
      <4> QED
        BY <3>0, <3>1, <3>2, <4>1, LevelsTyped
    <3>3. \E new \in Seq(SUBSET Write) : work' = [work EXCEPT ![s] = new]
      <4>1. CASE op[s] = "begin"
        <5>1. Append(levels, args[s]) \in Seq(SUBSET Write)
          BY <1>a, <1>b
        <5> QED
          BY <2>1, <4>1, <5>1 DEF LearnOk, HeardLevels
      <4>2. CASE op[s] \in {"execute", "inspect"}
        <5>1. Len(levels) > 0 =>
                Append(Front(levels), Last(levels) \cup args[s]) \in Seq(SUBSET Write)
          BY <1>a, <3>1
        <5> QED
          BY <1>b, <2>1, <4>2, <5>1 DEF LearnOk, HeardLevels
      <4>3. CASE op[s] = "commit"
        <5>1. Len(levels) > 1 =>
                Append(Front(Front(levels)), Last(Front(levels)) \cup Last(levels))
                  \in Seq(SUBSET Write)
          BY <3>0, <3>1, <3>2
        <5> QED
          BY <1>b, <2>1, <3>1, <4>3, <5>1 DEF LearnOk, HeardLevels
      <4>4. CASE op[s] = "rollback"
        BY <1>b, <2>1, <3>1, <4>4 DEF LearnOk, HeardLevels
      <4>5. CASE op[s] \notin {"begin", "execute", "inspect", "commit", "rollback"}
        BY <1>b, <2>1, <4>5 DEF LearnOk, HeardLevels
      <4> QED
        BY <4>1, <4>2, <4>3, <4>4, <4>5
    <3>4. work' \in [Session -> Seq(SUBSET Write)]
      BY <1>0, <3>3 DEF TypeOK
    <3>5. maybe' \in [Session -> SUBSET Write]
      BY <1>0, <1>a, <2>1 DEF LearnOk, TypeOK
    <3>6. acked' \in SUBSET Write
      BY <1>0, <1>a, <2>1 DEF LearnOk, TypeOK
    <3>7. rejected' \in SUBSET Write
      BY <1>0, <1>a, <2>1, <3>1 DEF LearnOk, TypeOK
    <3> QED
      BY <3>4, <3>5, <3>6, <3>7
  <2>2. CASE LearnErr(s)
    <3>1. <<>> \in Seq(SUBSET Write)
      OBVIOUS
    <3>2. CASE depth[s] = 0
      <4>1. /\ rejected' = rejected \cup Confirmed(s) \cup maybe[s] \cup args[s]
            /\ work' = [work EXCEPT ![s] = <<>>]
            /\ maybe' = [maybe EXCEPT ![s] = {}]
            /\ acked' = acked
        BY <2>2, <3>2 DEF LearnErr
      <4>2. work' \in [Session -> Seq(SUBSET Write)]
        BY <1>0, <3>1, <4>1 DEF TypeOK
      <4>3. rejected' \in SUBSET Write /\ acked' \in SUBSET Write
        BY <1>0, <1>a, <4>1 DEF TypeOK
      <4>4. maybe' \in [Session -> SUBSET Write]
        BY <1>0, <4>1 DEF TypeOK
      <4> QED
        BY <4>2, <4>3, <4>4
    <3>3. CASE depth[s] # 0
      <4>1. maybe' = [maybe EXCEPT ![s] = maybe[s] \cup args[s]]
            /\ UNCHANGED <<work, acked, rejected>>
        BY <2>2, <3>3 DEF LearnErr
      <4>2. maybe' \in [Session -> SUBSET Write]
        BY <1>0, <1>a, <4>1 DEF TypeOK
      <4> QED
        BY <1>0, <4>1, <4>2 DEF TypeOK
    <3> QED
      BY <3>2, <3>3
  <2> QED
    BY <2>1, <2>2 DEF DeliverSession
<1>1. TypeOK'
  BY <1>0, <1>c DEF DeliverSession, Goto, TypeOK, SessionPc, BatchPc
<1>2. Locking'
  BY <1>0 DEF DeliverSession, Goto, IInv, TypeOK, Locking, Owning, Publishing, SessionPc, BatchPc
<1>3. Nesting'
  BY <1>0 DEF DeliverSession, Goto, IInv, TypeOK, Nesting
<1>4. Images'
  BY <1>0 DEF DeliverSession, Goto, IInv, TypeOK, Locking, Images, Owning, Publishing
<1> QED
  BY <1>1, <1>2, <1>3, <1>4 DEF IInv

LEMMA DeliverBatchStep ==
  ASSUME IInv, NEW b \in Actor, DeliverBatch(b)
  PROVE  IInv'
<1> USE NamesAssumption DEF IInv, DeliverBatch, Goto, files, table, database, session, images, Actor
<1>1. TypeOK'
  <2>1. acked' \in SUBSET Write /\ rejected' \in SUBSET Write
    BY DEF TypeOK
  <2> QED
    BY <2>1 DEF TypeOK, SessionPc, BatchPc
<1>2. Locking'
  BY DEF TypeOK, Locking, Owning, Publishing, SessionPc, BatchPc
<1>3. Nesting'
  BY DEF TypeOK, Nesting, Locking, Owning, Publishing
<1>4. Images'
  BY DEF TypeOK, Locking, Images, Owning, Publishing
<1> QED
  BY <1>1, <1>2, <1>3, <1>4 DEF IInv

LEMMA UncommittedTyped ==
  ASSUME TypeOK, NEW s \in Session
  PROVE  Uncommitted(s) \in SUBSET Write
<1>1. Confirmed(s) \in SUBSET Write
  BY ConfirmedTyped
<1> QED
  BY <1>1 DEF Uncommitted, TypeOK, Actor

LEMMA EndSessionStep ==
  ASSUME FaultFree, IInv, NEW s \in Session, EndSession(s)
  PROVE  IInv'
<1> USE NamesAssumption DEF files, table, Actor
<1>0. /\ pc[s] \in {"idle", "reply"}
      /\ pc' = [pc EXCEPT ![s] = "closed"]
      /\ depth' = [depth EXCEPT ![s] = 0]
      /\ UNCHANGED <<files, table, waiters>>
      /\ before' = [before EXCEPT ![s] = NoImage]
      /\ after' = [after EXCEPT ![s] = NoImage]
  BY DEF EndSession, SessionOver, ForgetSession, ForgetImages, Goto
<1>1. holder = s => depth[s] > 0 /\ depth[s] \in Nat /\ depth[s] = Len(stack) /\ Head(stack) = disk
  BY <1>0 DEF IInv, TypeOK, Locking, Nesting
<1>2. holder = s => mem' = disk /\ stack' = <<>> /\ holder' = NoOne
  BY <1>1 DEF EndSession, RollbackGuard, Release, IInv, TypeOK, FaultFree
<1>3. holder # s => UNCHANGED <<mem, stack, holder>> /\ depth[s] = 0
  BY DEF EndSession, RollbackGuard, IInv, Locking, TypeOK
<1>4. TypeOK'
  <2>1. Uncommitted(s) \in SUBSET Write
    BY UncommittedTyped DEF IInv
  <2>2. <<>> \in Seq(Image) /\ <<>> \in Seq(SUBSET Write)
    OBVIOUS
  <2>3. mem' \in Image /\ stack' \in Seq(Image) /\ holder' \in Actor \cup {NoOne}
    BY <1>2, <1>3, <2>2 DEF IInv, TypeOK, Images
  <2>4. rejected' \in SUBSET Write
    BY <2>1 DEF EndSession, IInv, TypeOK
  <2>5. pc' \in [Actor -> SessionPc \cup BatchPc]
    BY <1>0 DEF IInv, TypeOK, SessionPc, BatchPc
  <2> QED
    BY <1>0, <2>2, <2>3, <2>4, <2>5
       DEF EndSession, ForgetSession, IInv, TypeOK
<1>5. Locking'
  BY <1>0, <1>2, <1>3 DEF IInv, TypeOK, Locking, Owning, Publishing, SessionPc, BatchPc
<1>6. Nesting'
  BY <1>0, <1>2, <1>3 DEF IInv, TypeOK, Nesting, Locking
<1>7. Images'
  BY <1>0, <1>2, <1>3 DEF IInv, TypeOK, Locking, Images, Owning, Publishing
<1> QED
  BY <1>4, <1>5, <1>6, <1>7 DEF IInv

LEMMA CrashStep ==
  ASSUME IInv, Crash
  PROVE  IInv'
<1> USE NamesAssumption DEF Crash, files, Actor
<1>1. TypeOK'
  <2>1. \A s \in Session : Uncommitted(s) \in SUBSET Write
    BY UncommittedTyped DEF IInv
  <2>2. UNION {Uncommitted(s) : s \in Session} \in SUBSET Write
    BY <2>1
  <2>3. rejected' \in SUBSET Write
    BY <2>2 DEF IInv, TypeOK
  <2>4. <<>> \in Seq(Image) /\ <<>> \in Seq(SUBSET Write) /\ <<>> \in Seq(Actor)
    OBVIOUS
  <2>5. EmptyImage \in Image
    BY BoundsAssumption DEF EmptyImage, Image
  <2>6. pc' \in [Actor -> SessionPc \cup BatchPc]
    BY DEF SessionPc, BatchPc
  <2> QED
    BY <2>3, <2>4, <2>5, <2>6 DEF IInv, TypeOK
<1>2. Locking'
  BY DEF IInv, TypeOK, Locking, Owning, Publishing, SessionPc, BatchPc
<1>3. Nesting'
  BY DEF Nesting
<1>4. Images'
  BY DEF IInv, Images, Publishing
<1> QED
  BY <1>1, <1>2, <1>3, <1>4 DEF IInv

LEMMA NextStep ==
  ASSUME FaultFree, IInv, [Next]_vars
  PROVE  IInv'
<1>1. ASSUME ClientStep
      PROVE  IInv'
  BY <1>1, OpenSocketStep, SendStep, SubmitBatchStep, DisconnectStep DEF ClientStep
<1>2. ASSUME NEW a \in Actor, ServerStep(a)
      PROVE  IInv'
  <2>1. CASE LookupHit(a) \/ LookupMiss(a) \/ Loaded(a) \/ LoadFailed(a)
    BY <2>1, LookupHitStep, LookupMissStep, LoadedStep, LoadFailedStep
  <2>2. CASE Grant(a)
    BY <2>2, GrantStep
  <2>3. CASE RunSession(a)
    BY <2>3, RunSessionStep
  <2>4. CASE RunBatch(a)
    BY <2>4, RunBatchStep DEF RunBatch
  <2>5. CASE PublishCreate(a) \/ PublishSync(a) \/ PublishRename(a) \/ PublishFailed(a)
    BY <2>5, PublishCreateStep, PublishSyncStep, PublishRenameStep, PublishFailedStep
  <2>6. CASE Restore(a)
    BY <2>6, RestoreStep
  <2>7. CASE DeliverSession(a) \/ DeliverBatch(a)
    BY <2>7, DeliverSessionStep, DeliverBatchStep
  <2> QED
    BY <1>2, <2>1, <2>2, <2>3, <2>4, <2>5, <2>6, <2>7 DEF ServerStep
<1>3. ASSUME NEW s \in Session, LockTimeout(s) \/ EndSession(s)
      PROVE  IInv'
  BY <1>3, LockTimeoutStep, EndSessionStep
<1>4. CASE Crash
  BY <1>4, CrashStep
<1>5. CASE UNCHANGED vars
  BY <1>5 DEF vars, files, table, database, request, session, images, client,
              IInv, TypeOK, Locking, Nesting, Images
<1> QED
  BY <1>1, <1>2, <1>3, <1>4, <1>5 DEF Next

-----------------------------------------------------------------------------
(* The inductive invariant: the guard, the nesting and the images fit       *)
(* together in every reachable state.                                       *)
THEOREM Invariance ==
  ASSUME FaultFree
  PROVE  Spec => []IInv
<1>1. Init => IInv
  BY InitIInv
<1>2. IInv /\ [Next]_vars => IInv'
  BY NextStep
<1> QED
  BY <1>1, <1>2, PTL DEF Spec

(* Every variable of the service keeps its type: main.rs and session.rs.    *)
THEOREM TypeCorrect ==
  ASSUME FaultFree
  PROVE  Spec => []TypeOK
<1>1. IInv => TypeOK
  BY DEF IInv
<1> QED
  BY <1>1, Invariance, PTL

(* A free database guard means: no open transaction, and an image in memory *)
(* that is the published one, on every path of execute, process_batch,      *)
(* Session::command and the teardown of serve.                              *)
THEOREM FreeImage ==
  ASSUME FaultFree
  PROVE  Spec => []FreeImageIsPublished
<1>1. IInv => FreeImageIsPublished
  <2> SUFFICES ASSUME IInv, entry, holder = NoOne
               PROVE  stack = <<>> /\ mem = disk
    BY DEF FreeImageIsPublished
  <2>1. \A s \in Session : depth[s] = 0
    BY NamesAssumption DEF IInv, TypeOK, Locking, Actor
  <2>2. \A a \in Actor : pc[a] # "restore"
    BY NamesAssumption DEF IInv, Locking, Owning
  <2> QED
    BY <2>1, <2>2 DEF IInv, Nesting, Images
<1> QED
  BY <1>1, Invariance, PTL

(* Whatever snapshot a session or a batch would restore is the published    *)
(* image: Session.before and the locals of execute and process_batch.       *)
THEOREM SnapshotPublished ==
  ASSUME FaultFree
  PROVE  Spec => []SnapshotIsPublished
<1>1. IInv => SnapshotIsPublished
  <2> SUFFICES ASSUME IInv, NEW a \in Actor, before[a] # NoImage
               PROVE  before[a] = disk
    BY DEF SnapshotIsPublished
  <2>1. CASE a \in Session
    BY <2>1 DEF IInv, Images, Publishing
  <2>2. CASE a \in Batch
    BY <2>2 DEF IInv, Images, Publishing
  <2> QED
    BY <2>1, <2>2 DEF Actor
<1> QED
  BY <1>1, Invariance, PTL

(* storage::publish never leaves a half-written image under the final name. *)
THEOREM WholeImage ==
  ASSUME FaultFree
  PROVE  Spec => []ImageIsWhole
<1>1. IInv => ImageIsWhole
  BY NamesAssumption DEF IInv, Images, ImageIsWhole
<1> QED
  BY <1>1, Invariance, PTL
=============================================================================
