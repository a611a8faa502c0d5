---------------------------- MODULE SqliteService ----------------------------
(***************************************************************************)
(* The SQLite Blueprint service (apps/sqlite): one named database, kept as *)
(* an in-memory SQLite image behind a Tokio mutex and published as a whole *)
(* file before a write is acknowledged.  Two kinds of task use it:         *)
(*   - sessions (session.rs): one socket, one command at a time, holding   *)
(*     the database guard across commands while a transaction is open;     *)
(*   - batches (main.rs): one HTTP request, run to completion even when    *)
(*     the HTTP client goes away.                                          *)
(* An image is abstracted to the set of writes it contains and the number  *)
(* of reclaimable page batches its free list holds.  Every write is issued *)
(* at most once, so an image tells exactly which writes survived.          *)
(***************************************************************************)
EXTENDS Naturals, SequencesExt

CONSTANTS
  Session,        \* sockets upgraded to the session protocol
  Batch,          \* HTTP batch requests
  Write,          \* distinct row changes the clients may ask for
  MaxDepth,       \* bound: nesting of BEGIN and SAVEPOINT
  MaxFree,        \* bound: reclaimable page batches of the initial file
  NoOne,          \* nobody holds a lock
  NoImage,        \* an absent snapshot (Option::None, or an empty Vec)
  Torn,           \* a file whose whole-image write has not completed
  SideEffects,    \* which client texts do more than their command is for, see Carries
  ImageFaults     \* which of "serialize", "rebuild" and "rollback" may fail

Actor == Session \cup Batch
Image == [rows : SUBSET Write, free : 0..MaxFree]
EmptyImage == [rows |-> {}, free |-> 0]

ASSUME BoundsAssumption == MaxDepth \in Nat /\ MaxFree \in Nat
ASSUME NamesAssumption ==
  /\ Session \cap Batch = {}
  /\ NoOne \notin Actor
  /\ NoImage \notin Image /\ Torn \notin Image /\ NoImage # Torn
ASSUME FaultAssumption ==
  /\ SideEffects \subseteq {"begin", "restart", "prepare"}
  /\ ImageFaults \subseteq {"serialize", "rebuild", "rollback"}

VARIABLES
  disk,       \* the published image file
  pending,    \* its .pending sibling
  entry,      \* Service.databases has the database
  loader,     \* holder of the Service.databases mutex, across its awaits
  mem,        \* Database.connection: the main image, uncommitted changes included
  stack,      \* the image at BEGIN and at each open SAVEPOINT of the connection
  holder,     \* owner of the database guard
  waiters,    \* FIFO queue of lock_owned() calls on the database mutex
  pc,         \* where each task stands
  op,         \* Command being served by a session
  args,       \* writes of the request being served
  reply,      \* its outcome: "ok" or "err"
  depth,      \* Session.depth
  readOnly,   \* Session.read_only
  before,     \* Session.before, or the snapshot a request may restore
  after,      \* the image a request publishes
  connected   \* the peer is still there

(* What the clients know, from the replies that reached them. *)
VARIABLES
  work,       \* writes confirmed at each nesting level of the open transaction
  maybe,      \* writes of failed scripts that the open transaction may contain
  used,       \* writes issued so far
  acked,      \* writes a delivered reply declared committed
  rejected,   \* writes known to be refused or rolled back
  scripted    \* ghost: writes that scripts and batches asked for

files    == <<disk, pending>>
table    == <<entry, loader>>
database == <<mem, stack, holder, waiters>>
request  == <<op, args, reply>>
session  == <<depth, readOnly>>
images   == <<before, after>>
client   == <<work, maybe, used, acked, rejected, scripted>>
vars == <<files, table, database, pc, request, session, images, connected, client>>

SessionPc == {"closed", "lookup", "load", "idle", "wait", "run",
              "create", "sync", "rename", "restore", "reply"}
BatchPc   == (SessionPc \ {"closed", "idle"}) \cup {"new", "done"}
Operation == {"begin", "commit", "rollback", "execute", "inspect", "close"}
NoCommand == "none"

TypeOK ==
  /\ disk \in Image \cup {Torn}
  /\ pending \in Image \cup {Torn}
  /\ entry \in BOOLEAN
  /\ loader \in Actor \cup {NoOne}
  /\ mem \in Image
  /\ stack \in Seq(Image)
  /\ holder \in Actor \cup {NoOne}
  /\ waiters \in Seq(Actor)
  /\ pc \in [Actor -> SessionPc \cup BatchPc]
  /\ op \in [Session -> Operation \cup {NoCommand}]
  /\ args \in [Actor -> SUBSET Write]
  /\ reply \in [Actor -> {"ok", "err"}]
  /\ depth \in [Session -> Nat]
  /\ readOnly \in [Session -> BOOLEAN]
  /\ before \in [Actor -> Image \cup {NoImage, Torn}]
  /\ after \in [Actor -> Image \cup {NoImage}]
  /\ connected \in [Actor -> BOOLEAN]
  /\ work \in [Session -> Seq(SUBSET Write)]
  /\ maybe \in [Session -> SUBSET Write]
  /\ used \in SUBSET Write
  /\ acked \in SUBSET Write
  /\ rejected \in SUBSET Write
  /\ scripted \in SUBSET Write

(* A missing file reads as the empty image, so it is not told from one. *)
Init ==
  /\ disk \in {[rows |-> {}, free |-> f] : f \in 0..MaxFree}
  /\ pending = Torn
  /\ entry = FALSE
  /\ loader = NoOne
  /\ mem = EmptyImage
  /\ stack = <<>>
  /\ holder = NoOne
  /\ waiters = <<>>
  /\ pc = [a \in Actor |-> IF a \in Session THEN "closed" ELSE "new"]
  /\ op = [s \in Session |-> NoCommand]
  /\ args = [a \in Actor |-> {}]
  /\ reply = [a \in Actor |-> "ok"]
  /\ depth = [s \in Session |-> 0]
  /\ readOnly = [s \in Session |-> FALSE]
  /\ before = [a \in Actor |-> NoImage]
  /\ after = [a \in Actor |-> NoImage]
  /\ connected = [a \in Actor |-> FALSE]
  /\ work = [s \in Session |-> <<>>]
  /\ maybe = [s \in Session |-> {}]
  /\ used = {}
  /\ acked = {}
  /\ rejected = {}
  /\ scripted = {}

-----------------------------------------------------------------------------
(* Helpers *)

(* Every write the client has seen confirmed inside its open transaction. *)
Confirmed(s) == UNION ToSet(work[s])

Goto(a, where) == pc' = [pc EXCEPT ![a] = where]
Answer(a, r) == reply' = [reply EXCEPT ![a] = r]
ForgetImages(a) ==
  /\ before' = [before EXCEPT ![a] = NoImage]
  /\ after' = [after EXCEPT ![a] = NoImage]

Unused == Write \ used

(***************************************************************************)
(* Service.database: look the name up, or load its image, under the lock   *)
(* of the databases map, which is held across the read of the file.        *)
(***************************************************************************)
OpenSocket(s, ro) ==
  /\ pc[s] = "closed"
  /\ Goto(s, "lookup")
  /\ readOnly' = [readOnly EXCEPT ![s] = ro]
  /\ connected' = [connected EXCEPT ![s] = TRUE]
  /\ UNCHANGED <<files, table, database, request, depth, images, client>>

SubmitBatch(b, ws) ==
  /\ pc[b] = "new"
  /\ ws \subseteq Unused /\ ws # {}
  /\ Goto(b, "lookup")
  /\ args' = [args EXCEPT ![b] = ws]
  /\ used' = used \cup ws
  /\ scripted' = scripted \cup ws
  /\ connected' = [connected EXCEPT ![b] = TRUE]
  /\ UNCHANGED <<files, table, database, op, reply, session, images,
                 work, maybe, acked, rejected>>

(* A session is open; a batch asks for the database guard. *)
Ready(a) ==
  IF a \in Session
  THEN Goto(a, "idle") /\ UNCHANGED waiters
  ELSE Goto(a, "wait") /\ waiters' = Append(waiters, a)

(* Seeded fault: the map lock is not held across the load. *)
MapLockFree_Dropped == TRUE
MapLockFree == loader = NoOne

LookupHit(a) ==
  /\ pc[a] = "lookup"
  /\ MapLockFree
  /\ entry
  /\ Ready(a)
  /\ UNCHANGED <<files, table, mem, stack, holder, request, session, images,
                 connected, client>>

LookupMiss(a) ==
  /\ pc[a] = "lookup"
  /\ MapLockFree
  /\ ~ entry
  /\ loader' = a
  /\ before' = [before EXCEPT ![a] = disk]
  /\ Goto(a, "load")
  /\ UNCHANGED <<files, entry, database, request, session, after, connected, client>>

Loaded(a) ==
  /\ pc[a] = "load"
  /\ before[a] # Torn
  /\ mem' = before[a]
  /\ stack' = <<>>
  /\ entry' = TRUE
  /\ loader' = NoOne
  /\ before' = [before EXCEPT ![a] = NoImage]
  /\ Ready(a)
  /\ UNCHANGED <<files, holder, request, session, after, connected, client>>

(* Seeded fault: a failed load keeps the map lock. *)
LoadFailed_Locked(a) ==
  /\ pc[a] = "load"
  /\ before' = [before EXCEPT ![a] = NoImage]
  /\ Goto(a, IF a \in Session THEN "closed" ELSE "reply")
  /\ Answer(a, "err")
  /\ UNCHANGED <<files, table, database, op, args, session, after, connected, client>>

(* Reading or checking the image fails: no entry is made. *)
LoadFailed(a) ==
  /\ pc[a] = "load"
  /\ loader' = NoOne
  /\ before' = [before EXCEPT ![a] = NoImage]
  /\ Goto(a, IF a \in Session THEN "closed" ELSE "reply")
  /\ Answer(a, "err")
  /\ UNCHANGED <<files, entry, database, op, args, session, after, connected, client>>

-----------------------------------------------------------------------------
(* A session's commands *)

(* What a command may write.  A script writes rows.  The text of an outer    *)
(* BEGIN is the client's own and may be more than a BEGIN; a PRAGMA may take *)
(* effect when it is prepared.  Neither looks at Session.read_only.         *)
Carries(s, o, ws) ==
  \/ o # "execute" /\ ws = {}
  \/ /\ \/ o = "execute"
        \/ o = "begin" /\ depth[s] = 0 /\ SideEffects \cap {"begin", "restart"} # {}
        \/ o = "inspect" /\ "prepare" \in SideEffects
     /\ \E w \in Unused : ws = {w}

(* The client sends a frame; Session::command takes the guard it holds, or *)
(* queues for the database mutex.                                          *)
Send(s, o, ws) ==
  /\ pc[s] = "idle" /\ connected[s]
  /\ o = "begin" => depth[s] < MaxDepth
  /\ Carries(s, o, ws)
  /\ op' = [op EXCEPT ![s] = o]
  /\ args' = [args EXCEPT ![s] = ws]
  /\ used' = used \cup ws
  /\ scripted' = IF o = "execute" THEN scripted \cup ws ELSE scripted
  /\ reply' = [reply EXCEPT ![s] = "ok"]
  /\ \/ o = "close" /\ Goto(s, "reply") /\ UNCHANGED waiters
     \/ o # "close" /\ holder = s /\ Goto(s, "run") /\ UNCHANGED waiters
     \/ o # "close" /\ holder # s /\ Goto(s, "wait") /\ waiters' = Append(waiters, s)
  /\ UNCHANGED <<files, table, mem, stack, holder, session, images, connected,
                 work, maybe, acked, rejected>>

(* Seeded fault: requests do not exclude each other. *)
GuardFree_Ignored == TRUE
GuardFree == holder = NoOne

(* The database mutex is handed over in arrival order. *)
Grant(a) ==
  /\ pc[a] = "wait"
  /\ GuardFree
  /\ waiters # <<>> /\ Head(waiters) = a
  /\ holder' = a
  /\ waiters' = Tail(waiters)
  /\ Goto(a, "run")
  /\ UNCHANGED <<files, table, mem, stack, request, session, images, connected, client>>

(* A session gives up after five seconds: "database is busy".  tokio's     *)
(* timeout polls the lock first, so a lock it could take is never lost.    *)
LockTimeout(s) ==
  /\ pc[s] = "wait"
  /\ ~ (GuardFree /\ Head(waiters) = s)
  /\ \E k \in 1..Len(waiters) : waiters[k] = s /\ waiters' = RemoveAt(waiters, k)
  /\ Goto(s, "reply")
  /\ Answer(s, "err")
  /\ UNCHANGED <<files, table, mem, stack, holder, op, args, session, images,
                 connected, client>>

(***************************************************************************)
(* session::run: what SQLite may do with a command.  A result is the       *)
(* verdict, the connection's image and savepoint stack, the depth run()    *)
(* returns with Ok, and the snapshot it captured (outside a transaction    *)
(* only, before the first action that may change state).                   *)
(***************************************************************************)
Result(ok, image, levels, next, snapshot) ==
  [ok |-> ok, mem |-> image, stack |-> levels, depth |-> next, snapshot |-> snapshot]

Snapshot(s) == IF depth[s] = 0 THEN mem ELSE NoImage
Nothing(s, ok, snapshot) == Result(ok, mem, stack, depth[s], snapshot)

(* An interrupted or failing statement may roll the whole transaction back. *)
AutoRollback(s) ==
  IF depth[s] = 0 \/ stack = <<>> THEN {}
  ELSE {Result(FALSE, Head(stack), <<>>, depth[s], NoImage)}

(* The image with the writes of the request in it. *)
Written(s) == [mem EXCEPT !.rows = @ \cup args[s]]

(* BEGIN or SAVEPOINT.  The text of an outer BEGIN may fail with its        *)
(* transaction left open, or end it ("transaction did not start"), and it   *)
(* may commit and begin again.  A savepoint in it is inert: COMMIT and       *)
(* ROLLBACK end it, and the session releases its own by name.               *)
BeginResults(s) ==
  {Result(TRUE, Written(s), Append(stack, mem), depth[s] + 1, Snapshot(s)),
   Nothing(s, FALSE, Snapshot(s))}
  \cup
  (IF depth[s] # 0 THEN {}
   ELSE {Result(FALSE, Written(s), stack, 0, mem),
         Result(FALSE, Written(s), Append(stack, mem), 0, mem)})
  \cup
  (IF args[s] = {} \/ "restart" \notin SideEffects THEN {}
   ELSE {Result(TRUE, Written(s), Append(stack, Written(s)), 1, mem)})

(* COMMIT or RELEASE keeps the image; ROLLBACK [TO] returns to the level's. *)
CommitResults(s) ==
  IF depth[s] = 0 THEN {Nothing(s, TRUE, NoImage)}
  ELSE {Result(TRUE, mem, Front(stack), depth[s] - 1, NoImage),
        Nothing(s, FALSE, NoImage)} \cup AutoRollback(s)

RollbackResults(s) ==
  IF depth[s] = 0 THEN {Nothing(s, TRUE, NoImage)}
  ELSE {Result(TRUE, Last(stack), Front(stack), depth[s] - 1, NoImage),
        Nothing(s, FALSE, NoImage)}

(* A script that writes: refused in a read-only session; otherwise it runs, *)
(* or fails before or after its first statements took effect.              *)
ExecuteResults(s) ==
  IF readOnly[s] THEN {Nothing(s, FALSE, Snapshot(s)), Nothing(s, FALSE, NoImage)}
  ELSE {Result(TRUE, Written(s), stack, depth[s], Snapshot(s)),
        Result(FALSE, Written(s), stack, depth[s], Snapshot(s)),
        Nothing(s, FALSE, NoImage)} \cup AutoRollback(s)

(* Prepare, or a script that only reads: a PRAGMA or a function call makes  *)
(* the compiler guard capture the image, before a PRAGMA can take effect.   *)
InspectResults(s) ==
  {Result(ok, Written(s), stack, depth[s], Snapshot(s)) : ok \in BOOLEAN}
  \cup {Nothing(s, ok, NoImage) : ok \in {FALSE, args[s] = {}}}
  \cup {Nothing(s, FALSE, Snapshot(s))}

Results(s) ==
  CASE op[s] = "begin"    -> BeginResults(s)
    [] op[s] = "commit"   -> CommitResults(s)
    [] op[s] = "rollback" -> RollbackResults(s)
    [] op[s] = "execute"  -> ExecuteResults(s)
    [] OTHER              -> InspectResults(s)

-----------------------------------------------------------------------------
(* Session::command after run: depth, guard, reclaim, publication *)

Release == holder' = NoOne

(* Seeded fault: reclaim for everyone. *)
Reclaimed_ReadOnly(s, r) ==
  IF r.ok
  THEN {[r.mem EXCEPT !.free = f] : f \in 0..r.mem.free} ELSE {r.mem}

(* Free pages are returned after a successful request of a writing session. *)
Reclaimed(s, r) ==
  IF r.ok /\ ~ readOnly[s]
  THEN {[r.mem EXCEPT !.free = f] : f \in {r.mem.free, IF r.mem.free > 0 THEN r.mem.free - 1 ELSE 0}}
  ELSE {r.mem}

(* Seeded fault: an error never changes the recorded depth. *)
NextDepth_Trusting(s, r) == IF r.ok THEN r.depth ELSE depth[s]

(* The depth the session records: SQLite may have left the transaction. *)
NextDepth(s, r) ==
  IF r.ok THEN r.depth ELSE IF r.stack = <<>> THEN 0 ELSE depth[s]

(* What the request must be measured against, and restored to. *)
Baseline(s, r) == IF depth[s] > 0 THEN before[s] ELSE r.snapshot

(* Seeded fault: every command of a transaction takes the snapshot anew. *)
KeepTransaction_Recapture(s, r) ==
  /\ NextDepth(s, r) > 0
  /\ mem' = r.mem
  /\ before' = [before EXCEPT ![s] = mem]
  /\ Goto(s, "reply")
  /\ UNCHANGED <<holder, after>>

KeepTransaction(s, r) ==
  /\ NextDepth(s, r) > 0
  /\ mem' = r.mem
  /\ before' = IF depth[s] = 0 THEN [before EXCEPT ![s] = r.snapshot] ELSE before
  /\ Goto(s, "reply")
  /\ UNCHANGED <<holder, after>>

FinishReadOnly(s, r) ==
  /\ NextDepth(s, r) = 0
  /\ Baseline(s, r) = NoImage
  /\ mem' = r.mem
  /\ Release
  /\ Goto(s, "reply")
  /\ ForgetImages(s)

(* Seeded fault: the restore takes Session.before, which autocommit never set. *)
CarryBaseline_FromSession(s, r) == UNCHANGED before

CarryBaseline(s, r) == before' = [before EXCEPT ![s] = Baseline(s, r)]

(* Seeded fault: a failed autocommit script is published like any other. *)
FinishWrite_NoRestore(s, r) ==
  /\ NextDepth(s, r) = 0
  /\ Baseline(s, r) # NoImage
  /\ mem' = r.mem
  /\ Goto(s, "create")
  /\ CarryBaseline(s, r)
  /\ after' = [after EXCEPT ![s] = r.mem]
  /\ UNCHANGED holder

(* A failed autocommit script, or an image over the limit, is restored; a  *)
(* changed image is published; an unchanged one needs neither.             *)
FinishWrite(s, r) ==
  /\ NextDepth(s, r) = 0
  /\ Baseline(s, r) # NoImage
  /\ \E image \in Reclaimed(s, r) :
       /\ mem' = image
       /\ \/ /\ (~ r.ok /\ depth[s] = 0) \/ image # Baseline(s, r)
             /\ Goto(s, "restore")
             /\ CarryBaseline(s, r)
             /\ UNCHANGED <<holder, after>>
          \/ /\ r.ok \/ depth[s] > 0
             /\ image # Baseline(s, r)
             /\ Goto(s, "create")
             /\ CarryBaseline(s, r)
             /\ after' = [after EXCEPT ![s] = image]
             /\ UNCHANGED holder
          \/ /\ r.ok \/ depth[s] > 0
             /\ image = Baseline(s, r)
             /\ Release
             /\ Goto(s, "reply")
             /\ ForgetImages(s)

(* Serializing the image to publish fails: the early return drops the guard. *)
AfterLost(s, r) ==
  /\ "serialize" \in ImageFaults
  /\ NextDepth(s, r) = 0
  /\ Baseline(s, r) # NoImage
  /\ mem' \in Reclaimed(s, r)
  /\ Answer(s, "err")
  /\ Release
  /\ Goto(s, "reply")
  /\ ForgetImages(s)

RunSession(s) ==
  /\ s \in Session /\ pc[s] = "run"
  /\ \E r \in Results(s) :
       /\ stack' = r.stack
       /\ depth' = [depth EXCEPT ![s] = NextDepth(s, r)]
       /\ \/ /\ Answer(s, IF r.ok THEN "ok" ELSE "err")
             /\ KeepTransaction(s, r) \/ FinishReadOnly(s, r) \/ FinishWrite(s, r)
          \/ AfterLost(s, r)
  /\ UNCHANGED <<files, table, waiters, op, args, readOnly, connected, client>>

(* main.rs execute: BEGIN IMMEDIATE, the statements, COMMIT.  A failure    *)
(* (before the commit, or the image limit after it) restores the snapshot. *)
RunBatch(b) ==
  LET written == [mem EXCEPT !.rows = @ \cup args[b]]
  IN
  /\ b \in Batch /\ pc[b] = "run"
  /\ before' = [before EXCEPT ![b] = mem]
  /\ \/ /\ mem' = written
        /\ after' = [after EXCEPT ![b] = written]
        /\ Goto(b, "create")
        /\ Answer(b, "ok")
     \/ /\ mem' \in {mem, written}
        /\ Goto(b, "restore")
        /\ Answer(b, "err")
        /\ UNCHANGED after
  /\ UNCHANGED <<files, table, stack, holder, waiters, op, args, session,
                 connected, client>>

-----------------------------------------------------------------------------
(* storage::publish, on the host: create and fill the .pending file, sync  *)
(* it, rename it over the image.  Only the rename touches the image.       *)

(* Seeded fault: the rename does not wait for the image to be written. *)
PublishCreate_NoSync(a) ==
  /\ pc[a] = "create"
  /\ pending' = Torn
  /\ Goto(a, "rename")
  /\ UNCHANGED <<disk, table, database, request, session, images, connected, client>>

PublishCreate(a) ==
  /\ pc[a] = "create"
  /\ pending' = Torn
  /\ Goto(a, "sync")
  /\ UNCHANGED <<disk, table, database, request, session, images, connected, client>>

PublishSync(a) ==
  /\ pc[a] = "sync"
  /\ pending' = after[a]
  /\ Goto(a, "rename")
  /\ UNCHANGED <<disk, table, database, request, session, images, connected, client>>

(* The guard is dropped when the publishing call returns. *)
PublishRename(a) ==
  /\ pc[a] = "rename"
  /\ disk' = pending
  /\ pending' = Torn
  /\ Release
  /\ ForgetImages(a)
  /\ Goto(a, "reply")
  /\ UNCHANGED <<table, mem, stack, waiters, request, session, connected, client>>

PublishFailed(a) ==
  /\ pc[a] \in {"create", "sync", "rename"}
  /\ Goto(a, "restore")
  /\ Answer(a, "err")
  /\ UNCHANGED <<files, table, database, op, args, session, images, connected, client>>

(* Rebuild the connection from the snapshot before dropping the guard.  If *)
(* the rebuild fails, the closure returns early and drops the guard anyway. *)
Restore(a) ==
  /\ pc[a] = "restore"
  /\ \/ mem' = before[a] /\ stack' = <<>>
     \/ "rebuild" \in ImageFaults /\ UNCHANGED <<mem, stack>>
  /\ Release
  /\ ForgetImages(a)
  /\ Answer(a, "err")
  /\ Goto(a, "reply")
  /\ UNCHANGED <<files, table, waiters, op, args, session, connected, client>>

-----------------------------------------------------------------------------
(* Replies *)

(* The nesting levels as the client counts them after an Ok reply. *)
HeardLevels(s) ==
  LET levels == work[s]
      n == Len(levels)
  IN
  CASE op[s] = "begin" -> Append(levels, args[s])
    [] op[s] \in {"execute", "inspect"} /\ n > 0 -> Append(Front(levels), Last(levels) \cup args[s])
    [] op[s] = "commit" /\ n > 1 ->
         Append(Front(Front(levels)), Last(Front(levels)) \cup Last(levels))
    [] n > 0 /\ (op[s] = "rollback" \/ (op[s] = "commit" /\ n = 1)) -> Front(levels)
    [] OTHER -> levels

(* An Ok reply tells the client which writes its transaction now holds, or *)
(* which became durable; the reply's depth tells it where it stands.       *)
LearnOk(s) ==
  LET levels == work[s]
      n == Len(levels)
  IN
  /\ work' = [work EXCEPT ![s] = HeardLevels(s)]
  /\ acked' = acked \cup
       (IF op[s] \in {"execute", "inspect"} /\ n = 0 THEN args[s]
        ELSE IF op[s] = "commit" /\ n = 1 THEN Confirmed(s) ELSE {})
  /\ rejected' = rejected \cup
       (IF op[s] = "rollback" /\ n > 0
        THEN Last(levels) \cup (IF n = 1 THEN maybe[s] ELSE {}) ELSE {})
  /\ maybe' = [maybe EXCEPT ![s] = IF depth[s] = 0 THEN {} ELSE @]

(* An error at depth 0 means nothing of the transaction survives; inside a *)
(* transaction the failed script's first statements may still be in it.    *)
LearnErr(s) ==
  IF depth[s] = 0
  THEN /\ rejected' = rejected \cup Confirmed(s) \cup maybe[s] \cup args[s]
       /\ work' = [work EXCEPT ![s] = <<>>]
       /\ maybe' = [maybe EXCEPT ![s] = {}]
       /\ UNCHANGED acked
  ELSE /\ maybe' = [maybe EXCEPT ![s] = @ \cup args[s]]
       /\ UNCHANGED <<work, acked, rejected>>

DeliverSession(s) ==
  /\ s \in Session /\ pc[s] = "reply" /\ connected[s] /\ op[s] # "close"
  /\ Goto(s, "idle")
  /\ op' = [op EXCEPT ![s] = NoCommand]
  /\ args' = [args EXCEPT ![s] = {}]
  /\ reply' = [reply EXCEPT ![s] = "ok"]
  /\ IF reply[s] = "ok" THEN LearnOk(s) ELSE LearnErr(s)
  /\ UNCHANGED <<files, table, database, session, images, connected, used, scripted>>

DeliverBatch(b) ==
  /\ b \in Batch /\ pc[b] = "reply"
  /\ Goto(b, "done")
  /\ args' = [args EXCEPT ![b] = {}]
  /\ reply' = [reply EXCEPT ![b] = "ok"]
  /\ IF connected[b]
     THEN /\ acked' = IF reply[b] = "ok" THEN acked \cup args[b] ELSE acked
          /\ rejected' = IF reply[b] = "ok" THEN rejected ELSE rejected \cup args[b]
     ELSE UNCHANGED <<acked, rejected>>
  /\ UNCHANGED <<files, table, database, op, session, images, connected,
                 work, maybe, used, scripted>>

-----------------------------------------------------------------------------
(* Lost peers, expiry and restart *)

Disconnect(a) ==
  /\ connected[a] /\ pc[a] \notin {"closed", "new", "done"}
  /\ connected' = [connected EXCEPT ![a] = FALSE]
  /\ UNCHANGED <<files, table, database, pc, request, session, images, client>>

(* Writes that only an open transaction holds: losing it undoes them. *)
Uncommitted(s) ==
  IF depth[s] > 0 THEN Confirmed(s) \cup maybe[s] \cup args[s] ELSE {}

ForgetSession(s) ==
  /\ op' = [op EXCEPT ![s] = NoCommand]
  /\ args' = [args EXCEPT ![s] = {}]
  /\ reply' = [reply EXCEPT ![s] = "ok"]
  /\ depth' = [depth EXCEPT ![s] = 0]
  /\ readOnly' = [readOnly EXCEPT ![s] = FALSE]
  /\ connected' = [connected EXCEPT ![s] = FALSE]
  /\ work' = [work EXCEPT ![s] = <<>>]
  /\ maybe' = [maybe EXCEPT ![s] = {}]

(* Seeded fault: an idle transaction never expires. *)
SessionOver_NoExpiry(s) ==
  \/ pc[s] = "idle" /\ ~ connected[s]
  \/ pc[s] = "reply" /\ (~ connected[s] \/ op[s] = "close")

(* serve leaves its loop: a read or a write on the socket failed, a Close  *)
(* was answered, or a transaction stayed idle for sixty seconds.           *)
SessionOver(s) ==
  \/ pc[s] = "idle" /\ (~ connected[s] \/ depth[s] > 0)
  \/ pc[s] = "reply" /\ (~ connected[s] \/ op[s] = "close")

(* Seeded fault: the guard is dropped without a rollback. *)
RollbackGuard_Dropped(s) ==
  /\ holder' = IF holder = s THEN NoOne ELSE holder
  /\ UNCHANGED <<mem, stack>>

(* ... and rolls back under the owned guard before dropping it, which it does *)
(* even if the ROLLBACK fails.                                               *)
RollbackGuard(s) ==
  IF holder = s
  THEN /\ \/ /\ mem' = IF stack = <<>> THEN mem ELSE Head(stack)
             /\ stack' = <<>>
          \/ "rollback" \in ImageFaults /\ UNCHANGED <<mem, stack>>
       /\ Release
  ELSE UNCHANGED <<mem, stack, holder>>

EndSession(s) ==
  /\ SessionOver(s)
  /\ RollbackGuard(s)
  /\ rejected' = rejected \cup Uncommitted(s)
  /\ ForgetSession(s)
  /\ ForgetImages(s)
  /\ Goto(s, "closed")
  /\ UNCHANGED <<files, table, waiters, used, acked, scripted>>

(* The process dies: only the two files remain. *)
Crash ==
  /\ entry' = FALSE
  /\ loader' = NoOne
  /\ mem' = EmptyImage
  /\ stack' = <<>>
  /\ holder' = NoOne
  /\ waiters' = <<>>
  /\ pc' = [a \in Actor |-> IF a \in Session THEN "closed"
                            ELSE IF pc[a] = "new" THEN "new" ELSE "done"]
  /\ op' = [s \in Session |-> NoCommand]
  /\ args' = [a \in Actor |-> {}]
  /\ reply' = [a \in Actor |-> "ok"]
  /\ depth' = [s \in Session |-> 0]
  /\ readOnly' = [s \in Session |-> FALSE]
  /\ before' = [a \in Actor |-> NoImage]
  /\ after' = [a \in Actor |-> NoImage]
  /\ connected' = [a \in Actor |-> FALSE]
  /\ work' = [s \in Session |-> <<>>]
  /\ maybe' = [s \in Session |-> {}]
  /\ rejected' = rejected \cup UNION {Uncommitted(s) : s \in Session}
  /\ UNCHANGED <<files, used, acked, scripted>>

-----------------------------------------------------------------------------
ClientStep ==
  \/ \E s \in Session : \E ro \in BOOLEAN : OpenSocket(s, ro)
  \/ \E s \in Session : \E o \in Operation : \E ws \in SUBSET Write : Send(s, o, ws)
  \/ \E b \in Batch : \E ws \in SUBSET Write : SubmitBatch(b, ws)
  \/ \E a \in Actor : Disconnect(a)

ServerStep(a) ==
  \/ LookupHit(a) \/ LookupMiss(a) \/ Loaded(a) \/ LoadFailed(a)
  \/ Grant(a)
  \/ RunSession(a) \/ RunBatch(a)
  \/ PublishCreate(a) \/ PublishSync(a) \/ PublishRename(a) \/ PublishFailed(a)
  \/ Restore(a)
  \/ DeliverSession(a) \/ DeliverBatch(a)

Next ==
  \/ ClientStep
  \/ \E a \in Actor : ServerStep(a)
  \/ \E s \in Session : LockTimeout(s) \/ EndSession(s)
  \/ Crash

Spec == Init /\ [][Next]_vars

-----------------------------------------------------------------------------
(* Properties *)

(* Whenever nobody owns the database guard, the connection is outside any  *)
(* transaction and holds exactly the published image: no request ever      *)
(* starts from another's uncommitted or unpublished rows, and an error     *)
(* path that drops the guard has undone its own changes first.             *)
FreeImageIsPublished ==
  entry /\ holder = NoOne => stack = <<>> /\ mem = disk

(* Session.depth, SQLite's own nesting, the guard kept in the session and  *)
(* the client's count of open levels agree between two commands.           *)
DepthsAgree ==
  \A s \in Session : pc[s] = "idle" =>
    /\ depth[s] > 0 <=> holder = s
    /\ holder = s => depth[s] = Len(stack)
    /\ depth[s] = Len(work[s])

(* The snapshot that a failed commit, script or publication would restore  *)
(* is the image that was last published, however long the transaction ran. *)
SnapshotIsPublished ==
  \A a \in Actor : before[a] # NoImage => before[a] = disk

(* No crash point leaves a half-written image where recovery reads it.     *)
ImageIsWhole == disk # Torn

(* A write whose client was told it failed, or that it was rolled back, is  *)
(* in no published image: neither now nor through a later publication.     *)
RejectedStaysOut == rejected \cap disk.rows = {}

(* A disk change is one whole request: everything a batch wrote, or        *)
(* everything a transaction confirmed to its client, with nothing of       *)
(* another client's and nothing lost.                                      *)
AtomicStep ==
  \E a \in Actor :
    LET mine == IF a \in Session THEN Confirmed(a) \cup args[a] ELSE args[a]
        mayAdd == IF a \in Session THEN mine \cup maybe[a] ELSE mine
    IN  disk.rows \cup mine \subseteq disk'.rows /\ disk'.rows \subseteq disk.rows \cup mayAdd
PublicationIsAtomic == [][disk'.rows # disk.rows => AtomicStep]_disk

(* What a read-only session publishes, by the text of its BEGIN or a PRAGMA, *)
(* holds no write of a script, refused by it or left by another client, and  *)
(* its requests reclaim no pages.                                           *)
ReadOnlyScriptsPublishNothing ==
  [][\A s \in Session : holder = s /\ readOnly[s] =>
       disk'.free = disk.free /\ (disk'.rows \ disk.rows) \cap scripted = {}]_vars

(* The service implements the durable store, taking the rows of the        *)
(* published file for the committed writes.                                *)
Store == INSTANCE DurableStore
           WITH committed <- disk.rows, confirmed <- acked, denied <- rejected
ImplementsStore == Store!DSSpec

(* Liveness, with the server's tasks and timers running.  Clients owe      *)
(* nothing.  The tokio mutexes are fair, so a waiting Lookup is not passed *)
(* over for ever.                                                          *)
Fairness ==
  /\ \A a \in Actor : WF_vars(ServerStep(a)) /\ SF_vars(LookupHit(a) \/ LookupMiss(a))
  /\ \A s \in Session : WF_vars(LockTimeout(s)) /\ WF_vars(EndSession(s))
FairSpec == Spec /\ Fairness

(* A session whose client falls silent gives its guard up.                 *)
SilentSessionReleasesGuard ==
  \A s \in Session :
    (<>[][~ \E o \in Operation, ws \in SUBSET Write : Send(s, o, ws)]_vars)
      => []<>(holder # s)

(* An admitted batch is answered, or lost to a crash, provided no client   *)
(* keeps a transaction open for ever: every other path lets the guard go.  *)
BatchIsAnswered ==
  \A b \in Batch :
    ([]<>(holder \notin Session)) => (pc[b] \notin {"new", "done"} ~> pc[b] = "done")
=============================================================================
