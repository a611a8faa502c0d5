---------------------------- MODULE BuildCacheProofs ----------------------------
(***************************************************************************)
(* Proofs about BuildCache for every set of inputs, contents and           *)
(* selections and any number of edits.                                     *)
(***************************************************************************)
EXTENDS BuildCache, TLAPS

(* Which inputs each phase of a build knows of.                            *)
Watching ==
  /\ watched.valid => caching /\ pc \in {"stage", "again", "rewatch", "recheck", "compile"}
                                         \cup Recording
  /\ pc \in Recording => watched.valid
  /\ pc \in {"check", "outputs", "fresh", "invalidate", "watch"} => caching
  /\ watched.started <= clock
Rooted ==
  /\ pc \in {"watch", "stage", "again"} => roots = Base
  /\ pc \in {"rewatch", "recheck"} \cup Recording => roots = Known
  /\ watched.valid /\ pc = "compile" => roots = Known
Covered ==
  /\ pc = "watch" => scan.todo \cup DOMAIN scan.entries = Base
  /\ watched.valid /\ pc \in {"stage", "again", "rewatch", "recheck"} =>
       DOMAIN watched.entries = Base
  /\ pc = "rewatch" => scan.todo \cup DOMAIN scan.entries = Known
  /\ pc = "recheck" => DOMAIN complete = Known
  /\ watched.valid /\ pc \in {"compile"} \cup Recording => DOMAIN watched.entries = Known
  /\ pc = "complete" => DOMAIN memo = Known /\ scan.todo \cup DOMAIN scan.entries = Path
  /\ pc \in {"readout", "reknown", "verify"} => DOMAIN complete = Path
  /\ pc \in {"reknown", "verify"} => packed # NoOutput
Reading ==
  /\ pc \in {"off", "check", "outputs", "fresh", "invalidate", "watch"} => DOMAIN got = {}
  /\ pc \in {"stage", "again", "rewatch", "recheck"} => DOMAIN got \subseteq Staged

Control == Watching /\ Rooted /\ Covered /\ Reading
TInv == TypeOK /\ Control

(* Entry e was once true of p: a file that is in e's state has its content. *)
Witness(e, p, files, now) ==
  /\ e \in Entry
  /\ e.state = NoState <=> e.digest = Missing
  /\ e.state.ctime <= now
  /\ FileState(files[p]) = e.state => files[p].content = e.digest
Witnessed(es) == \A p \in DOMAIN es : Witness(es[p], p, file, clock)

Clocked == \A p \in Path : file[p].ctime \in 1..clock
Witnesses ==
  /\ Clocked
  /\ Witnessed(memo) /\ Witnessed(scan.entries) /\ Witnessed(watched.entries)
  /\ Witnessed(complete)
  /\ stamp # NoStamp => Witnessed(stamp.inputs)

(* While p is as entry e saw it, d is what e saw.                          *)
Matched(e, d, f) == FileState(f) = e.state => d = e.digest
(* While p is no younger than t, d is its content.                         *)
Aged(d, t, f) ==
  /\ f.content = Missing => d = Missing
  /\ f.content # Missing /\ f.ctime <= t => d = f.content

(* Staging copied what the first watch saw, as far as that can be told.  An *)
(* input out of its sight stays as it was copied until the second watch.    *)
Copied ==
  /\ pc \in {"stage", "again", "rewatch", "recheck"} =>
       \A p \in (Base \cap DOMAIN got) \ unseen : Matched(watched.entries[p], got[p], file[p])
  /\ pc \in {"stage", "again"} =>
       \A p \in (Dep \cap DOMAIN got) \ unseen : got[p] = file[p].content
  /\ pc = "rewatch" =>
       \A p \in (Dep \cap DOMAIN got) \ unseen :
         IF p \in DOMAIN scan.entries THEN Matched(scan.entries[p], got[p], file[p])
         ELSE got[p] = file[p].content
  /\ pc = "recheck" =>
       /\ \A p \in (Dep \cap DOMAIN got) \ unseen : Matched(complete[p], got[p], file[p])
       /\ \A p \in (Base \cap DOMAIN got \cap DOMAIN scan.entries) \ unseen :
            scan.entries[p].state = watched.entries[p].state => Matched(complete[p], got[p], file[p])
(* The compiler read what the second watch saw, or what is young.          *)
Compiling ==
  pc \in {"compile"} \cup Recording =>
    /\ \A p \in (Known \cap DOMAIN Seen) \ unseen : Matched(watched.entries[p], Seen[p], file[p])
    /\ \A p \in (Late \cap DOMAIN Seen) \ unseen : Aged(Seen[p], watched.started, file[p])
(* The snapshots of record lead from there to what the stamp will list.    *)
Recorded ==
  /\ pc \in Recording => output \in Product /\ output.sel = sel
  /\ pc = "complete" /\ scan.stable =>
       /\ \A p \in (Late \cap DOMAIN scan.entries) \ unseen :
            scan.entries[p].state.ctime <= watched.started => scan.entries[p].digest = Seen[p]
       /\ \A p \in (Known \cap DOMAIN scan.entries) \ unseen :
            Matched(watched.entries[p], scan.entries[p].digest, file[p])
  /\ pc \in {"readout", "reknown", "verify"} =>
       \A p \in Late \ unseen : complete[p].digest = Seen[p]
  /\ pc \in {"readout", "reknown"} =>
       \A p \in Known \ unseen : Matched(watched.entries[p], complete[p].digest, file[p])
  /\ pc = "reknown" =>
       \A p \in (Known \cap DOMAIN scan.entries) \ unseen :
         scan.entries[p].state = watched.entries[p].state => complete[p].digest = Seen[p]
  /\ pc = "verify" => \A p \in Path \ unseen : complete[p].digest = Seen[p]
  /\ pc \in {"reknown", "verify"} => packed = output
Readings == watched.valid => Copied /\ Compiling /\ Recorded

(* The stamp, and the check that reads it.                                 *)
Checked ==
  /\ pc \in {"check", "outputs", "fresh"} => stamp # NoStamp /\ stamp.sel = sel
  /\ pc = "check" /\ quiet =>
       \A p \in DOMAIN scan.entries : scan.entries[p].digest = file[p].content
  /\ pc \in {"outputs", "fresh"} /\ quiet =>
       \A p \in Path : stamp.inputs[p].digest = file[p].content
  /\ pc = "fresh" /\ quiet => output = stamp.out

IInv == TInv /\ Witnesses /\ Readings /\ StampIsSound /\ Checked

USE PathsAssumption, ValuesAssumption

-----------------------------------------------------------------------------
(* Entries, snapshots and phases *)

LEMMA PutEntries ==
  ASSUME NEW es, IsEntries(es), NEW p \in Path, NEW e \in Entry
  PROVE  IsEntries(Put(es, p, e))
<1> DEFINE g == Put(es, p, e)
<1>1. DOMAIN g = DOMAIN es \cup {p} /\ g[p] = e /\ \A q \in DOMAIN es \ {p} : g[q] = es[q]
  BY DEF Put
<1> HIDE DEF g
<1>2. DOMAIN g \subseteq Path /\ \A q \in DOMAIN g : g[q] \in Entry
  BY <1>1 DEF IsEntries
<1> QED
  BY <1>2 DEF IsEntries, g

LEMMA NoEntriesOK == DOMAIN NoEntries = {} /\ IsEntries(NoEntries) /\ IsEntries(<< >>)
BY DEF NoEntries, IsEntries

LEMMA SameDigests ==
  ASSUME NEW d, NEW e, Digests(d) = Digests(e)
  PROVE  DOMAIN d = DOMAIN e /\ \A p \in DOMAIN d : d[p].digest = e[p].digest
<1>1. \A f : DOMAIN Digests(f) = DOMAIN f /\ \A p \in DOMAIN f : Digests(f)[p] = f[p].digest
  BY DEF Digests
<1> QED
  BY <1>1

(* What an empty snapshot, watch and read record look like. *)
LEMMA Nothing ==
  /\ NoScan.todo = {} /\ NoScan.entries = NoEntries
  /\ NoWatch.entries = NoEntries /\ NoWatch.started = 0 /\ ~ NoWatch.valid
  /\ IsScan(NoScan) /\ IsWatch(NoWatch)
  /\ << >> \in [{} -> Content \cup {Missing}] /\ DOMAIN << >> = {}
BY NoEntriesOK DEF NoScan, NoWatch, IsScan, IsWatch

LEMMA Snapshot ==
  ASSUME NEW next, NEW ps \in SUBSET Path, Scan(next, ps)
  PROVE  /\ pc' = next /\ IsScan(scan')
         /\ scan'.todo = ps /\ scan'.entries = NoEntries /\ scan'.stable
BY NoEntriesOK DEF Scan, NoScan, IsScan

LEMMA Watched ==
  ASSUME NEW w, IsWatch(w), NEW es, IsEntries(es), NEW t \in Nat, NEW v \in BOOLEAN
  PROVE  LET u == [w EXCEPT !.entries = es, !.started = t, !.valid = v]
         IN  /\ IsWatch(u) /\ u.entries = es /\ u.started = t /\ (u.valid <=> v)
BY DEF IsWatch

(* What one look at a file adds to the snapshot. *)
LEMMA Visited ==
  ASSUME TypeOK, NEW p \in Path, Due(p), NEW d \in Content \cup {Missing}, NEW s \in BOOLEAN,
         Visit(p, d, s)
  PROVE  /\ IsScan(scan')
         /\ p \notin DOMAIN scan.entries
         /\ DOMAIN scan'.entries = DOMAIN scan.entries \cup {p}
         /\ p \in scan.todo /\ scan'.todo = scan.todo \ {p}
         /\ scan'.entries[p] = [digest |-> d, state |-> FileState(file[p])]
         /\ \A q \in DOMAIN scan.entries : scan'.entries[q] = scan.entries[q]
         /\ scan'.stable <=> scan.stable /\ s
<1>1. [digest |-> d, state |-> FileState(file[p])] \in Entry
  BY DEF TypeOK, Entry, FileState, NoState
<1>2. /\ scan'.entries = Put(scan.entries, p, [digest |-> d, state |-> FileState(file[p])])
      /\ scan'.todo = scan.todo \ {p}
      /\ scan'.stable = (scan.stable /\ s)
  BY DEF Visit
<1>3. p \in scan.todo /\ scan.todo \cap DOMAIN scan.entries = {} /\ IsEntries(scan.entries)
      /\ scan.todo \subseteq Path /\ scan.stable \in BOOLEAN
  BY DEF TypeOK, Due, IsScan
<1>4. IsEntries(scan'.entries)
  <2>1. IsEntries(Put(scan.entries, p, [digest |-> d, state |-> FileState(file[p])]))
    BY <1>1, <1>3, PutEntries
  <2> QED
    BY <1>2, <2>1
<1>5. scan'.todo \in SUBSET Path /\ scan'.stable \in BOOLEAN /\ p \notin DOMAIN scan.entries
      /\ (scan'.stable <=> scan.stable /\ s)
  BY <1>2, <1>3
<1>6. /\ DOMAIN scan'.entries = DOMAIN scan.entries \cup {p}
      /\ scan'.entries[p] = [digest |-> d, state |-> FileState(file[p])]
      /\ \A q \in DOMAIN scan.entries : scan'.entries[q] = scan.entries[q]
  <2>1. \A q \in DOMAIN scan.entries : q # p
    BY <1>5
  <2> QED
    BY <1>2, <2>1 DEF Put
<1> QED
  BY <1>2, <1>3, <1>4, <1>5, <1>6 DEF IsScan

LEMMA DigestType ==
  ASSUME TypeOK, NEW p \in Path
  PROVE  Digest(p) \in Content \cup {Missing}
BY DEF TypeOK, Digest, IsEntries, Entry

-----------------------------------------------------------------------------
(* Types and phases *)

LEMMA InitTInv == Init => TInv
<1> USE NoEntriesOK, Nothing
<1> SUFFICES ASSUME Init
             PROVE  TInv
  OBVIOUS
<1>1. file \in [Path -> [content : Content \cup {Missing}, mtime : Nat, ctime : Nat]]
  BY DEF Init
<1>2. TypeOK
  <2>1. clock \in Nat /\ edits \in 0..MaxEdits
    BY DEF Init
  <2>2. /\ pc \in Stage /\ sel \in Selection /\ caching \in BOOLEAN
        /\ roots \in SUBSET Path /\ Base \subseteq roots
        /\ quiet \in BOOLEAN /\ unseen \in SUBSET Path /\ excused \in SUBSET Path
    BY DEF Init, Stage, Path
  <2>3. /\ IsEntries(memo) /\ IsEntries(complete) /\ IsScan(scan) /\ IsWatch(watched)
        /\ DOMAIN got \subseteq Path /\ got \in [DOMAIN got -> Content \cup {Missing}]
    BY DEF Init
  <2> QED
    BY <1>1, <2>1, <2>2, <2>3 DEF Init, TypeOK
<1>3. Control
  BY DEF Init, Control, Watching, Rooted, Covered, Reading, Recording
<1> QED
  BY <1>2, <1>3 DEF TInv

(* The builder's own variables in a step that touches no file of the world. *)
LEMMA BuilderTypes ==
  ASSUME TypeOK,
         UNCHANGED <<disks, stamp, quiet, excused>>, unseen' \in SUBSET Path,
         output' \in Product \cup {NoOutput, Foreign},
         pc' \in Stage, sel' \in Selection, caching' \in BOOLEAN,
         roots' \in SUBSET Path, Base \subseteq roots',
         IsEntries(memo'), IsScan(scan'), IsWatch(watched'), IsEntries(complete'),
         packed' \in Product \cup {NoOutput, Foreign},
         DOMAIN got' \subseteq Path, got' \in [DOMAIN got' -> Content \cup {Missing}]
  PROVE  TypeOK'
BY DEF TypeOK, disks, history

LEMMA LeaveTypes ==
  ASSUME TInv, Leave, UNCHANGED disks, output' \in Product \cup {NoOutput, Foreign},
         UNCHANGED <<stamp, quiet, excused>>
  PROVE  TInv'
<1> USE NoEntriesOK, Nothing
<1>1. Base \in SUBSET Path /\ Base \subseteq Base /\ "off" \in Stage /\ FALSE \in BOOLEAN
  BY DEF Path, Stage
<1>2. TypeOK'
  <2>1. sel' \in Selection /\ unseen' \in SUBSET Path
    BY DEF TInv, TypeOK, Leave
  <2> QED
    BY <1>1, <2>1, BuilderTypes DEF TInv, Leave
<1>3. Control'
  BY DEF TInv, TypeOK, Leave, Control, Watching, Rooted, Covered, Reading, Recording, disks
<1> QED
  BY <1>2, <1>3 DEF TInv

LEMMA ChangeTypes ==
  ASSUME TypeOK, NEW p \in Path, NEW c \in Content \cup {Missing}, NEW b \in BOOLEAN,
         Change(p, c, b)
  PROVE  /\ file' \in [Path -> [content : Content \cup {Missing}, mtime : Nat, ctime : Nat]]
         /\ clock' \in Nat /\ clock <= clock' /\ edits' \in 0..MaxEdits
         /\ unseen' \in SUBSET Path /\ quiet' \in BOOLEAN
<1>1. Written(c, b) \in [content : Content \cup {Missing}, mtime : Nat, ctime : Nat]
  BY DEF TypeOK, Written
<1>2. file' \in [Path -> [content : Content \cup {Missing}, mtime : Nat, ctime : Nat]]
  BY <1>1 DEF TypeOK, Change
<1>3. clock' \in Nat /\ clock <= clock' /\ edits' \in 0..MaxEdits
  BY DEF TypeOK, Change
<1>4. unseen' \in SUBSET Path /\ quiet' \in BOOLEAN
  BY DEF TypeOK, Change
<1> QED
  BY <1>2, <1>3, <1>4

(* An edit alone leaves the phases as they are. *)
LEMMA EditTInv ==
  ASSUME TInv, NEW p \in Path, NEW c \in Content \cup {Missing}, NEW b \in BOOLEAN,
         Edit(p, c, b)
  PROVE  TInv'
<1>1. TypeOK /\ Change(p, c, b)
  BY DEF TInv, Edit
<1>2. TypeOK'
  BY <1>1, ChangeTypes DEF TypeOK, Edit, cache
<1>3. Control'
  <2>1. watched.started \in Nat /\ clock \in Nat /\ clock' \in Nat /\ clock <= clock'
    BY <1>1, ChangeTypes DEF TypeOK, IsWatch
  <2> QED
    BY <2>1 DEF TInv, Control, Watching, Rooted, Covered, Reading, Edit, cache
<1> QED
  BY <1>2, <1>3 DEF TInv

LEMMA ScanTInv ==
  ASSUME TInv, NEW p \in Path, ScanFile(p)
  PROVE  TInv'
<1>1. TypeOK /\ Due(p) /\ Visit(p, Digest(p), TRUE)
  BY DEF TInv, ScanFile
<1>2. /\ IsScan(scan')
      /\ p \in scan.todo
      /\ DOMAIN scan'.entries = DOMAIN scan.entries \cup {p}
      /\ scan'.todo = scan.todo \ {p}
  BY <1>1, Visited, DigestType
<1>3. TypeOK'
  BY <1>1, <1>2 DEF ScanFile, TypeOK, disks, cache, history
<1>4. Control'
  BY <1>2 DEF ScanFile, TInv, Control, Watching, Rooted, Covered, Reading, disks, cache
<1> QED
  BY <1>3, <1>4 DEF TInv

LEMMA DisturbedDigest ==
  ASSUME TypeOK, NEW p \in Path, NEW c \in Content \cup {Missing}, NEW b \in BOOLEAN,
         ScanDisturbed(p, c, b)
  PROVE  /\ Due(p) /\ Change(p, c, b) /\ file[p].content # Missing
         /\ \E d \in Content : d \in {Digest(p), c} /\ Visit(p, d, FALSE)
BY DigestType DEF ScanDisturbed

LEMMA DisturbedTInv ==
  ASSUME TInv, NEW p \in Path, NEW c \in Content \cup {Missing}, NEW b \in BOOLEAN,
         ScanDisturbed(p, c, b)
  PROVE  TInv'
<1>1. TypeOK /\ Due(p) /\ Change(p, c, b)
  BY DEF TInv, ScanDisturbed
<1>2. PICK d \in Content : Visit(p, d, FALSE)
  BY <1>1, DisturbedDigest
<1>3. /\ IsScan(scan')
      /\ p \in scan.todo
      /\ DOMAIN scan'.entries = DOMAIN scan.entries \cup {p}
      /\ scan'.todo = scan.todo \ {p}
  BY <1>1, <1>2, Visited
<1>4. TypeOK'
  BY <1>1, <1>3, ChangeTypes DEF ScanDisturbed, TypeOK, cache
<1>5. Control'
  <2>1. watched.started \in Nat /\ clock \in Nat /\ clock' \in Nat /\ clock <= clock'
    BY <1>1, ChangeTypes DEF TypeOK, IsWatch
  <2> QED
    BY <1>3, <2>1 DEF ScanDisturbed, TInv, Control, Watching, Rooted, Covered, Reading, cache
<1> QED
  BY <1>4, <1>5 DEF TInv

LEMMA StartTInv ==
  ASSUME TInv, NEW x \in Selection, Start(x)
  PROVE  TInv'
<1>1. stamp # NoStamp => stamp.roots \in SUBSET Path /\ IsEntries(stamp.inputs)
  BY DEF TInv, TypeOK, IsEntries
<1>2. roots' \in SUBSET Path /\ Base \subseteq roots' /\ IsEntries(memo')
  BY <1>1, NoEntriesOK DEF Start, Path
<1>3. IsScan(scan') /\ pc' \in {"check", "invalidate"}
  BY <1>2, Snapshot DEF Start, TInv, TypeOK
<1>4. TypeOK'
  BY <1>2, <1>3 DEF Start, TInv, TypeOK, Stage, Scanning, disks
<1>5. Control'
  BY <1>3 DEF Start, TInv, Control, Watching, Rooted, Covered, Reading, Recording, disks
<1> QED
  BY <1>4, <1>5 DEF TInv

LEMMA InputsFreshTInv ==
  ASSUME TInv, InputsFresh
  PROVE  TInv'
<1>1. /\ pc' \in Stage \cap {"outputs", "invalidate"}
      /\ IsEntries(memo') /\ IsScan(scan')
  BY Nothing, NoEntriesOK, Snapshot DEF InputsFresh, Done, disks, history, TInv, TypeOK, IsScan, Stage, Scanning, Path, Known
<1>2. TypeOK'
  BY <1>1, BuilderTypes DEF InputsFresh, Done, disks, history, TInv, TypeOK, disks, history
<1>3. Control'
  BY <1>1, Nothing, NoEntriesOK, Snapshot DEF InputsFresh, Done, disks, history, TInv, Control, Watching, Rooted, Covered, Reading, Recording, disks
<1> QED
  BY <1>2, <1>3 DEF TInv

LEMMA OutputsFreshTInv ==
  ASSUME TInv, OutputsFresh
  PROVE  TInv'
<1>1. pc' \in Stage \cap {"fresh", "invalidate"}
  BY Nothing, NoEntriesOK, Snapshot DEF OutputsFresh, cache, disks, history, TInv, TypeOK, IsScan, Stage, Scanning, Path, Known
<1>2. TypeOK'
  BY <1>1, BuilderTypes DEF OutputsFresh, cache, disks, history, TInv, TypeOK, disks, history
<1>3. Control'
  BY <1>1, Nothing, NoEntriesOK, Snapshot DEF OutputsFresh, cache, disks, history, TInv, Control, Watching, Rooted, Covered, Reading, Recording, disks
<1> QED
  BY <1>2, <1>3 DEF TInv

LEMMA ReceiptRefusedTInv ==
  ASSUME TInv, ReceiptRefused
  PROVE  TInv'
<1>1. pc' \in Stage
  BY Nothing, NoEntriesOK, Snapshot DEF ReceiptRefused, cache, disks, history, TInv, TypeOK, IsScan, Stage, Scanning, Path, Known
<1>2. TypeOK'
  BY <1>1, BuilderTypes DEF ReceiptRefused, cache, disks, history, TInv, TypeOK, disks, history
<1>3. Control'
  BY <1>1, Nothing, NoEntriesOK, Snapshot DEF ReceiptRefused, cache, disks, history, TInv, Control, Watching, Rooted, Covered, Reading, Recording, disks
<1> QED
  BY <1>2, <1>3 DEF TInv

LEMMA WatchSourcesTInv ==
  ASSUME TInv, WatchSources
  PROVE  TInv'
<1>1. /\ pc' \in Stage /\ IsEntries(memo') /\ IsScan(scan') /\ IsWatch(watched')
      /\ watched'.entries = scan.entries /\ watched'.started = watched.started
      /\ watched'.valid <=> scan.stable
  BY Nothing, NoEntriesOK, Snapshot DEF WatchSources, Done, IsWatch, disks, history, TInv, TypeOK, IsScan, Stage, Scanning, Path, Known
<1>2. TypeOK'
  BY <1>1, BuilderTypes DEF WatchSources, Done, IsWatch, disks, history, TInv, TypeOK, disks, history
<1>3. Control'
  BY <1>1, Nothing, NoEntriesOK, Snapshot DEF WatchSources, Done, IsWatch, disks, history, TInv, Control, Watching, Rooted, Covered, Reading, Recording, disks
<1> QED
  BY <1>2, <1>3 DEF TInv

LEMMA StagingDoneTInv ==
  ASSUME TInv, StagingDone
  PROVE  TInv'
<1>1. /\ pc' \in Stage /\ IsScan(scan') /\ pc' = (IF caching THEN "again" ELSE "compile")
  BY Nothing, NoEntriesOK, Snapshot DEF StagingDone, cache, disks, history, TInv, TypeOK, IsScan, Stage, Scanning, Path, Known
<1>2. TypeOK'
  BY <1>1, BuilderTypes DEF StagingDone, cache, disks, history, TInv, TypeOK, disks, history
<1>3. Control'
  BY <1>1, Nothing, NoEntriesOK, Snapshot DEF StagingDone, cache, disks, history, TInv, Control, Watching, Rooted, Covered, Reading, Recording, disks
<1> QED
  BY <1>2, <1>3 DEF TInv

LEMMA InvalidateTInv ==
  ASSUME TInv, Invalidate
  PROVE  TInv'
<1>1. /\ roots' \in SUBSET Path /\ Base \subseteq roots' /\ pc' = "watch" /\ pc' \in Stage
      /\ IsScan(scan') /\ scan'.todo = Base /\ scan'.entries = NoEntries
  BY Snapshot DEF Invalidate, Path, Stage, Scanning
<1>2. watched'.started = clock /\ ~ watched'.valid /\ IsWatch(watched')
  BY Nothing DEF Invalidate, TInv, TypeOK, IsWatch
<1>3. TypeOK'
  BY <1>1, <1>2 DEF Invalidate, TInv, TypeOK, disks
<1>4. Control'
  BY <1>1, <1>2, NoEntriesOK DEF Invalidate, TInv, Control, Watching, Rooted, Covered, Reading, Recording, disks, TypeOK
<1> QED
  BY <1>3, <1>4 DEF TInv

LEMMA StageFileTInv ==
  ASSUME TInv, NEW p \in Path, StageFile(p)
  PROVE  TInv'
<1>1. /\ DOMAIN got' = DOMAIN got \cup {p} /\ p \in Staged
      /\ got' \in [DOMAIN got' -> Content \cup {Missing}]
  BY DEF StageFile, Read, Put, TInv, TypeOK
<1>2. TypeOK'
  BY <1>1, BuilderTypes DEF StageFile, TInv, TypeOK, disks, cache, history
<1>3. Control'
  BY <1>1 DEF StageFile, cache, TInv, Control, Watching, Rooted, Covered, Reading, Recording, disks
<1> QED
  BY <1>2, <1>3 DEF TInv

LEMMA CompileFileTInv ==
  ASSUME TInv, NEW p \in Path, CompileFile(p)
  PROVE  TInv'
<1>1. /\ DOMAIN got' = DOMAIN got \cup {p}
      /\ got' \in [DOMAIN got' -> Content \cup {Missing}]
  BY DEF CompileFile, Read, Put, TInv, TypeOK
<1>2. TypeOK'
  BY <1>1, BuilderTypes DEF CompileFile, TInv, TypeOK, disks, cache, history
<1>3. Control'
  BY <1>1 DEF CompileFile, cache, TInv, Control, Watching, Rooted, Covered, Reading, Recording, disks
<1> QED
  BY <1>2, <1>3 DEF TInv

LEMMA RewatchTInv ==
  ASSUME TInv, Rewatch
  PROVE  TInv'
<1>1. /\ pc' \in Stage /\ pc' = "rewatch" /\ IsEntries(memo') /\ IsScan(scan') /\ roots' \in SUBSET Path
      /\ scan'.todo = roots' /\ scan'.entries = NoEntries
      /\ IsWatch(watched') /\ watched'.entries = watched.entries /\ watched'.started = clock
      /\ watched'.valid => watched.valid
  BY Nothing, NoEntriesOK, Snapshot DEF Rewatch, Done, IsWatch, disks, history, TInv, TypeOK, IsScan, Stage, Scanning, Path, Known
<1>2. TypeOK'
  BY <1>1, BuilderTypes DEF Rewatch, Done, IsWatch, disks, history, TInv, TypeOK, disks, history
<1>3. Control'
  <2>1. /\ pc = "again" /\ roots = Base /\ roots' = Known /\ clock' = clock /\ clock \in Nat
        /\ caching' = caching /\ got' = got
        /\ watched.valid => DOMAIN watched.entries = Base
    BY DEF Rewatch, Done, Known, TInv, TypeOK, Control, Rooted, Covered, disks
  <2>2. Watching' /\ Rooted'
    BY <1>1, <2>1 DEF TInv, Control, Watching, Rooted, Recording
  <2>3. Covered' /\ Reading'
    BY <1>1, <2>1, NoEntriesOK DEF TInv, Control, Covered, Reading, Recording
  <2> QED
    BY <2>2, <2>3 DEF Control
<1> QED
  BY <1>2, <1>3 DEF TInv

LEMMA CapturedTInv ==
  ASSUME TInv, Captured
  PROVE  TInv'
<1>1. IsScan(scan) /\ IsWatch(watched) /\ DOMAIN watched.entries \in SUBSET Path
  BY DEF TInv, TypeOK, IsWatch, IsEntries
<1>2. pc' = "recheck" /\ IsScan(scan')
  BY <1>1, Snapshot DEF Captured
<1>3. IsWatch(watched') /\ watched'.entries = watched.entries
      /\ watched'.started = watched.started /\ (watched'.valid => watched.valid)
  BY <1>1 DEF Captured, IsWatch, IsScan
<1>4. IsEntries(memo') /\ IsEntries(complete') /\ complete' = scan.entries
      /\ pc = "rewatch" /\ scan.todo = {}
  BY <1>1 DEF Captured, Done, IsScan
<1>5. TypeOK'
  BY <1>2, <1>3, <1>4, BuilderTypes DEF Captured, TInv, TypeOK, Stage, Scanning, disks, history
<1>6. Control'
  BY <1>2, <1>3, <1>4 DEF Captured, TInv, Control, Watching, Rooted, Covered, Reading, Recording,
     disks
<1> QED
  BY <1>5, <1>6 DEF TInv

LEMMA RecheckedTInv ==
  ASSUME TInv, Rechecked
  PROVE  TInv'
<1>1. /\ pc' \in Stage /\ IsEntries(complete') /\ IsScan(scan')
      /\ IsWatch(watched') /\ watched'.entries = complete
      /\ watched'.started = watched.started
      /\ watched'.valid => watched.valid
  BY Nothing, NoEntriesOK, Snapshot DEF Rechecked, Done, IsWatch, disks, history, TInv, TypeOK, IsScan, Stage, Scanning, Path, Known
<1>2. TypeOK'
  BY <1>1, BuilderTypes DEF Rechecked, Done, IsWatch, disks, history, TInv, TypeOK, disks, history
<1>3. Control'
  BY <1>1, Nothing, NoEntriesOK, Snapshot DEF Rechecked, Done, IsWatch, disks, history, TInv, Control, Watching, Rooted, Covered, Reading, Recording, disks
<1> QED
  BY <1>2, <1>3 DEF TInv

LEMMA RefuseTInv ==
  ASSUME TInv, Refuse
  PROVE  TInv'
<1>1. output' \in Product \cup {NoOutput, Foreign}
  BY DEF Refuse, TInv, TypeOK
<1> QED
  BY <1>1, LeaveTypes DEF Refuse

(* A step of record that goes on changes the memo, the complete snapshot, the *)
(* recorded output and the scan, and nothing else.                            *)
LEMMA RecordTypes ==
  ASSUME TInv, UNCHANGED <<disks, output, stamp, sel, caching, roots, watched, got, history>>,
         pc \in Recording, pc' \in Recording,
         IsEntries(memo'), IsScan(scan'), IsEntries(complete'),
         packed' \in Product \cup {NoOutput, Foreign},
         pc' = "complete" =>
           DOMAIN memo' = Known /\ scan'.todo \cup DOMAIN scan'.entries = Path,
         pc' \in {"readout", "reknown", "verify"} => DOMAIN complete' = Path,
         pc' \in {"reknown", "verify"} => packed' # NoOutput
  PROVE  TInv'
<1>1. TypeOK'
  <2>1. pc' \in Stage
    BY DEF Stage, Scanning, Recording
  <2> QED
    BY <2>1, BuilderTypes DEF TInv, TypeOK, history
<1>2. Control'
  <2>1. Watching' /\ Rooted'
    BY DEF TInv, Control, Watching, Rooted, Recording, disks
  <2>2. Covered' /\ Reading'
    BY DEF TInv, Control, Covered, Reading, Recording
  <2> QED
    BY <2>1, <2>2 DEF Control
<1> QED
  BY <1>1, <1>2 DEF TInv

LEMMA PackTInv ==
  ASSUME TInv, Pack
  PROVE  TInv'
<1>1. got \in [Path -> Content \cup {Missing}] /\ sel \in Selection
  BY DEF Pack, TInv, TypeOK
<1>2. output' \in Product
  BY <1>1 DEF Pack, Product
<1>3. CASE caching /\ watched.valid
  <2>1. /\ Scan("known", roots) /\ got' = << >>
        /\ UNCHANGED <<cache, disks, stamp, quiet, unseen, excused>> /\ pc = "compile"
    BY <1>3 DEF Pack
  <2>2. pc' = "known" /\ IsScan(scan')
    BY <2>1, Snapshot DEF TInv, TypeOK
  <2>3. TypeOK'
    BY <1>2, <2>1, <2>2, BuilderTypes, Nothing DEF TInv, TypeOK, Stage, Scanning, cache
  <2>4. Control'
    BY <1>3, <2>1, <2>2, Nothing DEF TInv, Control, Watching, Rooted, Covered, Reading, Recording,
       cache, disks
  <2> QED
    BY <2>3, <2>4 DEF TInv
<1>4. CASE ~ (caching /\ watched.valid)
  BY <1>2, <1>4, LeaveTypes DEF Pack
<1> QED
  BY <1>3, <1>4

LEMMA KnownUnchangedTInv ==
  ASSUME TInv, KnownUnchanged
  PROVE  TInv'
<1>1. CASE UnchangedSinceWatch(watched.entries)
  <2>1. /\ memo' = scan.entries /\ Scan("complete", roots \cup Late) /\ pc = "known"
        /\ UNCHANGED <<disks, output, stamp, sel, caching, roots, watched, complete,
                       packed, got, history>>
    BY <1>1 DEF KnownUnchanged, Done
  <2>2. roots = Known /\ DOMAIN watched.entries = Known
    BY <2>1 DEF TInv, Control, Watching, Rooted, Covered, Recording
  <2>3. DOMAIN memo' = Known /\ IsEntries(memo')
    BY <1>1, <2>1, <2>2, SameDigests DEF UnchangedSinceWatch, TInv, TypeOK, IsScan
  <2>4. pc' = "complete" /\ IsScan(scan') /\ scan'.todo = Path
    BY <2>1, <2>2, Snapshot DEF Known, Path
  <2>5. scan'.todo \cup DOMAIN scan'.entries = Path
    BY <2>4 DEF IsScan, IsEntries
  <2> QED
    BY <2>1, <2>3, <2>4, <2>5, RecordTypes DEF Recording, TInv, TypeOK
<1>2. CASE ~ UnchangedSinceWatch(watched.entries)
  BY <1>2, RefuseTInv DEF KnownUnchanged
<1> QED
  BY <1>1, <1>2

LEMMA CompleteTakenTInv ==
  ASSUME TInv, CompleteTaken
  PROVE  TInv'
<1>1. CASE scan.stable /\ LateExisted
  <2>1. /\ complete' = scan.entries /\ memo' = scan.entries /\ pc' = "readout"
        /\ scan' = NoScan /\ pc = "complete" /\ scan.todo = {}
        /\ UNCHANGED <<disks, output, stamp, sel, caching, roots, watched, packed, got, history>>
    BY <1>1 DEF CompleteTaken, Done
  <2>2. DOMAIN scan.entries = Path /\ IsEntries(scan.entries)
    BY <2>1 DEF TInv, TypeOK, IsScan, Control, Covered
  <2> QED
    BY <2>1, <2>2, Nothing, RecordTypes DEF Recording, TInv, TypeOK
<1>2. CASE ~ (scan.stable /\ LateExisted)
  BY <1>2, RefuseTInv DEF CompleteTaken
<1> QED
  BY <1>1, <1>2

LEMMA ReadOutputTInv ==
  ASSUME TInv, ReadOutput
  PROVE  TInv'
<1>1. CASE output # NoOutput
  <2>1. /\ packed' = output /\ Scan("reknown", roots) /\ pc = "readout"
        /\ UNCHANGED <<disks, output, stamp, sel, caching, roots, memo, watched, complete,
                       got, history>>
    BY <1>1 DEF ReadOutput
  <2>2. pc' = "reknown" /\ IsScan(scan')
    BY <2>1, Snapshot DEF TInv, TypeOK
  <2>3. DOMAIN complete = Path
    BY <2>1 DEF TInv, Control, Covered
  <2> QED
    BY <1>1, <2>1, <2>2, <2>3, RecordTypes DEF Recording, TInv, TypeOK
<1>2. CASE output = NoOutput
  BY <1>2, RefuseTInv DEF ReadOutput
<1> QED
  BY <1>1, <1>2

LEMMA KnownVerifiedTInv ==
  ASSUME TInv, KnownVerified
  PROVE  TInv'
<1>1. CASE UnchangedSinceWatch(watched.entries)
  <2>1. /\ Scan("verify", roots \cup Late) /\ pc = "reknown"
        /\ UNCHANGED <<disks, output, stamp, cache, got, history>>
    BY <1>1 DEF KnownVerified, Done
  <2>2. pc' = "verify" /\ IsScan(scan')
    BY <2>1, Snapshot DEF TInv, TypeOK, Path
  <2>3. DOMAIN complete = Path /\ packed # NoOutput
    BY <2>1 DEF TInv, Control, Covered
  <2> QED
    BY <2>1, <2>2, <2>3, RecordTypes DEF Recording, cache, TInv, TypeOK
<1>2. CASE ~ UnchangedSinceWatch(watched.entries)
  BY <1>2, RefuseTInv DEF KnownVerified
<1> QED
  BY <1>1, <1>2

LEMMA WriteStampTInv ==
  ASSUME TInv, WriteStamp
  PROVE  TInv'
<1>1. CASE scan.stable /\ Digests(scan.entries) = Digests(complete)
  <2>1. /\ stamp' = [sel |-> sel, roots |-> roots \cup Late,
                     inputs |-> scan.entries, out |-> packed]
        /\ excused' = unseen /\ Leave /\ UNCHANGED <<disks, output, quiet>> /\ pc = "verify"
    BY <1>1 DEF WriteStamp, Done
  <2>2. roots \cup Late = Path /\ DOMAIN scan.entries = Path
    BY <1>1, <2>1, SameDigests DEF TInv, Control, Rooted, Covered, Recording, Known, Path
  <2>3. packed \in Product \cup {Foreign} /\ IsEntries(scan.entries) /\ sel \in Selection
    BY <2>1 DEF TInv, TypeOK, IsScan, Control, Covered
  <2>4. stamp'.sel = sel /\ stamp'.roots = Path /\ stamp'.inputs = scan.entries
        /\ stamp'.out = packed
    BY <2>1, <2>2
  <2>5. /\ pc' \in Stage /\ caching' \in BOOLEAN /\ roots' \in SUBSET Path /\ Base \subseteq roots'
        /\ IsEntries(memo') /\ IsScan(scan') /\ IsWatch(watched') /\ IsEntries(complete')
        /\ packed' = NoOutput /\ got' = << >> /\ sel' = sel /\ unseen' = {}
    BY <2>1, Nothing, NoEntriesOK DEF Leave, Stage, Path
  <2>6. TypeOK'
    BY <2>1, <2>2, <2>3, <2>4, <2>5, Nothing DEF TInv, TypeOK, disks
  <2>7. Control'
    BY <2>1, Nothing, NoEntriesOK DEF Leave, TInv, TypeOK, Control, Watching, Rooted, Covered,
       Reading, Recording, disks
  <2> QED
    BY <2>6, <2>7 DEF TInv
<1>2. CASE ~ (scan.stable /\ Digests(scan.entries) = Digests(complete))
  BY <1>2, RefuseTInv DEF WriteStamp
<1> QED
  BY <1>1, <1>2

LEMMA CacheUnavailableTInv ==
  ASSUME TInv, CacheUnavailable
  PROVE  TInv'
<1>1. /\ pc' \in {"compile", "stage"} /\ pc' \in Stage
      /\ pc' = "stage" => pc \in {"check", "outputs", "invalidate", "watch"}
  BY DEF CacheUnavailable, Stage
<1>2. TypeOK'
  BY <1>1, Nothing, NoEntriesOK, BuilderTypes DEF CacheUnavailable, TInv, TypeOK, Path, disks, history
<1>3. Control'
  BY <1>1, Nothing, NoEntriesOK DEF CacheUnavailable, TInv, TypeOK, Control, Watching, Rooted,
     Covered, Reading, Recording, disks
<1> QED
  BY <1>2, <1>3 DEF TInv

LEMMA AbortTInv ==
  ASSUME TInv, Abort
  PROVE  TInv'
<1>1. output' \in Product \cup {NoOutput, Foreign}
  BY DEF Abort, TInv, TypeOK
<1> QED
  BY <1>1, LeaveTypes DEF Abort

LEMMA TamperTInv ==
  ASSUME TInv, Tamper
  PROVE  TInv'
<1>1. TypeOK'
  BY DEF Tamper, TInv, TypeOK, disks, cache
<1>2. Control'
  BY DEF Tamper, TInv, Control, Watching, Rooted, Covered, Reading, disks, cache
<1> QED
  BY <1>1, <1>2 DEF TInv

LEMMA NextTInv == TInv /\ [Next]_vars => TInv'
<1> SUFFICES ASSUME TInv, [Next]_vars
             PROVE  TInv'
  OBVIOUS
<1>1. CASE BuilderStep
  <2>1. ASSUME NEW x \in Selection, Start(x)
        PROVE  TInv'
    BY <2>1, StartTInv
  <2>2. ASSUME NEW p \in Path, ScanFile(p) \/ StageFile(p) \/ CompileFile(p)
        PROVE  TInv'
    BY <2>2, ScanTInv, StageFileTInv, CompileFileTInv
  <2>3. CASE InputsFresh \/ OutputsFresh \/ ReceiptRefused \/ UpToDate
    <3>1. UpToDate => TInv'
      BY LeaveTypes DEF UpToDate, TInv, TypeOK
    <3> QED
      BY <2>3, <3>1, InputsFreshTInv, OutputsFreshTInv, ReceiptRefusedTInv
  <2>4. CASE Invalidate \/ WatchSources \/ StagingDone \/ Rewatch \/ Captured \/ Rechecked
    BY <2>4, InvalidateTInv, WatchSourcesTInv, StagingDoneTInv, RewatchTInv, CapturedTInv,
       RecheckedTInv
  <2>5. CASE Pack \/ KnownUnchanged \/ CompleteTaken \/ ReadOutput \/ KnownVerified \/ WriteStamp
    BY <2>5, PackTInv, KnownUnchangedTInv, CompleteTakenTInv, ReadOutputTInv, KnownVerifiedTInv,
       WriteStampTInv
  <2> QED
    BY <1>1, <2>1, <2>2, <2>3, <2>4, <2>5 DEF BuilderStep
<1>2. CASE EditorStep
  BY <1>2, EditTInv, DisturbedTInv, TamperTInv DEF EditorStep
<1>3. CASE CacheUnavailable \/ Abort
  BY <1>3, CacheUnavailableTInv, AbortTInv
<1>4. CASE UNCHANGED vars
  <2>1. TypeOK'
    BY <1>4 DEF TInv, TypeOK, vars, disks, cache, history
  <2>2. Control'
    BY <1>4 DEF TInv, Control, Watching, Rooted, Covered, Reading, vars, disks, cache
  <2> QED
    BY <2>1, <2>2 DEF TInv
<1> QED
  BY <1>1, <1>2, <1>3, <1>4 DEF Next

(* Every variable of the cache and of the build keeps its type, and a stamp *)
(* lists an entry for exactly the paths under its roots: build_cache.rs.    *)
THEOREM TypeCorrect == Spec => []TypeOK
<1>1. Init => TInv
  BY InitTInv
<1>2. TInv /\ [Next]_vars => TInv'
  BY NextTInv
<1>3. TInv => TypeOK
  BY DEF TInv
<1> QED
  BY <1>1, <1>2, <1>3, PTL DEF Spec

-----------------------------------------------------------------------------
(* Entries are true of the files they saw *)

(* A file has the state NoState exactly when it is missing. *)
LEMMA StateOfMissing ==
  ASSUME TypeOK, Clocked, NEW p \in Path
  PROVE  FileState(file[p]) = NoState <=> file[p].content = Missing
BY DEF TypeOK, Clocked, FileState, NoState

(* What an edit does to the file itself. *)
LEMMA Changed ==
  ASSUME TypeOK, Clocked, NEW p \in Path, NEW c \in Content \cup {Missing}, NEW b \in BOOLEAN,
         Change(p, c, b)
  PROVE  /\ file'[p].content = c /\ file'[p].ctime = clock + 1 /\ clock' = clock + 1
         /\ c # file[p].content
         /\ \A q \in Path \ {p} : file'[q] = file[q]
         /\ Clocked'
<1>1. /\ file'[p] = Written(c, b) /\ clock' = clock + 1 /\ c # file[p].content
      /\ \A q \in Path \ {p} : file'[q] = file[q]
  BY DEF Change, TypeOK
<1>2. file'[p].content = c /\ file'[p].ctime = clock + 1
  BY <1>1 DEF Written
<1>3. Clocked'
  BY <1>1, <1>2 DEF Clocked, TypeOK
<1> QED
  BY <1>1, <1>2, <1>3

LEMMA ChangeKeepsWitness ==
  ASSUME TypeOK, Clocked, NEW p \in Path, NEW c \in Content \cup {Missing}, NEW b \in BOOLEAN,
         Change(p, c, b), NEW q \in Path, NEW e, Witness(e, q, file, clock)
  PROVE  Witness(e, q, file', clock')
<1>1. e.state.ctime \in Nat /\ clock \in Nat /\ e \in Entry
  BY DEF Witness, Entry, TypeOK
<1>2. CASE q # p
  BY <1>1, <1>2, Changed DEF Witness
<1>3. CASE q = p
  <2>1. FileState(file'[p]) = e.state => c = Missing /\ e.state = NoState
    BY <1>1, Changed DEF FileState, Witness
  <2>2. file'[p].content = c
    BY Changed
  <2> QED
    BY <1>1, <1>3, <2>1, <2>2, Changed DEF Witness
<1> QED
  BY <1>2, <1>3

LEMMA ChangeKeepsMatched ==
  ASSUME TypeOK, Clocked, NEW p \in Path, NEW c \in Content \cup {Missing}, NEW b \in BOOLEAN,
         Change(p, c, b), NEW q \in Path, NEW e, NEW d, Witness(e, q, file, clock),
         Matched(e, d, file[q]), q = p /\ c = Missing => e.state # NoState
  PROVE  Matched(e, d, file'[q])
<1>1. e.state.ctime \in Nat /\ clock \in Nat
  BY DEF Witness, Entry, TypeOK
<1>2. CASE q # p
  BY <1>2, Changed DEF Matched
<1>3. CASE q = p
  <2>1. FileState(file'[p]) = e.state => c = Missing /\ e.state = NoState
    BY <1>1, Changed DEF FileState, Witness
  <2> QED
    BY <1>3, <2>1 DEF Matched
<1> QED
  BY <1>2, <1>3

LEMMA ChangeKeepsAged ==
  ASSUME TypeOK, Clocked, NEW p \in Path, NEW c \in Content \cup {Missing}, NEW b \in BOOLEAN,
         Change(p, c, b), NEW q \in Path, NEW d, NEW t \in Nat, t <= clock, Aged(d, t, file[q]),
         q = p => c # Missing
  PROVE  Aged(d, t, file'[q])
<1>1. clock \in Nat
  BY DEF TypeOK
<1>2. CASE q # p
  BY <1>2, Changed DEF Aged
<1>3. CASE q = p
  <2>1. file'[p].content # Missing /\ ~ (file'[p].ctime <= t)
    BY <1>1, <1>3, Changed
  <2> QED
    BY <1>3, <2>1 DEF Aged
<1> QED
  BY <1>2, <1>3

(* A digest from the memo is the content; so is one that was hashed. *)
LEMMA DigestIsContent ==
  ASSUME TypeOK, Witnesses, NEW p \in Path
  PROVE  Digest(p) = file[p].content
BY DEF Digest, Witnesses, Witnessed, Witness

LEMMA SeenWitness ==
  ASSUME TypeOK, Clocked, NEW p \in Path
  PROVE  Witness([digest |-> file[p].content, state |-> FileState(file[p])], p, file, clock)
<1>1. [digest |-> file[p].content, state |-> FileState(file[p])] \in Entry
  BY DEF TypeOK, Entry, FileState, NoState
<1>2. FileState(file[p]).ctime <= clock
  BY DEF TypeOK, Clocked, FileState, NoState
<1> QED
  BY <1>1, <1>2, StateOfMissing DEF Witness

LEMMA NothingWitnessed == Witnessed(NoEntries) /\ Witnessed(NoEntries)'
BY NoEntriesOK DEF Witnessed

(* Entries only move between the snapshots a step hands on. *)
LEMMA MovesKeepWitnesses ==
  ASSUME Witnesses, UNCHANGED disks,
         \/ memo' \in {memo, scan.entries, NoEntries}
         \/ stamp # NoStamp /\ memo' = stamp.inputs,
         scan'.entries \in {scan.entries, NoEntries},
         watched'.entries \in {watched.entries, complete, scan.entries, NoEntries},
         complete' \in {complete, scan.entries, NoEntries},
         \/ stamp' \in {stamp, NoStamp}
         \/ stamp'.inputs = scan.entries
  PROVE  Witnesses'
<1>1. file' = file /\ clock' = clock
  BY DEF disks
<1>2. /\ Clocked' /\ Witnessed(NoEntries)
      /\ Witnessed(memo) /\ Witnessed(scan.entries) /\ Witnessed(watched.entries)
      /\ Witnessed(complete) /\ (stamp # NoStamp => Witnessed(stamp.inputs))
  BY NothingWitnessed DEF Witnesses, Clocked, disks
<1>3. Witnessed(memo)' /\ Witnessed(scan.entries)'
  BY <1>1, <1>2 DEF Witnessed
<1>4. Witnessed(watched.entries)' /\ Witnessed(complete)'
  BY <1>1, <1>2 DEF Witnessed
<1>5. stamp' # NoStamp => Witnessed(stamp.inputs)'
  BY <1>1, <1>2 DEF Witnessed
<1> QED
  BY <1>2, <1>3, <1>4, <1>5 DEF Witnesses

LEMMA LeaveKeepsWitnesses ==
  ASSUME Witnesses, Leave, UNCHANGED disks,
         \/ UNCHANGED stamp
         \/ stamp'.inputs = scan.entries
  PROVE  Witnesses'
BY MovesKeepWitnesses, Nothing DEF Leave

(* An edit keeps every snapshot true of what it saw. *)
LEMMA ChangeKeepsWitnessed ==
  ASSUME TypeOK, Clocked, NEW p \in Path, NEW c \in Content \cup {Missing}, NEW b \in BOOLEAN,
         Change(p, c, b)
  PROVE  \A q \in Path, e \in Entry : Witness(e, q, file, clock) => Witness(e, q, file', clock')
BY ChangeKeepsWitness

LEMMA ChangeKeepsWitnesses ==
  ASSUME TypeOK, Witnesses, NEW p \in Path, NEW c \in Content \cup {Missing}, NEW b \in BOOLEAN,
         Change(p, c, b), UNCHANGED <<memo, watched, complete, stamp>>,
         \A q \in DOMAIN scan'.entries : q \in Path /\ Witness(scan'.entries[q], q, file', clock')
  PROVE  Witnesses'
<1>1. \A q \in Path, e \in Entry : Witness(e, q, file, clock) => Witness(e, q, file', clock')
  BY ChangeKeepsWitnessed DEF Witnesses
<1>2. Clocked' /\ Witnessed(scan.entries)'
  BY Changed DEF Witnesses, Witnessed
<1>3. /\ IsEntries(memo) /\ IsEntries(watched.entries) /\ IsEntries(complete)
      /\ stamp # NoStamp => IsEntries(stamp.inputs)
  BY DEF TypeOK, IsWatch
<1>4. Witnessed(memo)' /\ Witnessed(watched.entries)' /\ Witnessed(complete)'
  BY <1>1, <1>3 DEF Witnesses, Witnessed, IsEntries
<1>5. stamp' # NoStamp => Witnessed(stamp.inputs)'
  BY <1>1, <1>3 DEF Witnesses, Witnessed, IsEntries
<1> QED
  BY <1>2, <1>4, <1>5 DEF Witnesses

LEMMA EditKeepsWitnesses ==
  ASSUME TypeOK, Witnesses, NEW p \in Path, NEW c \in Content \cup {Missing}, NEW b \in BOOLEAN,
         Edit(p, c, b)
  PROVE  Witnesses'
<1>1. Change(p, c, b) /\ UNCHANGED <<memo, watched, complete, stamp, scan>>
  BY DEF Edit, cache
<1>2. \A q \in DOMAIN scan'.entries : q \in Path /\ Witness(scan'.entries[q], q, file', clock')
  <2>1. \A q \in Path, e \in Entry : Witness(e, q, file, clock) => Witness(e, q, file', clock')
    BY <1>1, ChangeKeepsWitnessed DEF Witnesses
  <2> QED
    BY <1>1, <2>1 DEF TypeOK, IsScan, IsEntries, Witnesses, Witnessed
<1> QED
  BY <1>1, <1>2, ChangeKeepsWitnesses

LEMMA ScanKeepsWitnesses ==
  ASSUME TypeOK, Witnesses, NEW p \in Path, ScanFile(p)
  PROVE  Witnesses'
<1>1. Due(p) /\ Visit(p, file[p].content, TRUE)
  BY DigestIsContent DEF ScanFile
<1>2. file[p].content \in Content \cup {Missing}
  BY DEF TypeOK
<1>3. /\ DOMAIN scan'.entries = DOMAIN scan.entries \cup {p}
      /\ scan'.entries[p] = [digest |-> file[p].content, state |-> FileState(file[p])]
      /\ \A q \in DOMAIN scan.entries : scan'.entries[q] = scan.entries[q]
  BY <1>1, <1>2, Visited
<1>4. file' = file /\ clock' = clock
  BY DEF ScanFile, disks
<1>5. Witness(scan'.entries[p], p, file, clock)
  BY <1>3, SeenWitness DEF Witnesses
<1>6. Witnessed(scan.entries)'
  BY <1>3, <1>4, <1>5 DEF Witnesses, Witnessed
<1>7. UNCHANGED <<memo, watched, complete, stamp, disks>>
  BY DEF ScanFile, cache
<1> QED
  BY <1>4, <1>6, <1>7 DEF Witnesses, Witnessed, Clocked, disks

LEMMA DisturbedKeepsWitnesses ==
  ASSUME TypeOK, Witnesses, NEW p \in Path, NEW c \in Content \cup {Missing}, NEW b \in BOOLEAN,
         ScanDisturbed(p, c, b)
  PROVE  Witnesses'
<1>1. Due(p) /\ Change(p, c, b) /\ file[p].content # Missing
      /\ UNCHANGED <<memo, watched, complete, stamp>>
  BY DEF ScanDisturbed, cache
<1>2. PICK d \in Content : Visit(p, d, FALSE)
  BY DisturbedDigest
<1>3. /\ DOMAIN scan'.entries = DOMAIN scan.entries \cup {p}
      /\ scan'.entries[p] = [digest |-> d, state |-> FileState(file[p])]
      /\ \A q \in DOMAIN scan.entries : scan'.entries[q] = scan.entries[q]
  BY <1>1, <1>2, Visited
<1> DEFINE e == [digest |-> d, state |-> FileState(file[p])]
<1>4. Witness(e, p, file', clock')
  <2>1. FileState(file[p]) # NoState /\ FileState(file[p]).ctime = file[p].ctime
        /\ file[p].ctime <= clock /\ file[p].ctime \in Nat /\ clock \in Nat
    BY <1>1, StateOfMissing DEF Witnesses, Clocked, FileState, TypeOK
  <2>2. FileState(file'[p]) # FileState(file[p])
    <3>1. file'[p].ctime = clock + 1
      BY <1>1, Changed DEF Witnesses
    <3>2. CASE file'[p].content = Missing
      BY <2>1, <3>2 DEF FileState
    <3>3. CASE file'[p].content # Missing
      <4>1. FileState(file'[p]).ctime = clock + 1
        BY <3>1, <3>3 DEF FileState
      <4> QED
        BY <2>1, <4>1
    <3> QED
      BY <3>2, <3>3
  <2>3. e \in Entry /\ d # Missing
    BY DEF TypeOK, Entry, FileState, NoState
  <2>4. clock' = clock + 1
    BY <1>1, Changed DEF Witnesses
  <2>5. e.state = FileState(file[p]) /\ e.digest = d
    OBVIOUS
  <2>6. e.state # NoState /\ e.digest # Missing /\ FileState(file'[p]) # e.state
    BY <2>1, <2>2, <2>3, <2>5
  <2>7. e.state.ctime <= clock'
    BY <2>1, <2>4, <2>5
  <2>8. e \in Entry
    BY <2>3
  <2> HIDE DEF e
  <2> QED
    BY <2>6, <2>7, <2>8 DEF Witness
<1>5. \A q \in DOMAIN scan.entries : q \in Path /\ Witness(scan'.entries[q], q, file', clock')
  <2>1. \A q \in Path, f \in Entry : Witness(f, q, file, clock) => Witness(f, q, file', clock')
    BY <1>1, ChangeKeepsWitnessed DEF Witnesses
  <2> QED
    BY <1>3, <2>1 DEF TypeOK, IsScan, IsEntries, Witnesses, Witnessed
<1>6. \A q \in DOMAIN scan'.entries : q \in Path /\ Witness(scan'.entries[q], q, file', clock')
  BY <1>3, <1>4, <1>5
<1> QED
  BY <1>1, <1>6, ChangeKeepsWitnesses

LEMMA NextWitnesses == TInv /\ Witnesses /\ [Next]_vars => Witnesses'
<1> SUFFICES ASSUME TInv, Witnesses, [Next]_vars
             PROVE  Witnesses'
  OBVIOUS
<1>T. TypeOK
  BY DEF TInv
<1> USE Nothing
<1>S. \A next : \A ps \in SUBSET Path : Scan(next, ps) => scan'.entries = NoEntries
  BY Snapshot
<1>R. /\ roots \in SUBSET Path /\ Base \in SUBSET Path /\ roots \cup Dep \in SUBSET Path
      /\ roots \cup Late \in SUBSET Path
      /\ DOMAIN watched.entries \in SUBSET Path
      /\ stamp # NoStamp => Base \cup stamp.roots \in SUBSET Path
  BY <1>T DEF TypeOK, Path, IsWatch, IsEntries
<1>W. DOMAIN watched = {"entries", "started", "valid"}
  BY <1>T DEF TypeOK, IsWatch
<1>1. ASSUME NEW x \in Selection, Start(x)
      PROVE  Witnesses'
  BY <1>1, <1>S, <1>R, MovesKeepWitnesses DEF Start
<1>2. ASSUME NEW p \in Path, ScanFile(p) \/ StageFile(p) \/ CompileFile(p)
      PROVE  Witnesses'
  <2>1. StageFile(p) \/ CompileFile(p) => Witnesses'
    BY MovesKeepWitnesses DEF StageFile, CompileFile, cache
  <2> QED
    BY <1>2, <1>T, <2>1, ScanKeepsWitnesses
<1>3. CASE InputsFresh \/ OutputsFresh \/ ReceiptRefused \/ UpToDate
  BY <1>3, MovesKeepWitnesses, LeaveKeepsWitnesses
     DEF InputsFresh, OutputsFresh, ReceiptRefused, UpToDate, cache
<1>4. CASE Invalidate \/ StagingDone
  <2>1. CASE Invalidate
    BY <2>1, <1>S, <1>R, MovesKeepWitnesses DEF Invalidate, IsWatch
  <2>2. CASE StagingDone
    BY <2>2, <1>S, <1>R, MovesKeepWitnesses DEF StagingDone, cache
  <2> QED
    BY <1>4, <2>1, <2>2
<1>5. CASE WatchSources
  BY <1>5, <1>W, MovesKeepWitnesses DEF WatchSources
<1>6. CASE Rewatch
  BY <1>6, <1>S, <1>R, <1>W, MovesKeepWitnesses DEF Rewatch
<1>7. CASE Captured
  BY <1>7, <1>S, <1>R, <1>W, MovesKeepWitnesses DEF Captured
<1>8. CASE Rechecked
  BY <1>8, <1>W, MovesKeepWitnesses DEF Rechecked
<1>9. CASE Pack
  BY <1>9, <1>S, <1>R, MovesKeepWitnesses, LeaveKeepsWitnesses DEF Pack, cache
<1>10. CASE KnownUnchanged
  BY <1>10, <1>S, <1>R, MovesKeepWitnesses, LeaveKeepsWitnesses DEF KnownUnchanged, Refuse
<1>11. CASE CompleteTaken
  BY <1>11, MovesKeepWitnesses, LeaveKeepsWitnesses DEF CompleteTaken, Refuse
<1>12. CASE ReadOutput
  BY <1>12, <1>S, <1>R, MovesKeepWitnesses, LeaveKeepsWitnesses DEF ReadOutput, Refuse
<1>13. CASE KnownVerified
  BY <1>13, <1>S, <1>R, MovesKeepWitnesses, LeaveKeepsWitnesses DEF KnownVerified, Refuse, cache
<1>14. CASE WriteStamp
  BY <1>14, LeaveKeepsWitnesses DEF WriteStamp, Refuse
<1>15. CASE EditorStep
  <2>1. Tamper => Witnesses'
    BY MovesKeepWitnesses DEF Tamper, cache
  <2> QED
    BY <1>15, <1>T, <2>1, EditKeepsWitnesses, DisturbedKeepsWitnesses DEF EditorStep
<1>16. CASE CacheUnavailable
  BY <1>16, MovesKeepWitnesses DEF CacheUnavailable
<1>17. CASE Abort
  BY <1>17, LeaveKeepsWitnesses DEF Abort
<1>18. CASE UNCHANGED vars
  BY <1>18, MovesKeepWitnesses DEF vars, cache
<1> QED
  BY <1>1, <1>2, <1>3, <1>4, <1>5, <1>6, <1>7, <1>8, <1>9, <1>10, <1>11, <1>12, <1>13, <1>14,
     <1>15, <1>16, <1>17, <1>18 DEF Next, BuilderStep

-----------------------------------------------------------------------------
(* What was read is what the snapshots saw *)

(* An entry that was just made matches what the file holds. *)
LEMMA WitnessMatches ==
  ASSUME NEW e, NEW p, Witness(e, p, file, clock)
  PROVE  Matched(e, file[p].content, file[p])
BY DEF Witness, Matched

LEMMA ContentAged == \A t \in Nat, p \in Path : Aged(file[p].content, t, file[p])
BY DEF Aged

LEMMA WatchedWitness ==
  ASSUME TypeOK, Witnesses
  PROVE  /\ \A p \in DOMAIN watched.entries :
              /\ p \in Path /\ Witness(watched.entries[p], p, file, clock)
              /\ Matched(watched.entries[p], file[p].content, file[p])
         /\ \A p \in DOMAIN complete :
              /\ p \in Path /\ Witness(complete[p], p, file, clock)
              /\ Matched(complete[p], file[p].content, file[p])
         /\ \A p \in DOMAIN scan.entries :
              /\ p \in Path /\ Witness(scan.entries[p], p, file, clock)
              /\ Matched(scan.entries[p], file[p].content, file[p])
BY WitnessMatches DEF TypeOK, IsWatch, IsScan, IsEntries, Witnesses, Witnessed

(* A baseline that lists p found it, or an edit that removes p is unseen. *)
LEMMA SeenChange ==
  ASSUME watched.valid, NEW p \in Path, NEW c \in Content \cup {Missing}, NEW b \in BOOLEAN,
         Change(p, c, b)
  PROVE  /\ unseen \subseteq unseen'
         /\ p \in DOMAIN Seen \ unseen' =>
              /\ Baselines(p) = {} => p \notin Known /\ c # Missing
              /\ c = Missing => \A es \in Baselines(p) : es[p].state # NoState
<1>1. unseen' = IF Unseen(p, c) THEN unseen \cup {p} ELSE unseen
  BY DEF Change
<1>2. CASE Unseen(p, c)
  BY <1>1, <1>2
<1>3. CASE ~ Unseen(p, c)
  BY <1>1, <1>3 DEF Unseen
<1> QED
  BY <1>2, <1>3

LEMMA BaselinesOf ==
  /\ \A p \in DOMAIN watched.entries : watched.entries \in Baselines(p)
  /\ pc = "recheck" => \A p \in DOMAIN complete : complete \in Baselines(p)
  /\ pc = "rewatch" => \A p \in DOMAIN scan.entries : scan.entries \in Baselines(p)
  /\ \A p : p \notin DOMAIN watched.entries
             /\ (pc = "rewatch" => p \notin DOMAIN scan.entries)
             /\ (pc = "recheck" => p \notin DOMAIN complete) => Baselines(p) = {}
BY DEF Baselines

(* An edit keeps what is said of every input the build has read, but for   *)
(* those it makes unseen.                                                  *)
LEMMA ChangeKeepsReading ==
  ASSUME TInv, Witnesses, watched.valid, NEW p \in Path, NEW c \in Content \cup {Missing},
         NEW b \in BOOLEAN, Change(p, c, b)
  PROVE  /\ unseen \subseteq unseen'
         /\ \A q \in DOMAIN Seen \ unseen' : \A d :
              q \in DOMAIN watched.entries /\ Matched(watched.entries[q], d, file[q]) =>
                Matched(watched.entries[q], d, file'[q])
         /\ pc = "recheck" =>
              \A q \in DOMAIN Seen \ unseen' : \A d :
                q \in DOMAIN complete /\ Matched(complete[q], d, file[q]) =>
                  Matched(complete[q], d, file'[q])
         /\ pc = "rewatch" =>
              \A q \in DOMAIN Seen \ unseen' : \A d :
                q \in DOMAIN scan.entries /\ Matched(scan.entries[q], d, file[q]) =>
                  Matched(scan.entries[q], d, file'[q])
         /\ \A q \in (Known \cap DOMAIN Seen) \ unseen' : Baselines(q) = {} => file'[q] = file[q]
         /\ \A q \in (Late \cap DOMAIN Seen) \ unseen' : \A d :
              Baselines(q) = {} /\ Aged(d, watched.started, file[q]) =>
                Aged(d, watched.started, file'[q])
<1>1. TypeOK /\ Clocked
  BY DEF TInv, Witnesses
<1>2. watched.started \in Nat /\ watched.started <= clock
  BY DEF TInv, TypeOK, IsWatch, Control, Watching
<1>3. ASSUME NEW es, NEW q \in DOMAIN Seen \ unseen', es \in Baselines(q), NEW d, q \in Path,
             Witness(es[q], q, file, clock), Matched(es[q], d, file[q])
      PROVE  Matched(es[q], d, file'[q])
  <2>1. q = p /\ c = Missing => es[q].state # NoState
    BY <1>3, SeenChange
  <2> QED
    BY <1>1, <1>3, <2>1, ChangeKeepsMatched
<1>4. ASSUME NEW q \in DOMAIN Seen \ unseen', NEW d, q \in DOMAIN watched.entries,
             Matched(watched.entries[q], d, file[q])
      PROVE  Matched(watched.entries[q], d, file'[q])
  BY <1>1, <1>3, <1>4, WatchedWitness, BaselinesOf
<1>5. ASSUME pc = "recheck", NEW q \in DOMAIN Seen \ unseen', NEW d, q \in DOMAIN complete,
             Matched(complete[q], d, file[q])
      PROVE  Matched(complete[q], d, file'[q])
  BY <1>1, <1>3, <1>5, WatchedWitness, BaselinesOf
<1>6. ASSUME pc = "rewatch", NEW q \in DOMAIN Seen \ unseen', NEW d, q \in DOMAIN scan.entries,
             Matched(scan.entries[q], d, file[q])
      PROVE  Matched(scan.entries[q], d, file'[q])
  BY <1>1, <1>3, <1>6, WatchedWitness, BaselinesOf
<1>7. ASSUME NEW q \in (Known \cap DOMAIN Seen) \ unseen', Baselines(q) = {}
      PROVE  file'[q] = file[q]
  <2>1. q # p
    BY <1>7, SeenChange
  <2> QED
    BY <1>1, <2>1, Changed DEF Known, Path
<1>8. ASSUME NEW q \in (Late \cap DOMAIN Seen) \ unseen', NEW d, Baselines(q) = {},
             Aged(d, watched.started, file[q])
      PROVE  Aged(d, watched.started, file'[q])
  <2>1. q = p => c # Missing
    BY <1>8, SeenChange
  <2>2. q \in Path
    BY DEF Path
  <2> QED
    BY <1>1, <1>2, <1>8, <2>1, <2>2, ChangeKeepsAged
<1> QED
  BY <1>4, <1>5, <1>6, <1>7, <1>8, SeenChange

LEMMA Placed ==
  ASSUME TInv, watched.valid
  PROVE  /\ pc \in {"stage", "again", "rewatch", "recheck"} =>
              DOMAIN got \subseteq Known /\ DOMAIN watched.entries = Base
         /\ pc = "recheck" => DOMAIN complete = Known
         /\ pc \in {"compile"} \cup Recording => DOMAIN watched.entries = Known
         /\ pc \in {"readout", "reknown", "verify"} => DOMAIN complete = Path
         /\ Known = Base \cup Dep /\ Path = Known \cup Late
         /\ Base \cap Dep = {} /\ Known \cap Late = {}
         /\ DOMAIN scan.entries \subseteq Path /\ DOMAIN got \subseteq Path
         /\ pc \notin Recording => Seen = got
BY DEF TInv, TypeOK, IsScan, IsEntries, Control, Covered, Reading, Known, Path, Seen

(* Which inputs no baseline lists. *)
LEMMA Unlisted ==
  ASSUME TInv, watched.valid
  PROVE  /\ pc \in {"stage", "again"} => \A q \in Dep : Baselines(q) = {}
         /\ pc = "rewatch" => \A q \in Dep \ DOMAIN scan.entries : Baselines(q) = {}
         /\ pc \in {"compile"} \cup Recording => \A q \in Late : Baselines(q) = {}
BY Placed, BaselinesOf DEF Recording

(* After an edit by anyone, of a file the snapshot lists or not. *)
LEMMA ChangeKeepsCopied ==
  ASSUME TInv, Witnesses, watched.valid, Copied, NEW p \in Path,
         NEW c \in Content \cup {Missing}, NEW b \in BOOLEAN, Change(p, c, b)
  PROVE  /\ pc \in {"stage", "again", "rewatch", "recheck"} =>
              \A q \in (Base \cap DOMAIN got) \ unseen' :
                Matched(watched.entries[q], got[q], file'[q])
         /\ pc \in {"stage", "again"} =>
              \A q \in (Dep \cap DOMAIN got) \ unseen' : got[q] = file'[q].content
         /\ pc = "rewatch" =>
              \A q \in (Dep \cap DOMAIN got) \ unseen' :
                IF q \in DOMAIN scan.entries THEN Matched(scan.entries[q], got[q], file'[q])
                ELSE got[q] = file'[q].content /\ file'[q] = file[q]
         /\ pc = "recheck" =>
              \A q \in (Dep \cap DOMAIN got) \ unseen' : Matched(complete[q], got[q], file'[q])
<1>1. pc \in {"stage", "again", "rewatch", "recheck"} => Seen = got
  BY Placed DEF Recording
<1>2. unseen \subseteq unseen'
  BY ChangeKeepsReading
<1>3. ASSUME pc \in {"stage", "again", "rewatch", "recheck"}
      PROVE  \A q \in (Base \cap DOMAIN got) \ unseen' :
               Matched(watched.entries[q], got[q], file'[q])
  BY <1>1, <1>2, <1>3, Placed, ChangeKeepsReading DEF Copied
<1>4. ASSUME pc \in {"stage", "again"}
      PROVE  \A q \in (Dep \cap DOMAIN got) \ unseen' : got[q] = file'[q].content
  BY <1>1, <1>2, <1>4, Placed, Unlisted, ChangeKeepsReading DEF Copied
<1>5. ASSUME pc = "rewatch", NEW q \in (Dep \cap DOMAIN got) \ unseen'
      PROVE  IF q \in DOMAIN scan.entries THEN Matched(scan.entries[q], got[q], file'[q])
             ELSE got[q] = file'[q].content /\ file'[q] = file[q]
  <2>1. CASE q \in DOMAIN scan.entries
    <3>1. Matched(scan.entries[q], got[q], file[q])
      BY <1>2, <1>5, <2>1 DEF Copied
    <3>2. Matched(scan.entries[q], got[q], file'[q])
      BY <1>1, <1>5, <2>1, <3>1, ChangeKeepsReading
    <3> QED
      BY <2>1, <3>2
  <2>2. CASE q \notin DOMAIN scan.entries
    <3>1. got[q] = file[q].content
      BY <1>2, <1>5, <2>2 DEF Copied
    <3>2. file'[q] = file[q]
      BY <1>1, <1>5, <2>2, Placed, Unlisted, ChangeKeepsReading
    <3> QED
      BY <2>2, <3>1, <3>2
  <2> QED
    BY <2>1, <2>2
<1>6. ASSUME pc = "recheck"
      PROVE  \A q \in (Dep \cap DOMAIN got) \ unseen' : Matched(complete[q], got[q], file'[q])
  BY <1>1, <1>2, <1>6, Placed, ChangeKeepsReading DEF Copied
<1> QED
  BY <1>3, <1>4, <1>5, <1>6

LEMMA ChangeKeepsCompiling ==
  ASSUME TInv, Witnesses, watched.valid, Compiling, NEW p \in Path,
         NEW c \in Content \cup {Missing}, NEW b \in BOOLEAN, Change(p, c, b)
  PROVE  pc \in {"compile"} \cup Recording =>
           /\ \A q \in (Known \cap DOMAIN Seen) \ unseen' :
                Matched(watched.entries[q], Seen[q], file'[q])
           /\ \A q \in (Late \cap DOMAIN Seen) \ unseen' :
                Aged(Seen[q], watched.started, file'[q])
<1> SUFFICES ASSUME pc \in {"compile"} \cup Recording
             PROVE  /\ \A q \in (Known \cap DOMAIN Seen) \ unseen' :
                         Matched(watched.entries[q], Seen[q], file'[q])
                    /\ \A q \in (Late \cap DOMAIN Seen) \ unseen' :
                         Aged(Seen[q], watched.started, file'[q])
  OBVIOUS
<1>1. unseen \subseteq unseen' /\ DOMAIN watched.entries = Known
  BY Placed, ChangeKeepsReading
<1>2. \A q \in (Known \cap DOMAIN Seen) \ unseen' : Matched(watched.entries[q], Seen[q], file'[q])
  BY <1>1, ChangeKeepsReading DEF Compiling
<1>3. \A q \in (Late \cap DOMAIN Seen) \ unseen' : Aged(Seen[q], watched.started, file'[q])
  BY <1>1, Unlisted, ChangeKeepsReading DEF Compiling
<1> QED
  BY <1>2, <1>3

(* What was packed has been read. *)
LEMMA AllSeen ==
  ASSUME Recorded, pc \in Recording
  PROVE  DOMAIN Seen = Path /\ output \in Product
BY DEF Recorded, Seen, Product

LEMMA ChangeKeepsRecorded ==
  ASSUME TInv, Witnesses, watched.valid, Recorded, NEW p \in Path,
         NEW c \in Content \cup {Missing}, NEW b \in BOOLEAN, Change(p, c, b)
  PROVE  /\ pc = "complete" /\ scan.stable =>
              \A q \in (Known \cap DOMAIN scan.entries) \ unseen' :
                Matched(watched.entries[q], scan.entries[q].digest, file'[q])
         /\ pc \in {"readout", "reknown"} =>
              \A q \in Known \ unseen' :
                Matched(watched.entries[q], complete[q].digest, file'[q])
<1>1. unseen \subseteq unseen' /\ Known \subseteq Path
  BY Placed, ChangeKeepsReading
<1>2. ASSUME pc = "complete", scan.stable
      PROVE  \A q \in (Known \cap DOMAIN scan.entries) \ unseen' :
               Matched(watched.entries[q], scan.entries[q].digest, file'[q])
  <2>1. DOMAIN Seen = Path /\ DOMAIN watched.entries = Known
    BY <1>2, AllSeen, Placed DEF Recording
  <2> QED
    BY <1>1, <1>2, <2>1, ChangeKeepsReading DEF Recorded
<1>3. ASSUME pc \in {"readout", "reknown"}
      PROVE  \A q \in Known \ unseen' :
               Matched(watched.entries[q], complete[q].digest, file'[q])
  <2>1. DOMAIN Seen = Path /\ DOMAIN watched.entries = Known
    BY <1>3, AllSeen, Placed DEF Recording
  <2> QED
    BY <1>1, <1>3, <2>1, ChangeKeepsReading DEF Recorded
<1> QED
  BY <1>2, <1>3

(* An edit of the files leaves what is known of the reads as it is.         *)
LEMMA EditKeepsReadings ==
  ASSUME TInv, Witnesses, Readings, NEW p \in Path, NEW c \in Content \cup {Missing},
         NEW b \in BOOLEAN, Edit(p, c, b)
  PROVE  Readings'
<1> SUFFICES ASSUME watched'.valid
             PROVE  Copied' /\ Compiling' /\ Recorded'
  BY DEF Readings
<1>1. Change(p, c, b) /\ UNCHANGED <<output, stamp, pc, sel, roots, memo, watched, complete,
                                    packed, scan, got>>
  BY DEF Edit, cache
<1>2. watched.valid /\ Copied /\ Compiling /\ Recorded /\ unseen \subseteq unseen'
  BY <1>1, ChangeKeepsReading DEF Readings
<1>3. Seen' = Seen
  BY <1>1 DEF Seen
<1>4. Copied'
  <2>1. ASSUME pc = "recheck",
               NEW q \in (Base \cap DOMAIN got \cap DOMAIN scan.entries) \ unseen',
               scan.entries[q].state = watched.entries[q].state
        PROVE  Matched(complete[q], got[q], file'[q])
    <3>1. Matched(complete[q], got[q], file[q])
      BY <1>2, <2>1 DEF Copied
    <3>2. q \in DOMAIN Seen /\ q \in DOMAIN complete
      BY <1>2, <2>1, Placed DEF Recording
    <3> QED
      BY <1>1, <1>2, <2>1, <3>1, <3>2, ChangeKeepsReading
  <2> QED
    BY <1>1, <1>2, <2>1, ChangeKeepsCopied DEF Copied
<1>5. Compiling'
  BY <1>1, <1>2, <1>3, ChangeKeepsCompiling DEF Compiling
<1>6. Recorded'
  BY <1>1, <1>2, <1>3, ChangeKeepsRecorded DEF Recorded
<1> QED
  BY <1>4, <1>5, <1>6

(* One look at a file. *)
LEMMA ScanKeepsReadings ==
  ASSUME TInv, Witnesses, Readings, NEW p \in Path, ScanFile(p)
  PROVE  Readings'
<1> SUFFICES ASSUME watched'.valid
             PROVE  Copied' /\ Compiling' /\ Recorded'
  BY DEF Readings
<1>1. UNCHANGED <<file, output, stamp, pc, sel, roots, memo, watched, complete, packed, got, unseen>>
  BY DEF ScanFile, disks, cache, history
<1>2. watched.valid /\ Copied /\ Compiling /\ Recorded
  BY <1>1 DEF Readings
<1>3. Seen' = Seen
  BY <1>1 DEF Seen
<1>4. /\ p \notin DOMAIN scan.entries
      /\ DOMAIN scan'.entries = DOMAIN scan.entries \cup {p}
      /\ scan'.entries[p].digest = file[p].content
      /\ scan'.entries[p].state = FileState(file[p])
      /\ \A q \in DOMAIN scan.entries : scan'.entries[q] = scan.entries[q]
      /\ scan'.stable => scan.stable
  <2>1. TypeOK /\ Due(p) /\ Visit(p, file[p].content, TRUE)
    BY DigestIsContent DEF ScanFile, TInv
  <2>2. file[p].content \in Content \cup {Missing}
    BY <2>1 DEF TypeOK
  <2>3. /\ p \notin DOMAIN scan.entries
        /\ DOMAIN scan'.entries = DOMAIN scan.entries \cup {p}
        /\ scan'.entries[p] = [digest |-> file[p].content, state |-> FileState(file[p])]
        /\ \A q \in DOMAIN scan.entries : scan'.entries[q] = scan.entries[q]
        /\ scan'.stable <=> scan.stable /\ TRUE
    BY <2>1, <2>2, Visited
  <2> QED
    BY <2>3
<1>5. Copied'
  <2>1. ASSUME pc = "recheck", p \in (Base \cap DOMAIN got) \ unseen,
               FileState(file[p]) = watched.entries[p].state
        PROVE  Matched(complete[p], got[p], file[p])
    <3>1. p \in Base /\ p \in DOMAIN complete /\ p \in DOMAIN watched.entries
      BY <1>2, <2>1, Placed
    <3>2. got[p] = watched.entries[p].digest /\ watched.entries[p].digest = file[p].content
      BY <1>2, <2>1, <3>1, WatchedWitness DEF Copied, Matched, TInv
    <3> QED
      BY <3>1, <3>2, WatchedWitness DEF TInv
  <2>2. \A q \in (Base \cap DOMAIN got) \ unseen :
          pc \in {"stage", "again", "rewatch", "recheck"} =>
            Matched(watched.entries[q], got[q], file[q])
    BY <1>2 DEF Copied
  <2>3. ASSUME pc = "rewatch", NEW q \in (Dep \cap DOMAIN got) \ unseen
        PROVE  IF q \in DOMAIN scan'.entries THEN Matched(scan'.entries[q], got[q], file[q])
               ELSE got[q] = file[q].content
    <3>1. CASE q = p
      <4>1. got[q] = file[q].content
        BY <1>2, <1>4, <2>3, <3>1 DEF Copied
      <4>2. scan'.entries[q].digest = file[q].content
        BY <1>4, <3>1
      <4>3. Matched(scan'.entries[q], got[q], file[q])
        BY <4>1, <4>2 DEF Matched
      <4> QED
        BY <1>4, <3>1, <4>3
    <3>2. CASE q # p
      <4>1. q \in DOMAIN scan'.entries <=> q \in DOMAIN scan.entries
        BY <1>4, <3>2
      <4>2. q \in DOMAIN scan.entries => scan'.entries[q] = scan.entries[q]
        BY <1>4
      <4>3. IF q \in DOMAIN scan.entries THEN Matched(scan.entries[q], got[q], file[q])
            ELSE got[q] = file[q].content
        BY <1>2, <2>3 DEF Copied
      <4> QED
        BY <4>1, <4>2, <4>3
    <3> QED
      BY <3>1, <3>2
  <2>4. pc \in {"stage", "again"} => \A q \in (Dep \cap DOMAIN got) \ unseen : got[q] = file[q].content
    BY <1>2 DEF Copied
  <2>5. pc = "recheck" =>
          \A q \in (Dep \cap DOMAIN got) \ unseen : Matched(complete[q], got[q], file[q])
    BY <1>2 DEF Copied
  <2>6. ASSUME pc = "recheck",
               NEW q \in (Base \cap DOMAIN got \cap DOMAIN scan'.entries) \ unseen,
               scan'.entries[q].state = watched.entries[q].state
        PROVE  Matched(complete[q], got[q], file[q])
    BY <1>2, <1>4, <2>1, <2>6 DEF Copied
  <2> QED
    BY <1>1, <2>2, <2>3, <2>4, <2>5, <2>6 DEF Copied
<1>6. Compiling'
  BY <1>1, <1>2, <1>3 DEF Compiling
<1>7. Recorded'
  <2>1. ASSUME pc = "complete", p \in Late \ unseen, FileState(file[p]).ctime <= watched.started
        PROVE  file[p].content = Seen[p]
    <3>1. output \in Product
      BY <1>2, <2>1 DEF Recorded, Recording
    <3>2. Aged(Seen[p], watched.started, file[p])
      BY <1>2, <2>1, <3>1 DEF Compiling, Recording, Seen, Product
    <3> QED
      BY <2>1, <3>2 DEF Aged, FileState
  <2>2. ASSUME pc = "complete", p \in Known
        PROVE  Matched(watched.entries[p], file[p].content, file[p])
    BY <1>2, <2>2, Placed, WatchedWitness DEF TInv, Recording
  <2>3. ASSUME pc = "reknown", p \in Known \ unseen, FileState(file[p]) = watched.entries[p].state
        PROVE  complete[p].digest = Seen[p]
    <3>1. output \in Product
      BY <1>2, <2>3 DEF Recorded, Recording
    <3>2. Matched(watched.entries[p], Seen[p], file[p])
      BY <1>2, <2>3, <3>1, Placed DEF Compiling, Recording, Seen, Product
    <3>3. Matched(watched.entries[p], complete[p].digest, file[p])
      BY <1>2, <2>3 DEF Recorded
    <3> QED
      BY <2>3, <3>2, <3>3 DEF Matched
  <2> QED
    BY <1>1, <1>2, <1>3, <1>4, <2>1, <2>2, <2>3 DEF Recorded
<1> QED
  BY <1>5, <1>6, <1>7

(* A look that an edit disturbed: its entry is true of the file before the   *)
(* edit, and the snapshot is no longer stable.                               *)
LEMMA DisturbedKeepsReadings ==
  ASSUME TInv, Witnesses, Readings, NEW p \in Path, NEW c \in Content \cup {Missing},
         NEW b \in BOOLEAN, ScanDisturbed(p, c, b)
  PROVE  Readings'
<1> SUFFICES ASSUME watched'.valid
             PROVE  Copied' /\ Compiling' /\ Recorded'
  BY DEF Readings
<1>1. Change(p, c, b) /\ UNCHANGED <<output, stamp, pc, sel, roots, memo, watched, complete,
                                    packed, got>>
  BY DEF ScanDisturbed, cache
<1>2. watched.valid /\ Copied /\ Compiling /\ Recorded /\ unseen \subseteq unseen'
  BY <1>1, ChangeKeepsReading DEF Readings
<1>3. Seen' = Seen
  BY <1>1 DEF Seen
<1>4. PICK d \in Content : Visit(p, d, FALSE)
  BY DisturbedDigest DEF TInv
<1>5. /\ p \notin DOMAIN scan.entries
      /\ DOMAIN scan'.entries = DOMAIN scan.entries \cup {p}
      /\ scan'.entries[p].state = FileState(file[p])
      /\ \A q \in DOMAIN scan.entries : scan'.entries[q] = scan.entries[q]
      /\ ~ scan'.stable
  <2>1. TypeOK /\ Due(p) /\ d \in Content \cup {Missing}
    BY DEF ScanDisturbed, TInv
  <2>2. /\ p \notin DOMAIN scan.entries
        /\ DOMAIN scan'.entries = DOMAIN scan.entries \cup {p}
        /\ scan'.entries[p] = [digest |-> d, state |-> FileState(file[p])]
        /\ \A q \in DOMAIN scan.entries : scan'.entries[q] = scan.entries[q]
        /\ scan'.stable <=> scan.stable /\ FALSE
    BY <1>4, <2>1, Visited
  <2> QED
    BY <2>2
<1>6. Copied'
  <2>1. ASSUME pc = "recheck", p \in (Base \cap DOMAIN got) \ unseen,
               FileState(file[p]) = watched.entries[p].state
        PROVE  Matched(complete[p], got[p], file[p])
    <3>1. p \in Base /\ p \in DOMAIN complete /\ p \in DOMAIN watched.entries
      BY <1>2, <2>1, Placed
    <3>2. got[p] = watched.entries[p].digest /\ watched.entries[p].digest = file[p].content
      BY <1>2, <2>1, <3>1, WatchedWitness DEF Copied, Matched, TInv
    <3> QED
      BY <3>1, <3>2, WatchedWitness DEF TInv
  <2>2. pc = "recheck" => Seen = got /\ DOMAIN complete = Known
    BY <1>2, Placed DEF Recording
  <2>3. ASSUME pc = "recheck",
               NEW q \in (Base \cap DOMAIN got \cap DOMAIN scan'.entries) \ unseen',
               scan'.entries[q].state = watched.entries[q].state
        PROVE  Matched(complete[q], got[q], file'[q])
    <3>1. Matched(complete[q], got[q], file[q])
      BY <1>2, <1>5, <2>1, <2>3 DEF Copied
    <3> QED
      BY <1>1, <1>2, <2>2, <2>3, <3>1, ChangeKeepsReading DEF Known
  <2>4. ASSUME pc = "rewatch", NEW q \in (Dep \cap DOMAIN got) \ unseen'
        PROVE  IF q \in DOMAIN scan'.entries THEN Matched(scan'.entries[q], got[q], file'[q])
               ELSE got[q] = file'[q].content
    <3>1. q # p
      <4>1. p \in DOMAIN Seen \ unseen' /\ p \in Known => Baselines(p) # {}
        BY <1>1, <1>2, SeenChange
      <4>2. p \in Dep => Baselines(p) = {}
        BY <1>2, <1>5, <2>4, Unlisted
      <4>3. Seen = got
        BY <1>2, <2>4, Placed DEF Recording
      <4> QED
        BY <2>4, <4>1, <4>2, <4>3 DEF Known
    <3>2. q \in DOMAIN scan'.entries <=> q \in DOMAIN scan.entries
      BY <1>5, <3>1
    <3>3. q \in DOMAIN scan.entries => scan'.entries[q] = scan.entries[q]
      BY <1>5
    <3>4. IF q \in DOMAIN scan.entries THEN Matched(scan.entries[q], got[q], file'[q])
          ELSE got[q] = file'[q].content
      BY <1>1, <1>2, <2>4, ChangeKeepsCopied
    <3> QED
      BY <3>2, <3>3, <3>4
  <2> QED
    BY <1>1, <1>2, <2>3, <2>4, ChangeKeepsCopied DEF Copied
<1>7. Compiling'
  BY <1>1, <1>2, <1>3, ChangeKeepsCompiling DEF Compiling
<1>8. Recorded'
  <2>1. ASSUME pc = "reknown", p \in Known \ unseen, FileState(file[p]) = watched.entries[p].state
        PROVE  complete[p].digest = Seen[p]
    <3>1. output \in Product
      BY <1>2, <2>1 DEF Recorded, Recording
    <3>2. Matched(watched.entries[p], Seen[p], file[p])
      BY <1>2, <2>1, <3>1, Placed DEF Compiling, Recording, Seen, Product
    <3>3. Matched(watched.entries[p], complete[p].digest, file[p])
      BY <1>2, <2>1 DEF Recorded
    <3> QED
      BY <2>1, <3>2, <3>3 DEF Matched
  <2>2. pc \in {"readout", "reknown"} =>
          \A q \in Known \ unseen' : Matched(watched.entries[q], complete[q].digest, file'[q])
    BY <1>1, <1>2, ChangeKeepsRecorded
  <2>3. ASSUME pc = "reknown", NEW q \in (Known \cap DOMAIN scan'.entries) \ unseen',
               scan'.entries[q].state = watched.entries[q].state
        PROVE  complete[q].digest = Seen[q]
    BY <1>2, <1>5, <2>1, <2>3 DEF Recorded
  <2> QED
    BY <1>1, <1>2, <1>3, <1>5, <2>2, <2>3 DEF Recorded
<1> QED
  BY <1>6, <1>7, <1>8

(* Reading a file while staging or compiling. *)
LEMMA ReadKeepsReadings ==
  ASSUME TInv, Witnesses, Readings, NEW p \in Path, StageFile(p) \/ CompileFile(p)
  PROVE  Readings'
<1> SUFFICES ASSUME watched'.valid
             PROVE  Copied' /\ Compiling' /\ Recorded'
  BY DEF Readings
<1>1. /\ pc \in {"stage", "compile"}
      /\ pc = "stage" => p \in Staged
      /\ p \notin DOMAIN got
      /\ got' = Put(got, p, file[p].content)
      /\ UNCHANGED <<file, output, stamp, pc, sel, roots, memo, watched, complete, packed, scan,
                     unseen>>
  BY DEF StageFile, CompileFile, Read, disks, cache, history
<1>2. watched.valid /\ Copied /\ Compiling /\ Recorded
  BY <1>1 DEF Readings
<1>3. /\ DOMAIN got' = DOMAIN got \cup {p} /\ got'[p] = file[p].content
      /\ \A q \in DOMAIN got : got'[q] = got[q]
  BY <1>1 DEF Put
<1>4. Copied'
  <2>1. pc = "stage" /\ p \in Base => Matched(watched.entries[p], file[p].content, file[p])
    BY <1>1, <1>2, Placed, WatchedWitness DEF TInv
  <2> QED
    BY <1>1, <1>2, <1>3, <2>1 DEF Copied
<1>5. Compiling'
  <2>1. pc = "compile" /\ p \in Known => Matched(watched.entries[p], file[p].content, file[p])
    BY <1>2, Placed, WatchedWitness DEF TInv
  <2>2. Aged(file[p].content, watched.started, file[p])
    BY ContentAged DEF TInv, TypeOK, IsWatch
  <2> QED
    BY <1>1, <1>2, <1>3, <2>1, <2>2 DEF Compiling, Seen, Recording
<1>6. Recorded'
  BY <1>1 DEF Recorded, Recording
<1> QED
  BY <1>4, <1>5, <1>6

-----------------------------------------------------------------------------
(* The watches and the record *)

LEMMA Unchanged ==
  ASSUME NEW es, UnchangedSinceWatch(es)
  PROVE  /\ scan.stable /\ DOMAIN scan.entries = DOMAIN es
         /\ \A p \in DOMAIN es : /\ scan.entries[p].digest = es[p].digest
                                 /\ scan.entries[p].state = es[p].state
BY SameDigests DEF UnchangedSinceWatch

LEMMA WatchSourcesReadings ==
  ASSUME TInv, Readings, WatchSources
  PROVE  Readings'
<1>1. pc = "watch" /\ pc' = "stage" /\ got' = got
  BY DEF WatchSources, Done
<1>2. DOMAIN got = {}
  BY <1>1 DEF TInv, Control, Reading
<1> QED
  BY <1>1, <1>2 DEF Readings, Copied, Compiling, Recorded, Recording

LEMMA StagingDoneReadings ==
  ASSUME TInv, Witnesses, Readings, StagingDone
  PROVE  Readings'
<1> SUFFICES ASSUME watched'.valid
             PROVE  Copied' /\ Compiling' /\ Recorded'
  BY DEF Readings
<1>1. /\ pc = "stage" /\ UNCHANGED <<file, watched, got, complete, output, unseen>>
      /\ watched.valid /\ caching
  BY DEF StagingDone, disks, cache, history, TInv, Control, Watching
<1>2. pc' = "again"
  BY <1>1, Snapshot DEF StagingDone, TInv, TypeOK
<1> QED
  BY <1>1, <1>2 DEF Readings, Copied, Compiling, Recorded, Recording

LEMMA RewatchReadings ==
  ASSUME TInv, Readings, Rewatch
  PROVE  Readings'
<1> SUFFICES ASSUME watched'.valid
             PROVE  Copied' /\ Compiling' /\ Recorded'
  BY DEF Readings
<1>1. /\ pc = "again" /\ UNCHANGED <<file, got, unseen>> /\ pc' = "rewatch"
      /\ watched'.entries = watched.entries /\ watched.valid /\ DOMAIN scan'.entries = {}
  <2>1. IsWatch(watched) /\ roots \cup Dep \in SUBSET Path
    BY DEF TInv, TypeOK, Path
  <2> QED
    BY <2>1, Snapshot, NoEntriesOK DEF Rewatch, Done, disks, history, IsWatch
<1> QED
  BY <1>1 DEF Readings, Copied, Compiling, Recorded, Recording

LEMMA CapturedReadings ==
  ASSUME TInv, Readings, Captured
  PROVE  Readings'
<1> SUFFICES ASSUME watched'.valid
             PROVE  Copied' /\ Compiling' /\ Recorded'
  BY DEF Readings
<1>1. /\ pc = "rewatch" /\ UNCHANGED <<file, got, unseen>> /\ pc' = "recheck"
      /\ watched'.entries = watched.entries /\ watched.valid /\ DOMAIN scan'.entries = {}
      /\ complete' = scan.entries /\ Known \subseteq DOMAIN scan.entries /\ Dep \subseteq Known
  <2>1. IsWatch(watched) /\ DOMAIN watched.entries \in SUBSET Path
    BY DEF TInv, TypeOK, IsWatch, IsEntries
  <2> QED
    BY <2>1, Snapshot, NoEntriesOK DEF Captured, Done, disks, history, IsWatch, TInv, Control, Covered,
       Known
<1> QED
  BY <1>1 DEF Readings, Copied, Compiling, Recorded, Recording

(* The new baseline takes over from the old one. *)
LEMMA RecheckedReadings ==
  ASSUME TInv, Readings, Rechecked
  PROVE  Readings'
<1> SUFFICES ASSUME watched'.valid
             PROVE  Copied' /\ Compiling' /\ Recorded'
  BY DEF Readings
<1>1. /\ pc = "recheck" /\ UNCHANGED <<file, got, unseen>> /\ pc' = "compile"
      /\ watched'.entries = complete /\ watched.valid /\ UnchangedSinceWatch(watched.entries)
  BY DEF Rechecked, Done, disks, history, TInv, TypeOK, IsWatch
<1>2. DOMAIN got \subseteq Known /\ DOMAIN watched.entries = Base /\ Known \cap Late = {}
      /\ Known = Base \cup Dep
  BY <1>1, Placed
<1>3. \A p \in DOMAIN got \ unseen : Matched(complete[p], got[p], file[p])
  <2>1. ASSUME NEW p \in (Base \cap DOMAIN got) \ unseen
        PROVE  Matched(complete[p], got[p], file[p])
    <3>1. p \in DOMAIN scan.entries /\ scan.entries[p].state = watched.entries[p].state
      BY <1>1, <1>2, Unchanged
    <3> QED
      BY <1>1, <3>1 DEF Readings, Copied
  <2>2. \A p \in (Dep \cap DOMAIN got) \ unseen : Matched(complete[p], got[p], file[p])
    BY <1>1 DEF Readings, Copied
  <2> QED
    BY <1>2, <2>1, <2>2
<1> QED
  BY <1>1, <1>2, <1>3 DEF Copied, Compiling, Recorded, Recording, Seen

LEMMA PackReadings ==
  ASSUME TInv, Readings, Pack
  PROVE  Readings'
<1> SUFFICES ASSUME watched'.valid
             PROVE  Copied' /\ Compiling' /\ Recorded'
  BY DEF Readings
<1>1. /\ pc = "compile" /\ UNCHANGED <<file, watched, unseen>> /\ pc' = "known"
      /\ output' = [sel |-> sel, read |-> got] /\ sel' = sel /\ DOMAIN got = Path
  <2>1. caching /\ watched.valid
    BY Nothing DEF Pack, Leave
  <2> QED
    BY <2>1, Snapshot DEF Pack, disks, cache, TInv, TypeOK
<1>2. output' \in Product /\ output'.sel = sel' /\ Seen' = got
  BY <1>1 DEF TInv, TypeOK, Product, Seen, Recording
<1>3. Seen = got
  BY <1>1 DEF Seen, Recording
<1> QED
  BY <1>1, <1>2, <1>3 DEF Readings, Copied, Compiling, Recorded, Recording

LEMMA KnownUnchangedReadings ==
  ASSUME TInv, Readings, KnownUnchanged
  PROVE  Readings'
<1> SUFFICES ASSUME watched'.valid
             PROVE  Copied' /\ Compiling' /\ Recorded'
  BY DEF Readings
<1>1. /\ pc = "known" /\ UNCHANGED <<file, watched, output, sel, unseen>> /\ pc' = "complete"
      /\ DOMAIN scan'.entries = {}
  <2>1. UnchangedSinceWatch(watched.entries)
    BY Nothing DEF KnownUnchanged, Refuse, Leave
  <2>2. roots \cup Late \in SUBSET Path
    BY DEF TInv, TypeOK, Path
  <2> QED
    BY <2>1, <2>2, Snapshot, NoEntriesOK DEF KnownUnchanged, Done, disks, history
<1>2. Seen' = Seen
  BY <1>1 DEF Seen, Recording
<1> QED
  BY <1>1, <1>2 DEF Readings, Copied, Compiling, Recorded, Recording

LEMMA CompleteTakenReadings ==
  ASSUME TInv, Readings, CompleteTaken
  PROVE  Readings'
<1> SUFFICES ASSUME watched'.valid
             PROVE  Copied' /\ Compiling' /\ Recorded'
  BY DEF Readings
<1>1. scan.stable /\ LateExisted
  BY Nothing DEF CompleteTaken, Refuse, Leave
<1>2. /\ pc = "complete" /\ UNCHANGED <<file, watched, output, sel, unseen>> /\ pc' = "readout"
      /\ complete' = scan.entries /\ scan.todo = {} /\ watched.valid
  BY <1>1 DEF CompleteTaken, Done, disks, history
<1>3. Seen' = Seen
  BY <1>2 DEF Seen, Recording
<1>4. DOMAIN scan.entries = Path /\ DOMAIN memo = Known /\ watched.started \in Nat
  BY <1>2 DEF TInv, Control, Covered, TypeOK, IsWatch
<1>5. \A p \in Late \ unseen : scan.entries[p].digest = Seen[p]
  <2> SUFFICES ASSUME NEW p \in Late \ unseen
               PROVE  scan.entries[p].digest = Seen[p]
    OBVIOUS
  <2>1. p \in DOMAIN scan.entries \ DOMAIN memo
    BY <1>4 DEF Path, Known
  <2>2. scan.entries[p].state.ctime <= watched.started
    BY <1>1, <1>4, <2>1 DEF LateExisted, ExistedAt, NoState
  <2> QED
    BY <1>1, <1>2, <2>1, <2>2 DEF Readings, Recorded
<1>6. \A p \in Known \ unseen : Matched(watched.entries[p], scan.entries[p].digest, file[p])
  BY <1>1, <1>2, <1>4 DEF Readings, Recorded, Path, Known
<1> QED
  BY <1>2, <1>3, <1>5, <1>6 DEF Readings, Copied, Compiling, Recorded, Recording

LEMMA ReadOutputReadings ==
  ASSUME TInv, Readings, ReadOutput
  PROVE  Readings'
<1> SUFFICES ASSUME watched'.valid
             PROVE  Copied' /\ Compiling' /\ Recorded'
  BY DEF Readings
<1>1. /\ pc = "readout" /\ UNCHANGED <<file, watched, output, sel, complete, unseen>> /\ pc' = "reknown"
      /\ packed' = output /\ DOMAIN scan'.entries = {}
  <2>1. output # NoOutput
    BY Nothing DEF ReadOutput, Refuse, Leave
  <2> QED
    BY <2>1, Snapshot, NoEntriesOK DEF ReadOutput, disks, history, TInv, TypeOK
<1>2. Seen' = Seen
  BY <1>1 DEF Seen, Recording
<1> QED
  BY <1>1, <1>2 DEF Readings, Copied, Compiling, Recorded, Recording

LEMMA KnownVerifiedReadings ==
  ASSUME TInv, Readings, KnownVerified
  PROVE  Readings'
<1> SUFFICES ASSUME watched'.valid
             PROVE  Copied' /\ Compiling' /\ Recorded'
  BY DEF Readings
<1>1. UnchangedSinceWatch(watched.entries)
  BY Nothing DEF KnownVerified, Refuse, Leave
<1>2. /\ pc = "reknown" /\ UNCHANGED <<file, watched, output, sel, complete, packed, unseen>>
      /\ pc' = "verify" /\ watched.valid
  <2>1. roots \cup Late \in SUBSET Path
    BY DEF TInv, TypeOK, Path
  <2> QED
    BY <1>1, <2>1, Snapshot DEF KnownVerified, Done, disks, cache, history
<1>3. Seen' = Seen
  BY <1>2 DEF Seen, Recording
<1>4. \A p \in Path \ unseen : complete[p].digest = Seen[p]
  <2>1. \A p \in Late \ unseen : complete[p].digest = Seen[p]
    BY <1>2 DEF Readings, Recorded
  <2>2. ASSUME NEW p \in Known \ unseen
        PROVE  complete[p].digest = Seen[p]
    <3>1. p \in DOMAIN scan.entries /\ scan.entries[p].state = watched.entries[p].state
      BY <1>1, <1>2, Unchanged, Placed DEF Recording
    <3> QED
      BY <1>2, <3>1 DEF Readings, Recorded
  <2> QED
    BY <2>1, <2>2 DEF Path, Known
<1> QED
  BY <1>2, <1>3, <1>4 DEF Readings, Copied, Compiling, Recorded, Recording

(* Every other step ends with no valid watch. *)
LEMMA NextReadings ==
  ASSUME TInv, Witnesses, Readings, [Next]_vars
  PROVE  Readings'
<1>T. TInv'
  BY NextTInv
<1>1. ~ watched'.valid => Readings'
  BY DEF Readings
<1>2. pc' \in {"off", "check", "outputs", "fresh", "invalidate", "watch"} => Readings'
  BY <1>T, <1>1 DEF TInv, Control, Watching, Recording
<1>3. Leave => Readings'
  BY <1>2 DEF Leave
<1>4. CASE BuilderStep
  <2>1. ASSUME NEW x \in Selection, Start(x)
        PROVE  Readings'
    BY <1>2, <2>1 DEF Start, Scan
  <2>2. ASSUME NEW p \in Path, ScanFile(p) \/ StageFile(p) \/ CompileFile(p)
        PROVE  Readings'
    BY <2>2, ScanKeepsReadings, ReadKeepsReadings
  <2>3. CASE InputsFresh \/ OutputsFresh \/ ReceiptRefused \/ UpToDate \/ Invalidate
    BY <1>2, <1>3, <2>3 DEF InputsFresh, OutputsFresh, ReceiptRefused, UpToDate, Invalidate, Scan
  <2>4. CASE WatchSources \/ StagingDone \/ Rewatch \/ Captured \/ Rechecked \/ Pack
    BY <2>4, WatchSourcesReadings, StagingDoneReadings, RewatchReadings, CapturedReadings,
       RecheckedReadings, PackReadings
  <2>5. CASE KnownUnchanged \/ CompleteTaken \/ ReadOutput \/ KnownVerified
    BY <2>5, KnownUnchangedReadings, CompleteTakenReadings, ReadOutputReadings,
       KnownVerifiedReadings
  <2>6. CASE WriteStamp
    BY <1>3, <2>6 DEF WriteStamp, Refuse
  <2> QED
    BY <1>4, <2>1, <2>2, <2>3, <2>4, <2>5, <2>6 DEF BuilderStep
<1>5. CASE EditorStep
  <2>1. Tamper => Readings'
    BY <1>2 DEF Tamper
  <2> QED
    BY <1>5, <2>1, EditKeepsReadings, DisturbedKeepsReadings DEF EditorStep
<1>6. CASE CacheUnavailable \/ Abort
  BY <1>1, <1>3, <1>6, Nothing DEF CacheUnavailable, Abort
<1>7. CASE UNCHANGED vars
  BY <1>7 DEF Readings, Copied, Compiling, Recorded, Seen, vars, disks, cache, history
<1> QED
  BY <1>4, <1>5, <1>6, <1>7 DEF Next

-----------------------------------------------------------------------------
(* The stamp *)

LEMMA StampWritten ==
  ASSUME TInv, Witnesses, Readings, WriteStamp, ~ UNCHANGED <<stamp, excused>>
  PROVE  StampIsSound'
<1>1. Digests(scan.entries) = Digests(complete)
  BY DEF WriteStamp, Refuse
<1>2. /\ pc = "verify" /\ excused' = unseen
      /\ stamp' = [sel |-> sel, roots |-> roots \cup Late, inputs |-> scan.entries, out |-> packed]
  BY <1>1 DEF WriteStamp, Done, Refuse
<1>3. watched.valid /\ DOMAIN complete = Path
  BY <1>2 DEF TInv, Control, Watching, Covered, Recording
<1>4. /\ output \in Product /\ output.sel = sel /\ packed = output /\ Seen = output.read
      /\ \A p \in Path \ unseen : complete[p].digest = Seen[p]
  BY <1>2, <1>3 DEF Readings, Recorded, Recording, Seen
<1>5. /\ DOMAIN scan.entries = Path
      /\ \A p \in Path \ unseen : scan.entries[p].digest = output.read[p]
  BY <1>1, <1>3, <1>4, SameDigests
<1>6. stamp'.out = output /\ stamp'.sel = sel /\ stamp'.inputs = scan.entries
  BY <1>2, <1>4
<1> QED
  BY <1>2, <1>4, <1>5, <1>6 DEF StampIsSound

LEMMA NextStamp ==
  ASSUME TInv, Witnesses, Readings, StampIsSound, [Next]_vars
  PROVE  StampIsSound'
<1>1. UNCHANGED <<stamp, excused>> => StampIsSound'
  BY DEF StampIsSound
<1>2. stamp' = NoStamp => StampIsSound'
  BY DEF StampIsSound
<1>3. UNCHANGED <<stamp, excused>> \/ stamp' = NoStamp \/ WriteStamp
  <2>1. \A x \in Selection : Start(x) => UNCHANGED <<stamp, excused>>
    BY DEF Start, history
  <2>2. \A p \in Path : ScanFile(p) \/ StageFile(p) \/ CompileFile(p) => UNCHANGED <<stamp, excused>>
    BY DEF ScanFile, StageFile, CompileFile, history
  <2>3. InputsFresh \/ OutputsFresh \/ ReceiptRefused \/ UpToDate => UNCHANGED <<stamp, excused>>
    BY DEF InputsFresh, OutputsFresh, ReceiptRefused, UpToDate, history
  <2>4. WatchSources \/ StagingDone \/ Rewatch \/ Captured \/ Rechecked \/ Pack => UNCHANGED <<stamp, excused>>
    BY DEF WatchSources, StagingDone, Rewatch, Captured, Rechecked, Pack, history
  <2>5. KnownUnchanged \/ CompleteTaken \/ ReadOutput \/ KnownVerified => UNCHANGED <<stamp, excused>>
    BY DEF KnownUnchanged, CompleteTaken, ReadOutput, KnownVerified, Refuse, history
  <2>6. Invalidate => stamp' = NoStamp
    BY DEF Invalidate, history
  <2>7. EditorStep \/ CacheUnavailable \/ Abort \/ UNCHANGED vars => UNCHANGED <<stamp, excused>>
    BY DEF EditorStep, Edit, ScanDisturbed, Tamper, CacheUnavailable, Abort, vars, history
  <2> QED
    BY <2>1, <2>2, <2>3, <2>4, <2>5, <2>6, <2>7 DEF Next, BuilderStep
<1> QED
  BY <1>1, <1>2, <1>3, StampWritten

-----------------------------------------------------------------------------
(* The freshness check *)

LEMMA StartChecked ==
  ASSUME TInv, NEW x \in Selection, Start(x)
  PROVE  Checked'
<1>1. CASE stamp # NoStamp /\ stamp.sel = x
  <2>1. Base \cup stamp.roots \in SUBSET Path
    BY <1>1 DEF TInv, TypeOK, IsEntries, Path
  <2>2. pc' = "check" /\ DOMAIN scan'.entries = {} /\ stamp' = stamp /\ sel' = x
    BY <1>1, <2>1, Snapshot, NoEntriesOK DEF Start
  <2> QED
    BY <1>1, <2>2 DEF Checked
<1>2. CASE ~ (stamp # NoStamp /\ stamp.sel = x)
  BY <1>2 DEF Start, Checked
<1> QED
  BY <1>1, <1>2

LEMMA ScanChecked ==
  ASSUME TInv, Witnesses, Checked, NEW p \in Path, ScanFile(p)
  PROVE  Checked'
<1>1. UNCHANGED <<file, output, stamp, pc, sel, quiet>>
  BY DEF ScanFile, disks, cache, history
<1>2. /\ DOMAIN scan'.entries = DOMAIN scan.entries \cup {p}
      /\ scan'.entries[p] = [digest |-> file[p].content, state |-> FileState(file[p])]
      /\ \A q \in DOMAIN scan.entries : scan'.entries[q] = scan.entries[q]
  <2>1. TypeOK /\ Due(p) /\ Visit(p, file[p].content, TRUE)
    BY DigestIsContent DEF ScanFile, TInv
  <2>2. file[p].content \in Content \cup {Missing}
    BY <2>1 DEF TypeOK
  <2> QED
    BY <2>1, <2>2, Visited
<1>3. scan'.entries[p].digest = file[p].content
  BY <1>2
<1> QED
  BY <1>1, <1>2, <1>3 DEF Checked

LEMMA InputsFreshChecked ==
  ASSUME TInv, Checked, StampIsSound, InputsFresh
  PROVE  Checked'
<1>1. pc = "check" /\ UNCHANGED <<file, output, stamp, sel, quiet>>
  BY DEF InputsFresh, Done, disks, history
<1>2. CASE pc' = "outputs"
  <2>1. Digests(scan.entries) = Digests(stamp.inputs) /\ stamp # NoStamp /\ stamp.sel = sel
    BY <1>1, <1>2 DEF InputsFresh, Checked
  <2>2. quiet => \A p \in Path : stamp.inputs[p].digest = file[p].content
    BY <1>1, <2>1, SameDigests DEF Checked, StampIsSound
  <2> QED
    BY <1>1, <1>2, <2>1, <2>2 DEF Checked
<1>3. CASE pc' = "invalidate"
  BY <1>3 DEF Checked
<1> QED
  BY <1>2, <1>3 DEF InputsFresh

LEMMA NextChecked ==
  ASSUME TInv, Witnesses, StampIsSound, Checked, [Next]_vars
  PROVE  Checked'
<1>1. pc' \notin {"check", "outputs", "fresh"} => Checked'
  BY DEF Checked
<1>2. Leave => Checked'
  BY <1>1 DEF Leave
<1>3. CASE BuilderStep
  <2>1. ASSUME NEW x \in Selection, Start(x)
        PROVE  Checked'
    BY <2>1, StartChecked
  <2>2. ASSUME NEW p \in Path, ScanFile(p) \/ StageFile(p) \/ CompileFile(p)
        PROVE  Checked'
    BY <1>1, <2>2, ScanChecked DEF StageFile, CompileFile
  <2>3. CASE OutputsFresh
    BY <2>3 DEF OutputsFresh, Checked, disks, cache, history
  <2>4. CASE InputsFresh \/ ReceiptRefused \/ UpToDate \/ Invalidate
    BY <1>1, <1>2, <2>4, InputsFreshChecked DEF ReceiptRefused, UpToDate, Invalidate, Scan
  <2>5. CASE WatchSources \/ StagingDone \/ Rewatch \/ Captured \/ Rechecked \/ Pack
    BY <1>1, <1>2, <2>5 DEF WatchSources, StagingDone, Rewatch, Captured, Rechecked, Pack, Scan
  <2>6. CASE KnownUnchanged \/ CompleteTaken \/ ReadOutput \/ KnownVerified \/ WriteStamp
    BY <1>1, <1>2, <2>6
       DEF KnownUnchanged, CompleteTaken, ReadOutput, KnownVerified, WriteStamp, Refuse, Scan
  <2> QED
    BY <1>3, <2>1, <2>2, <2>3, <2>4, <2>5, <2>6 DEF BuilderStep
<1>4. CASE EditorStep
  <2>1. ~ quiet' /\ UNCHANGED <<stamp, pc, sel>>
    BY <1>4 DEF EditorStep, Edit, ScanDisturbed, Tamper, Change, cache
  <2> QED
    BY <2>1 DEF Checked
<1>5. CASE CacheUnavailable \/ Abort
  BY <1>1, <1>2, <1>5 DEF CacheUnavailable, Abort
<1>6. CASE UNCHANGED vars
  BY <1>6 DEF Checked, vars, disks, cache, history
<1> QED
  BY <1>3, <1>4, <1>5, <1>6 DEF Next

-----------------------------------------------------------------------------
(* The theorems *)

LEMMA InitIInv == Init => IInv
<1> SUFFICES ASSUME Init
             PROVE  IInv
  OBVIOUS
<1>1. Witnesses
  <2>1. Clocked
    BY DEF Init, Clocked
  <2>2. /\ memo = NoEntries /\ scan.entries = NoEntries /\ watched.entries = NoEntries
        /\ complete = NoEntries /\ stamp = NoStamp
    BY Nothing DEF Init
  <2> QED
    BY <2>1, <2>2, NothingWitnessed DEF Witnesses
<1>2. Readings /\ StampIsSound /\ Checked
  BY Nothing DEF Init, Readings, StampIsSound, Checked
<1> QED
  BY <1>1, <1>2, InitTInv DEF IInv

(* The invariant: entries are true of the files they saw, what the compiler  *)
(* read is what the watches saw, and the stamp was made from that.           *)
THEOREM Invariance == Spec => []IInv
<1>1. Init => IInv
  BY InitIInv
<1>2. IInv /\ [Next]_vars => IInv'
  <2> SUFFICES ASSUME IInv, [Next]_vars
               PROVE  IInv'
    OBVIOUS
  <2>1. TInv /\ Witnesses /\ Readings /\ StampIsSound /\ Checked
    BY DEF IInv
  <2>2. TInv' /\ Witnesses'
    BY <2>1, NextTInv, NextWitnesses
  <2>3. Readings' /\ StampIsSound' /\ Checked'
    BY <2>1, NextReadings, NextStamp, NextChecked
  <2> QED
    BY <2>2, <2>3 DEF IInv
<1> QED
  BY <1>1, <1>2, PTL DEF Spec

(* BuildCache::record vouches for an artifact compiled from the contents it  *)
(* lists, whatever is staged and edited while the build runs, for every      *)
(* input but those edited where none of its snapshots can tell (Unseen).     *)
THEOREM SoundStamp == Spec => []StampIsSound
<1>1. IInv => StampIsSound
  BY DEF IInv
<1> QED
  BY <1>1, Invariance, PTL

(* BuildCache::is_fresh says "up to date" only of an artifact compiled from  *)
(* what those inputs hold, unless one was edited after it looked.            *)
THEOREM SoundFreshness == Spec => []FreshIsSound
<1>1. IInv => FreshIsSound
  <2> SUFFICES ASSUME IInv, pc = "fresh", quiet
               PROVE  /\ output \in Product /\ output.sel = sel
                      /\ \A p \in Path \ excused : output.read[p] = file[p].content
    BY DEF FreshIsSound
  <2>1. /\ stamp # NoStamp /\ stamp.sel = sel /\ output = stamp.out
        /\ \A p \in Path : stamp.inputs[p].digest = file[p].content
    BY DEF IInv, Checked
  <2> QED
    BY <2>1 DEF IInv, StampIsSound
<1> QED
  BY <1>1, Invariance, PTL
===============================================================================
