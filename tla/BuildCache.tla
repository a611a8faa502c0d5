------------------------------ MODULE BuildCache ------------------------------
(***************************************************************************)
(* The packer's build cache (src/build_cache.rs) inside one build of an    *)
(* artifact (build_one_target_to in src/main.rs): decide whether the last  *)
(* recorded success still describes the sources, otherwise rebuild while   *)
(* watching the sources, and record the new success only when no edit      *)
(* slipped in.  Editors change files at any moment.  A build lock admits   *)
(* one builder.  The compiler is a function: its output is the contents it *)
(* read.  File contents stand for digests (and modes); inode and device    *)
(* numbers are not told from the change time; the clock gives every edit a *)
(* change time of its own.                                                 *)
(***************************************************************************)
EXTENDS Naturals

CONSTANTS
  Base,       \* inputs known before the build: cache_inputs::base
  Dep,        \* inputs found in the Cargo metadata, after staging
  Late,       \* inputs first learned from the compiler's dep-info
  Staged,     \* inputs the build copies while staging
  Content,    \* file contents
  Missing,    \* the content of a path with no file
  Selection,  \* build selections: key and environment
  NoStamp, NoOutput,
  Foreign,    \* an output this build did not write, or a torn one
  Optional,   \* inputs that may be absent at first
  Deletable,  \* inputs an editor may remove
  MaxEdits    \* bound: edits of the input files

Path == Base \cup Dep \cup Late
Known == Base \cup Dep
NoState == [mtime |-> 0, ctime |-> 0]

ASSUME PathsAssumption ==
  /\ Path \subseteq Nat
  /\ Staged \subseteq Known
  /\ Optional \subseteq Path /\ Deletable \subseteq Path
  /\ Base \cap Dep = {} /\ Known \cap Late = {}
ASSUME ValuesAssumption ==
  /\ Missing \notin Content
  /\ NoOutput # Foreign
  /\ MaxEdits \in Nat

VARIABLES
  file,      \* the input files: content, mtime, ctime
  clock,     \* the time of the last edit
  edits,     \* edits made
  output,    \* the packed artifact at the output path
  stamp,     \* the stamp file
  pc,        \* where build_one_target_to stands
  sel,       \* its build selection
  caching,   \* build_cache is Some: no cache error so far
  roots,     \* BuildCache.roots
  memo,      \* BuildCache.memo, or the entries handed to the current snapshot
  scan,      \* the snapshot being taken: paths to visit, entries, stable
  watched,   \* BuildCache.watched: entries, started, valid
  complete,  \* record(): entries of the complete snapshot
  packed,    \* record(): the recorded output
  got        \* contents the compiler has read
VARIABLES    \* what happened, for the properties only
  quiet,     \* no edit since the freshness check began
  unseen,    \* inputs the running build read and then missed an edit of
  excused    \* the unseen inputs of the build that wrote the stamp

disks   == <<file, clock, edits>>
cache   == <<sel, caching, roots, memo, watched, complete, packed>>
history == <<quiet, unseen, excused>>
vars == <<disks, output, stamp, pc, cache, scan, got, history>>

Entry == [digest : Content \cup {Missing}, state : [mtime : Nat, ctime : Nat]]
IsEntries(es) == DOMAIN es \subseteq Path /\ \A p \in DOMAIN es : es[p] \in Entry
Product == [sel : Selection, read : [Path -> Content \cup {Missing}]]
Scanning == {"check", "watch", "again", "rewatch", "recheck",
             "known", "complete", "reknown", "verify"}
Stage == Scanning \cup {"off", "outputs", "fresh", "invalidate", "stage", "compile", "readout"}
NoEntries == << >>
NoScan == [todo |-> {}, entries |-> NoEntries, stable |-> TRUE]
NoWatch == [entries |-> NoEntries, started |-> 0, valid |-> FALSE]

IsScan(s) ==
  /\ s.todo \in SUBSET Path /\ IsEntries(s.entries) /\ s.stable \in BOOLEAN
  /\ s.todo \cap DOMAIN s.entries = {}
IsWatch(w) ==
  /\ DOMAIN w = {"entries", "started", "valid"}
  /\ IsEntries(w.entries) /\ w.started \in Nat /\ w.valid \in BOOLEAN

TypeOK ==
  /\ file \in [Path -> [content : Content \cup {Missing}, mtime : Nat, ctime : Nat]]
  /\ clock \in Nat /\ edits \in 0..MaxEdits
  /\ output \in Product \cup {NoOutput, Foreign}
  /\ stamp = NoStamp \/
       /\ stamp.sel \in Selection /\ stamp.out \in Product \cup {Foreign}
       /\ IsEntries(stamp.inputs) /\ DOMAIN stamp.inputs = stamp.roots
  /\ pc \in Stage
  /\ sel \in Selection /\ caching \in BOOLEAN
  /\ roots \in SUBSET Path /\ Base \subseteq roots
  /\ IsEntries(memo) /\ IsEntries(complete)
  /\ IsScan(scan)
  /\ IsWatch(watched)
  /\ packed \in Product \cup {NoOutput, Foreign}
  /\ DOMAIN got \subseteq Path /\ got \in [DOMAIN got -> Content \cup {Missing}]
  /\ quiet \in BOOLEAN /\ unseen \in SUBSET Path /\ excused \in SUBSET Path

Init ==
  /\ \E c \in Content, absent \in SUBSET Optional :
       file = [p \in Path |-> [content |-> IF p \in absent THEN Missing ELSE c,
                               mtime |-> 0, ctime |-> 1]]
  /\ clock = 1 /\ edits = 0
  /\ output = NoOutput
  /\ stamp = NoStamp
  /\ pc = "off"
  /\ sel \in Selection
  /\ caching = FALSE
  /\ roots = Base
  /\ memo = NoEntries
  /\ scan = NoScan
  /\ watched = NoWatch
  /\ complete = NoEntries
  /\ packed = NoOutput
  /\ got = << >>
  /\ quiet = FALSE /\ unseen = {} /\ excused = {}

-----------------------------------------------------------------------------
(* Files and snapshots *)

FileState(f) ==
  IF f.content = Missing THEN NoState ELSE [mtime |-> f.mtime, ctime |-> f.ctime]

(* An edit has the clock's change time; its author chooses the mtime. *)
Written(c, backdated) ==
  [content |-> c, mtime |-> IF backdated THEN 0 ELSE clock + 1, ctime |-> clock + 1]

(* What the running build has read, or had read when it packed. *)
Recording == {"known", "complete", "readout", "reknown", "verify"}
Seen == IF pc \in Recording THEN output.read ELSE got

(* The watched snapshots that later ones have to agree with, and list p. *)
Baselines(p) ==
  {es \in {watched.entries} \cup (IF pc = "rewatch" THEN {scan.entries} ELSE {})
                            \cup (IF pc = "recheck" THEN {complete} ELSE {}) :
     p \in DOMAIN es}

(* No snapshot will tell that p, which the build has read, becomes c: no   *)
(* baseline lists p yet, or p is away again as a baseline found it.  An    *)
(* input learned late is in none: its change time tells, if it still has   *)
(* one.                                                                    *)
Unseen(p, c) ==
  /\ watched.valid /\ p \in DOMAIN Seen
  /\ IF Baselines(p) = {} THEN p \in Known \/ c = Missing
     ELSE c = Missing /\ \E es \in Baselines(p) : es[p].state = NoState

Change(p, c, backdated) ==
  /\ edits < MaxEdits
  /\ c # file[p].content
  /\ c = Missing => p \in Deletable
  /\ unseen' = IF Unseen(p, c) THEN unseen \cup {p} ELSE unseen
  /\ file' = [file EXCEPT ![p] = Written(c, backdated)]
  /\ clock' = clock + 1
  /\ edits' = edits + 1
  /\ quiet' = FALSE

(* Hash the file, unless the memo knows a file in this very state. *)
Digest(p) ==
  IF p \in DOMAIN memo /\ memo[p].state = FileState(file[p]) /\ file[p].content # Missing
  THEN memo[p].digest ELSE file[p].content

Put(f, p, v) == [q \in DOMAIN f \cup {p} |-> IF q = p THEN v ELSE f[q]]

Visit(p, digest, stable) ==
  scan' = [todo |-> scan.todo \ {p},
           entries |-> Put(scan.entries, p, [digest |-> digest, state |-> FileState(file[p])]),
           stable |-> scan.stable /\ stable]

(* Paths are visited in order. *)
Due(p) == p \in scan.todo /\ \A q \in scan.todo : p <= q

ScanFile(p) ==
  /\ pc \in Scanning /\ Due(p)
  /\ Visit(p, Digest(p), TRUE)
  /\ UNCHANGED <<disks, output, stamp, pc, cache, got, history>>

(* An edit lands between the two looks at the file's metadata. *)
ScanDisturbed(p, c, backdated) ==
  /\ pc \in Scanning /\ Due(p) /\ file[p].content # Missing
  /\ Change(p, c, backdated)
  /\ \E digest \in {Digest(p), c} \ {Missing} : Visit(p, digest, FALSE)
  /\ UNCHANGED <<output, stamp, pc, cache, got, excused>>

Scan(next, ps) ==
  /\ pc' = next
  /\ scan' = [NoScan EXCEPT !.todo = ps]
Done(phase) == pc = phase /\ scan.todo = {}

Digests(entries) == [p \in DOMAIN entries |-> entries[p].digest]

(* Seeded fault: content decides, as it does for freshness. *)
UnchangedSinceWatch_ContentOnly(entries) ==
  scan.stable /\ Digests(scan.entries) = Digests(entries)

(* unchanged_since_watch: same digests and same file states. *)
UnchangedSinceWatch(entries) ==
  /\ scan.stable
  /\ Digests(scan.entries) = Digests(entries)
  /\ \A p \in DOMAIN entries : scan.entries[p].state = entries[p].state

Leave ==
  /\ pc' = "off"
  /\ caching' = FALSE
  /\ roots' = Base
  /\ memo' = NoEntries
  /\ scan' = NoScan
  /\ watched' = NoWatch
  /\ complete' = NoEntries
  /\ packed' = NoOutput
  /\ got' = << >>
  /\ unseen' = {}
  /\ UNCHANGED sel

-----------------------------------------------------------------------------
(* BuildCache::new and is_fresh *)

Start(x) ==
  /\ pc = "off"
  /\ sel' = x
  /\ caching' = TRUE
  /\ quiet' = TRUE
  /\ memo' = IF stamp = NoStamp THEN NoEntries ELSE stamp.inputs
  /\ IF stamp # NoStamp /\ stamp.sel = x
     THEN roots' = Base \cup stamp.roots /\ Scan("check", roots')
     ELSE roots' = Base /\ pc' = "invalidate" /\ UNCHANGED scan
  /\ UNCHANGED <<disks, output, stamp, watched, complete, packed, got, unseen, excused>>

InputsFresh ==
  /\ Done("check")
  /\ memo' = scan.entries
  /\ scan' = NoScan
  /\ pc' = IF scan.stable /\ Digests(scan.entries) = Digests(stamp.inputs)
           THEN "outputs" ELSE "invalidate"
  /\ UNCHANGED <<disks, output, stamp, sel, caching, roots, watched, complete, packed, got, history>>

(* Seeded fault: an output that exists is taken for the recorded one. *)
OutputsFresh_Exists ==
  /\ pc = "outputs"
  /\ pc' = IF output # NoOutput THEN "fresh" ELSE "invalidate"
  /\ UNCHANGED <<disks, output, stamp, cache, scan, got, history>>

OutputsFresh ==
  /\ pc = "outputs"
  /\ pc' = IF output = stamp.out THEN "fresh" ELSE "invalidate"
  /\ UNCHANGED <<disks, output, stamp, cache, scan, got, history>>

UpToDate ==
  /\ pc = "fresh"
  /\ Leave
  /\ UNCHANGED <<disks, output, stamp, quiet, excused>>

(* The Codex receipt of an unchanged artifact asks for a rebuild. *)
ReceiptRefused ==
  /\ pc = "fresh"
  /\ pc' = "invalidate"
  /\ UNCHANGED <<disks, output, stamp, cache, scan, got, history>>

-----------------------------------------------------------------------------
(* invalidate, watch, stage, watch again, compile *)

(* Drop the stamp, forget roots of the old graph and begin the first watch. *)
Invalidate ==
  /\ pc = "invalidate"
  /\ stamp' = NoStamp
  /\ excused' = {}
  /\ roots' = Base
  /\ Scan("watch", Base)
  /\ watched' = [NoWatch EXCEPT !.started = clock]
  /\ UNCHANGED <<disks, output, sel, caching, memo, complete, packed, got, quiet, unseen>>

WatchSources ==
  /\ Done("watch")
  /\ memo' = scan.entries
  /\ watched' = [watched EXCEPT !.entries = scan.entries, !.valid = scan.stable]
  /\ pc' = "stage"
  /\ scan' = NoScan
  /\ UNCHANGED <<disks, output, stamp, sel, caching, roots, complete, packed, got, history>>

Read(p) == got' = Put(got, p, file[p].content)

StageFile(p) ==
  /\ pc = "stage"
  /\ p \in Staged \ DOMAIN got
  /\ Read(p)
  /\ UNCHANGED <<disks, output, stamp, pc, cache, scan, history>>

(* Staging is over: the second watch first looks at the old roots again. *)
StagingDone ==
  /\ pc = "stage" /\ Staged \subseteq DOMAIN got
  /\ IF caching THEN Scan("again", roots) ELSE pc' = "compile" /\ UNCHANGED scan
  /\ UNCHANGED <<disks, output, stamp, cache, got, history>>

(* ... then takes the new baseline of the old and the new roots ... *)
Rewatch ==
  /\ Done("again")
  /\ roots' = roots \cup Dep
  /\ Scan("rewatch", roots')
  /\ memo' = scan.entries
  /\ watched' = [watched EXCEPT !.valid = @ /\ UnchangedSinceWatch(watched.entries),
                                !.started = clock]
  /\ UNCHANGED <<disks, output, stamp, sel, caching, complete, packed, got, history>>

(* ... and checks the old roots against the old baseline once more. *)
Captured ==
  /\ Done("rewatch")
  /\ complete' = scan.entries
  /\ memo' = scan.entries
  /\ watched' = [watched EXCEPT !.valid = @ /\ scan.stable]
  /\ Scan("recheck", DOMAIN watched.entries)
  /\ UNCHANGED <<disks, output, stamp, sel, caching, roots, packed, got, history>>

Rechecked ==
  /\ Done("recheck")
  /\ watched' = [watched EXCEPT !.valid = @ /\ UnchangedSinceWatch(watched.entries),
                                !.entries = complete]
  /\ complete' = NoEntries
  /\ pc' = "compile"
  /\ scan' = NoScan
  /\ UNCHANGED <<disks, output, stamp, sel, caching, roots, memo, packed, got, history>>

CompileFile(p) ==
  /\ pc = "compile"
  /\ p \in Path \ DOMAIN got
  /\ Read(p)
  /\ UNCHANGED <<disks, output, stamp, pc, cache, scan, history>>

(* Pack the artifact; recording starts if the watches were undisturbed. *)
Pack ==
  /\ pc = "compile" /\ DOMAIN got = Path
  /\ output' = [sel |-> sel, read |-> got]
  /\ IF caching /\ watched.valid
     THEN Scan("known", roots) /\ got' = << >> /\ UNCHANGED <<cache, unseen>>
     ELSE Leave
  /\ UNCHANGED <<disks, stamp, quiet, excused>>

-----------------------------------------------------------------------------
(* record *)

Refuse == Leave /\ UNCHANGED <<disks, output, stamp, quiet, excused>>

KnownUnchanged ==
  /\ Done("known")
  /\ IF UnchangedSinceWatch(watched.entries)
     THEN /\ memo' = scan.entries
          /\ Scan("complete", roots \cup Late)
          /\ UNCHANGED <<disks, output, stamp, sel, caching, roots, watched, complete,
                         packed, got, history>>
     ELSE Refuse

(* Seeded fault: a file changed in the very instant of the watch is new. *)
ExistedAt_Strict(state, started) == state.mtime < started /\ state.ctime < started
ExistedAt(state, started) == state.mtime <= started /\ state.ctime <= started

(* A late input that exists must have existed when the watch began. *)
LateExisted ==
  \A p \in DOMAIN scan.entries \ DOMAIN memo :
    scan.entries[p].state # NoState => ExistedAt(scan.entries[p].state, watched.started)

CompleteTaken ==
  /\ Done("complete")
  /\ IF scan.stable /\ LateExisted
     THEN /\ complete' = scan.entries
          /\ memo' = scan.entries
          /\ pc' = "readout"
          /\ scan' = NoScan
          /\ UNCHANGED <<disks, output, stamp, sel, caching, roots, watched, packed, got, history>>
     ELSE Refuse

ReadOutput ==
  /\ pc = "readout"
  /\ IF output # NoOutput
     THEN /\ packed' = output
          /\ Scan("reknown", roots)
          /\ UNCHANGED <<disks, output, stamp, sel, caching, roots, memo, watched, complete,
                         got, history>>
     ELSE Refuse

KnownVerified ==
  /\ Done("reknown")
  /\ IF UnchangedSinceWatch(watched.entries)
     THEN /\ Scan("verify", roots \cup Late)
          /\ UNCHANGED <<disks, output, stamp, cache, got, history>>
     ELSE Refuse

(* Seeded fault: the roots learned from the dep-info are not recorded. *)
WriteStamp_KnownRoots ==
  /\ Done("verify")
  /\ IF scan.stable /\ Digests(scan.entries) = Digests(complete)
     THEN /\ stamp' = [sel |-> sel, roots |-> roots,
                       inputs |-> scan.entries, out |-> packed]
          /\ excused' = unseen
          /\ Leave
          /\ UNCHANGED <<disks, output, quiet>>
     ELSE Refuse

(* The stamp replaces the old one in a single rename. *)
WriteStamp ==
  /\ Done("verify")
  /\ IF scan.stable /\ Digests(scan.entries) = Digests(complete)
     THEN /\ stamp' = [sel |-> sel, roots |-> roots \cup Late,
                       inputs |-> scan.entries, out |-> packed]
          /\ excused' = unseen
          /\ Leave
          /\ UNCHANGED <<disks, output, quiet>>
     ELSE Refuse

-----------------------------------------------------------------------------
(* Failures and the outside world *)

(* An I/O error in the cache turns it off; the build goes on without it. *)
CacheUnavailable ==
  /\ pc \in {"check", "outputs", "invalidate", "watch", "again", "rewatch", "recheck"}
  /\ pc' = IF pc \in {"again", "rewatch", "recheck"} THEN "compile" ELSE "stage"
  /\ caching' = FALSE
  /\ roots' = Base
  /\ memo' = NoEntries
  /\ scan' = NoScan
  /\ watched' = NoWatch
  /\ complete' = NoEntries
  /\ UNCHANGED <<disks, output, stamp, sel, packed, got, history>>

(* The build fails, record fails, or the process is killed. *)
Abort ==
  /\ pc # "off"
  /\ output' \in IF pc = "compile" /\ DOMAIN got = Path THEN {output, Foreign} ELSE {output}
  /\ Leave
  /\ UNCHANGED <<disks, stamp, quiet, excused>>

Edit(p, c, backdated) ==
  /\ Change(p, c, backdated)
  /\ UNCHANGED <<output, stamp, pc, cache, scan, got, excused>>

(* Someone replaces or removes the artifact, but not while it is packed. *)
Tamper ==
  /\ pc \in {"off", "check"}
  /\ output # NoOutput
  /\ output' \in {NoOutput, Foreign} \ {output}
  /\ quiet' = FALSE
  /\ UNCHANGED <<disks, stamp, pc, cache, scan, got, unseen, excused>>

BuilderStep ==
  \/ \E x \in Selection : Start(x)
  \/ \E p \in Path : ScanFile(p) \/ StageFile(p) \/ CompileFile(p)
  \/ InputsFresh \/ OutputsFresh \/ UpToDate \/ ReceiptRefused
  \/ Invalidate \/ WatchSources \/ StagingDone \/ Rewatch \/ Captured \/ Rechecked
  \/ Pack
  \/ KnownUnchanged \/ CompleteTaken \/ ReadOutput \/ KnownVerified \/ WriteStamp

EditorStep ==
  \/ \E p \in Path : \E c \in Content \cup {Missing} : \E backdated \in BOOLEAN :
       Edit(p, c, backdated) \/ ScanDisturbed(p, c, backdated)
  \/ Tamper

Next == BuilderStep \/ EditorStep \/ CacheUnavailable \/ Abort

Spec == Init /\ [][Next]_vars

-----------------------------------------------------------------------------
(* Properties *)

(* A stamp tells the truth of every input whose edits the snapshots could  *)
(* see (Unseen names the others): the recorded output was compiled from    *)
(* the content the stamp lists, whatever was edited, and restored, while   *)
(* the build was staging, compiling, hashing or recording.                 *)
StampIsSound ==
  stamp # NoStamp =>
    /\ stamp.out \in Product /\ stamp.out.sel = stamp.sel
    /\ DOMAIN stamp.inputs = Path
    /\ \A p \in Path \ excused : stamp.out.read[p] = stamp.inputs[p].digest

(* "up to date" is never said of a stale artifact: if nothing was edited   *)
(* or replaced since the check began, the artifact at the output path was  *)
(* compiled for this selection from what those inputs now hold.            *)
FreshIsSound ==
  pc = "fresh" /\ quiet =>
    /\ output \in Product /\ output.sel = sel
    /\ \A p \in Path \ excused : output.read[p] = file[p].content

(* What record promises: false "when edits during a successful build       *)
(* prevent safe reuse".  A stamp it writes lists what was compiled.        *)
EditsPreventReuse ==
  stamp # NoStamp => \A p \in DOMAIN stamp.inputs : stamp.out.read[p] = stamp.inputs[p].digest

(* Liveness.  The builder keeps running builds; editors, I/O errors and     *)
(* failures owe nothing.                                                   *)
FairSpec == Spec /\ WF_vars(BuilderStep)

(* A refusal of the code is no disturbance, though it looks like an abort. *)
Disturbance == (EditorStep \/ CacheUnavailable \/ Abort) /\ ~ BuilderStep
Settled(x) == <>[][~ Disturbance]_vars /\ <>[](sel = x)

(* Once the sources, the selection and the machine settle, a build is       *)
(* recorded and reused: no input can make the cache refuse for ever.       *)
SettledBuildsAreReused == \A x \in Selection : Settled(x) => []<>(pc = "fresh")
===============================================================================
