------------------------------- MODULE LogOnce -------------------------------
(***************************************************************************)
(* The lock-free registry of ONCE log sites (crates/log-os/src/global.rs): *)
(* N atomic slots, probed linearly from a hash of the site; a slot goes    *)
(* from empty to seen to warned for one site and is never emptied.  Every  *)
(* load and every compare_exchange is a step of its own; threads of all    *)
(* processors interleave between them.  log_once_with_area_purpose emits   *)
(* a record after it has the observation.                                  *)
(***************************************************************************)
EXTENDS Integers, FiniteSets

CONSTANTS
  Thread,
  Site,       \* LogSiteId values in use
  N,          \* capacity of the registry
  Start,      \* the first slot probed for a site: its hash modulo N
  Idle        \* no call in progress

Slot == 0..(N - 1)
Offset == 0..N
Empty == [site |-> Idle, mark |-> "empty"]
Taken == [site : Site, mark : {"seen", "warned"}]
Observation == {"First", "Duplicate", "Repeated", "RegistryFull"}

ASSUME CapacityAssumption == N \in Nat
ASSUME StartAssumption == N > 0 => Start \in [Site -> Slot]
ASSUME IdleAssumption == Idle \notin Site /\ Idle \notin Observation

VARIABLES
  slots,      \* LogOnceState.slots
  site,       \* the site a thread is observing
  offset,     \* its position in the probe sequence
  pc,         \* the next atomic operation of the thread
  answer,     \* the observation returned to log_once_with_area_purpose
  records     \* how often each record has been emitted, counted up to two

vars == <<slots, site, offset, pc, answer, records>>

Record == {"First", "Duplicate"}   \* a full registry warns without limit: not counted

TypeOK ==
  /\ slots \in [Slot -> Taken \cup {Empty}]
  /\ site \in [Thread -> Site \cup {Idle}]
  /\ offset \in [Thread -> Offset]
  /\ pc \in [Thread -> {"idle", "load", "claim", "inspect", "warn", "emit"}]
  /\ answer \in [Thread -> Observation \cup {Idle}]
  /\ records \in [Site -> [Record -> 0..2]]

Init ==
  /\ slots = [i \in Slot |-> Empty]
  /\ site = [t \in Thread |-> Idle]
  /\ offset = [t \in Thread |-> 0]
  /\ pc = [t \in Thread |-> "idle"]
  /\ answer = [t \in Thread |-> Idle]
  /\ records = [x \in Site |-> [r \in Record |-> 0]]

-----------------------------------------------------------------------------
(* The k-th slot probed for a site. *)
Probe(x, k) == (Start[x] + k) % N
Here(t) == Probe(site[t], offset[t])

Goto(t, where) == pc' = [pc EXCEPT ![t] = where]
Return(t, o) ==
  /\ answer' = [answer EXCEPT ![t] = o]
  /\ Goto(t, "emit")

(* Seeded faults: the probe loop never gives up; it goes on past the end.  *)
Advance_Wraps(t) ==
  /\ offset' = [offset EXCEPT ![t] = (@ + 1) % N]
  /\ Goto(t, "load")
  /\ UNCHANGED answer
Advance_Unbounded(t) ==
  /\ offset' = [offset EXCEPT ![t] = @ + 1]
  /\ Goto(t, "load")
  /\ UNCHANGED answer

(* The probe loop goes on to the next slot, or gives up after the last. *)
Advance(t) ==
  /\ offset' = [offset EXCEPT ![t] = @ + 1]
  /\ IF offset[t] + 1 < N THEN Goto(t, "load") /\ UNCHANGED answer
                          ELSE Return(t, "RegistryFull")

Call(t, x) ==
  /\ pc[t] = "idle"
  /\ site' = [site EXCEPT ![t] = x]
  /\ offset' = [offset EXCEPT ![t] = 0]
  /\ IF N = 0 THEN Return(t, "RegistryFull") ELSE Goto(t, "load") /\ UNCHANGED answer
  /\ UNCHANGED <<slots, records>>

(* The first load of a slot only asks whether it is empty. *)
Load(t) ==
  /\ pc[t] = "load"
  /\ Goto(t, IF slots[Here(t)] = Empty THEN "claim" ELSE "inspect")
  /\ UNCHANGED <<slots, site, offset, answer, records>>

Mark(t, mark) == slots' = [slots EXCEPT ![Here(t)] = [site |-> site[t], mark |-> mark]]

(* Seeded faults: the slot is stored to without comparing; a lost race      *)
(* moves on to the next slot without looking again; a won race looks again. *)
Claim_Store(t) ==
  /\ pc[t] = "claim"
  /\ Mark(t, "seen")
  /\ Return(t, "First")
  /\ UNCHANGED <<site, offset, records>>
Claim_MovesOn(t) ==
  /\ pc[t] = "claim"
  /\ IF slots[Here(t)] = Empty
     THEN Mark(t, "seen") /\ Return(t, "First") /\ UNCHANGED offset
     ELSE Advance(t) /\ UNCHANGED slots
  /\ UNCHANGED <<site, records>>

Claim_LooksAgain(t) ==
  /\ pc[t] = "claim"
  /\ IF slots[Here(t)] = Empty THEN Mark(t, "seen") ELSE UNCHANGED slots
  /\ Goto(t, "inspect")
  /\ UNCHANGED <<site, offset, answer, records>>

(* compare_exchange(empty, seen); on failure the slot is inspected again. *)
Claim(t) ==
  /\ pc[t] = "claim"
  /\ IF slots[Here(t)] = Empty
     THEN Mark(t, "seen") /\ Return(t, "First")
     ELSE Goto(t, "inspect") /\ UNCHANGED <<slots, answer>>
  /\ UNCHANGED <<site, offset, records>>

Inspect(t) ==
  LET value == slots[Here(t)]
  IN
  /\ pc[t] = "inspect"
  /\ \/ /\ value.site # site[t]
        /\ Advance(t)
     \/ /\ value.site = site[t] /\ value.mark = "seen"
        /\ Goto(t, "warn")
        /\ UNCHANGED <<offset, answer>>
     \/ /\ value.site = site[t] /\ value.mark # "seen"
        /\ Return(t, "Repeated")
        /\ UNCHANGED offset
  /\ UNCHANGED <<slots, site, records>>

(* Seeded fault: the mark is stored without comparing. *)
Warn_Store(t) ==
  /\ pc[t] = "warn"
  /\ Mark(t, "warned")
  /\ Return(t, "Duplicate")
  /\ UNCHANGED <<site, offset, records>>

(* compare_exchange(seen, warned); on failure another thread has warned. *)
Warn(t) ==
  /\ pc[t] = "warn"
  /\ IF slots[Here(t)] = [site |-> site[t], mark |-> "seen"]
     THEN Mark(t, "warned") /\ Return(t, "Duplicate")
     ELSE Return(t, "Repeated") /\ UNCHANGED slots
  /\ UNCHANGED <<site, offset, records>>

(* Emit the record of the observation; a repeated activation has none. *)
Emit(t) ==
  /\ pc[t] = "emit"
  /\ records' = IF answer[t] \in Record /\ records[site[t]][answer[t]] < 2
                THEN [records EXCEPT ![site[t]][answer[t]] = @ + 1] ELSE records
  /\ site' = [site EXCEPT ![t] = Idle]
  /\ answer' = [answer EXCEPT ![t] = Idle]
  /\ offset' = [offset EXCEPT ![t] = 0]
  /\ Goto(t, "idle")
  /\ UNCHANGED slots

Step(t) == Load(t) \/ Claim(t) \/ Inspect(t) \/ Warn(t) \/ Emit(t)

Next == \E t \in Thread : Step(t) \/ \E x \in Site : Call(t, x)

Spec == Init /\ [][Next]_vars

(* Threads are scheduled; a thread owes no call. *)
FairSpec == Spec /\ \A t \in Thread : WF_vars(Step(t))

-----------------------------------------------------------------------------
(* Properties *)

Registered(x) == \E i \in Slot : slots[i].site = x

(* No site ever owns two slots, whatever threads race to insert it: so one *)
(* activation cannot be announced twice nor its duplicates be miscounted.  *)
OneSlotPerSite ==
  \A i, j \in Slot : slots[i] # Empty /\ slots[i].site = slots[j].site => i = j

(* A site is announced at most once and its duplicate warned of at most    *)
(* once: counting the records emitted and those about to be.               *)
InHand(x, r) == {t \in Thread : pc[t] = "emit" /\ site[t] = x /\ answer[t] = r}
AnnouncedOnce ==
  \A x \in Site : \A r \in Record :
    records[x][r] + Cardinality(InHand(x, r)) <= 1

(* RegistryFull is only answered when it is so: every slot is taken, and    *)
(* by other sites, so a registered site is never mistaken for a new one.   *)
FullMeansFull ==
  \A t \in Thread : pc[t] = "emit" /\ answer[t] = "RegistryFull" =>
    \A i \in Slot : slots[i] # Empty /\ slots[i].site # site[t]

(* Nobody spins: every call ends, whatever the other threads do, and a      *)
(* registered site has been announced in the end.                          *)
CallsEnd == \A t \in Thread : pc[t] # "idle" ~> pc[t] = "idle"
RegisteredIsAnnounced == \A x \in Site : Registered(x) ~> records[x]["First"] = 1

(* What the registry promises (OnceRegistry): each call looks atomic.      *)
Registry == INSTANCE OnceRegistry WITH
  stage <- [x \in Site |-> IF \E i \in Slot : slots[i] = [site |-> x, mark |-> "seen"]
                           THEN "seen"
                           ELSE IF Registered(x) THEN "warned" ELSE "new"],
  call  <- [t \in Thread |-> [site |-> site[t], answer |-> answer[t]]]
ImplementsRegistry == Registry!ORSpec
===============================================================================
