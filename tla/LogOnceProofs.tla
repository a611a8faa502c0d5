---------------------------- MODULE LogOnceProofs ----------------------------
(***************************************************************************)
(* Proofs about LogOnce for every number of threads, sites and slots and   *)
(* every hash function.                                                    *)
(***************************************************************************)
EXTENDS LogOnce, FiniteSetTheorems, TLAPS

Probing == {"load", "claim", "inspect", "warn"}

(* A thread inside observe() has a site and a slot to look at; one about    *)
(* to emit has an answer.                                                  *)
ThreadsOK ==
  \A t \in Thread :
    /\ pc[t] = "idle" => site[t] = Idle /\ answer[t] = Idle
    /\ pc[t] # "idle" => site[t] \in Site
    /\ pc[t] \in Probing => offset[t] < N /\ answer[t] = Idle
    /\ pc[t] = "emit" => answer[t] \in Observation

(* The slots a thread has passed belong to other sites; the slot it         *)
(* inspects is taken; the slot it wants to warn of is its site's.          *)
Passed(x, k) == slots[Probe(x, k)] # Empty /\ slots[Probe(x, k)].site # x
ProgressOf(t) ==
  /\ pc[t] \in Probing => \A k \in Slot : k < offset[t] => Passed(site[t], k)
  /\ pc[t] = "emit" /\ answer[t] = "RegistryFull" => \A k \in Slot : Passed(site[t], k)
  /\ pc[t] \in {"inspect", "warn"} => slots[Here(t)] # Empty
  /\ pc[t] = "warn" => slots[Here(t)].site = site[t]
Progress == \A t \in Thread : ProgressOf(t)

(* Probe sequences have no gaps: what keeps a site from a second slot.      *)
NoGaps ==
  \A x \in Site : \A k \in Slot :
    slots[Probe(x, k)].site = x => \A m \in Slot : m < k => slots[Probe(x, m)] # Empty

(* Each record of a site is due to one thread and emitted once, and only    *)
(* after the slot of the site was claimed, or warned.                      *)
Due(x, r) == \E i \in Slot : slots[i].site = x /\ (r = "Duplicate" => slots[i].mark = "warned")
Account(x, r) ==
  /\ records[x][r] \in {0, 1}
  /\ records[x][r] = 1 => Due(x, r) /\ InHand(x, r) = {}
  /\ \A t \in InHand(x, r) : Due(x, r) /\ InHand(x, r) = {t}
Accounting == \A x \in Site : \A r \in Record : Account(x, r)

IInv == TypeOK /\ ThreadsOK /\ Progress /\ NoGaps /\ OneSlotPerSite /\ Accounting

-----------------------------------------------------------------------------
(* The probe sequence *)

LEMMA ProbeInSlot ==
  ASSUME NEW x \in Site, NEW k \in Slot
  PROVE  Probe(x, k) \in Slot
<1>1. N \in Nat /\ N > 0
  BY CapacityAssumption DEF Slot
<1>2. Start[x] \in Slot
  BY <1>1, StartAssumption
<1> QED
  BY <1>1, <1>2 DEF Probe, Slot

(* Linear probing visits every slot. *)
LEMMA ProbeOnto ==
  ASSUME NEW x \in Site, NEW i \in Slot
  PROVE  \E k \in Slot : Probe(x, k) = i
<1>1. N \in Nat /\ N > 0
  BY CapacityAssumption DEF Slot
<1>2. Start[x] \in Slot
  BY <1>1, StartAssumption
<1> DEFINE k == IF i >= Start[x] THEN i - Start[x] ELSE i + N - Start[x]
<1>3. k \in Slot
  BY <1>1, <1>2 DEF Slot
<1>4. (Start[x] + k) % N = i
  <2>1. CASE i >= Start[x]
    <3>1. Start[x] + k = i
      BY <1>1, <1>2, <2>1 DEF Slot
    <3>2. i % N = i
      BY <1>1 DEF Slot
    <3> QED
      BY <3>1, <3>2
  <2>2. CASE i < Start[x]
    <3> DEFINE sum == Start[x] + k
    <3>1. sum = i + N /\ sum \in Nat /\ i \in Nat /\ i < N
      BY <1>1, <1>2, <2>2 DEF Slot
    <3> HIDE DEF sum
    <3>2. sum % N = (sum - N) % N
      BY <1>1, <3>1
    <3>3. (sum - N) % N = i
      BY <1>1, <3>1
    <3> QED
      BY <3>2, <3>3 DEF sum
  <2> QED
    BY <1>1, <1>2, <2>1, <2>2 DEF Slot
<1> QED
  BY <1>3, <1>4 DEF Probe

LEMMA WrapsOnce ==
  ASSUME NEW sum \in Nat, N > 0, sum < N + N
  PROVE  /\ sum < N => sum % N = sum
         /\ sum >= N => sum % N = sum - N
<1> USE CapacityAssumption
<1>1. sum < N => sum % N = sum
  OBVIOUS
<1>2. sum >= N => sum % N = (sum - N) % N
  OBVIOUS
<1>3. sum >= N => (sum - N) % N = sum - N
  OBVIOUS
<1> QED
  BY <1>1, <1>2, <1>3

(* ... and no slot twice. *)
LEMMA ProbeOneToOne ==
  ASSUME NEW x \in Site, NEW k \in Slot, NEW m \in Slot, Probe(x, k) = Probe(x, m)
  PROVE  k = m
<1>1. N \in Nat /\ N > 0
  BY CapacityAssumption DEF Slot
<1>2. Start[x] \in Slot
  BY <1>1, StartAssumption
<1>3. PICK a \in Nat : a = Start[x] + k
  BY <1>1, <1>2 DEF Slot
<1>4. PICK b \in Nat : b = Start[x] + m
  BY <1>1, <1>2 DEF Slot
<1>5. a < N + N /\ b < N + N
  BY <1>1, <1>2, <1>3, <1>4 DEF Slot
<1>6. a % N = b % N
  BY <1>3, <1>4 DEF Probe
<1>7. /\ a < N => a % N = a
      /\ a >= N => a % N = a - N
  BY <1>1, <1>5, WrapsOnce
<1>8. /\ b < N => b % N = b
      /\ b >= N => b % N = b - N
  BY <1>1, <1>5, WrapsOnce
<1>9. a = b \/ a = b + N \/ b = a + N
  BY <1>1, <1>6, <1>7, <1>8
<1> QED
  BY <1>1, <1>2, <1>3, <1>4, <1>9 DEF Slot

LEMMA HereInSlot ==
  ASSUME TypeOK, ThreadsOK, NEW t \in Thread, pc[t] \in Probing
  PROVE  /\ Here(t) \in Slot /\ offset[t] \in Slot /\ site[t] \in Site
         /\ N \in Nat /\ N > 0 /\ answer[t] = Idle
<1>1. N \in Nat
  BY CapacityAssumption
<1>2. offset[t] \in Nat /\ offset[t] < N
  BY <1>1 DEF TypeOK, ThreadsOK, Offset
<1>3. offset[t] \in Slot /\ N > 0
  BY <1>1, <1>2 DEF Slot
<1>4. site[t] \in Site /\ answer[t] = Idle
  BY DEF ThreadsOK, Probing
<1> QED
  BY <1>1, <1>3, <1>4, ProbeInSlot DEF Here

-----------------------------------------------------------------------------
(* Initially, and after each step *)

LEMMA InitIInv == Init => IInv
<1> SUFFICES ASSUME Init PROVE IInv
  OBVIOUS
<1> USE CapacityAssumption, IdleAssumption
<1>1. TypeOK
  <2>1. 0 \in Offset
    BY DEF Offset
  <2> QED
    BY <2>1 DEF Init, TypeOK, Record
<1>2. ThreadsOK
  BY DEF Init, ThreadsOK, Probing
<1>3. Progress
  BY DEF Init, Progress, ProgressOf, Probing
<1>4. NoGaps
  BY ProbeInSlot DEF Init, NoGaps, Empty
<1>5. OneSlotPerSite
  BY DEF Init, OneSlotPerSite
<1>6. Accounting
  BY DEF Init, Accounting, Account, InHand, Record
<1> QED
  BY <1>1, <1>2, <1>3, <1>4, <1>5, <1>6 DEF IInv

(* No step empties a slot, gives it to another site or takes a warning back. *)
Grows ==
  \A i \in Slot :
    /\ slots[i] # Empty => slots'[i] # Empty /\ slots'[i].site = slots[i].site
    /\ slots[i].mark = "warned" => slots'[i] = slots[i]
Rests(u) ==
  pc'[u] = pc[u] /\ site'[u] = site[u] /\ offset'[u] = offset[u] /\ answer'[u] = answer[u]

LEMMA PassedStays ==
  ASSUME Grows, NEW x \in Site, NEW k \in Slot, Passed(x, k)
  PROVE  Passed(x, k)'
BY ProbeInSlot DEF Grows, Passed, Probe, Empty

LEMMA OthersProgress ==
  ASSUME IInv, Grows, NEW u \in Thread, Rests(u)
  PROVE  ProgressOf(u)'
<1> USE DEF IInv
<1>1. ProgressOf(u) /\ (pc[u] # "idle" => site[u] \in Site)
  BY DEF Progress, ThreadsOK
<1>2. Here(u)' = Here(u) /\ (pc[u] \in Probing => Here(u) \in Slot)
  BY HereInSlot DEF Rests, Here, Probe
<1>3. pc'[u] \in Probing => \A k \in Slot : k < offset'[u] => Passed(site[u], k)'
  <2> SUFFICES ASSUME pc[u] \in Probing, NEW k \in Slot, k < offset[u]
               PROVE  Passed(site[u], k)'
    BY DEF Rests
  <2>1. site[u] \in Site /\ Passed(site[u], k)
    BY <1>1 DEF ProgressOf, Probing
  <2>2. \A x \in Site : Passed(x, k) => Passed(x, k)'
    BY PassedStays
  <2>3. site'[u] = site[u]
    BY DEF Rests
  <2> QED
    BY <2>1, <2>2, <2>3 DEF Passed, Probe
<1>4. pc'[u] = "emit" /\ answer'[u] = "RegistryFull" => \A k \in Slot : Passed(site[u], k)'
  <2> SUFFICES ASSUME pc[u] = "emit", answer[u] = "RegistryFull", NEW k \in Slot
               PROVE  Passed(site[u], k)'
    BY DEF Rests
  <2>1. site[u] \in Site /\ Passed(site[u], k)
    BY <1>1 DEF ProgressOf
  <2>2. \A x \in Site : Passed(x, k) => Passed(x, k)'
    BY PassedStays
  <2>3. site'[u] = site[u]
    BY DEF Rests
  <2> QED
    BY <2>1, <2>2, <2>3 DEF Passed, Probe
<1>5. pc[u] \in {"inspect", "warn"} => slots'[Here(u)] # Empty /\ slots'[Here(u)].site = slots[Here(u)].site
  BY <1>1, <1>2 DEF ProgressOf, Probing, Grows
<1> QED
  BY <1>1, <1>2, <1>3, <1>4, <1>5 DEF ProgressOf, Rests

LEMMA AccountStays ==
  ASSUME IInv, Grows, NEW x \in Site, NEW r \in Record,
         records'[x][r] = records[x][r], InHand(x, r)' = InHand(x, r)
  PROVE  Account(x, r)'
<1>1. Account(x, r)
  BY DEF IInv, Accounting
<1>2. Due(x, r) => Due(x, r)'
  <2> SUFFICES ASSUME Due(x, r) PROVE Due(x, r)'
    OBVIOUS
  <2>1. PICK i \in Slot : slots[i].site = x /\ (r = "Duplicate" => slots[i].mark = "warned")
    BY DEF Due
  <2>2. slots[i] # Empty
    BY <2>1, IdleAssumption DEF Empty
  <2>3. slots'[i].site = x /\ (r = "Duplicate" => slots'[i].mark = "warned")
    BY <2>1, <2>2 DEF Grows
  <2> QED
    BY <2>3 DEF Due
<1> QED
  BY <1>1, <1>2 DEF Account

LEMMA GapsStay ==
  ASSUME IInv, TypeOK', Grows, \A i \in Slot : slots'[i].site = slots[i].site
  PROVE  NoGaps' /\ OneSlotPerSite'
<1> USE DEF IInv
<1>1. \A i \in Slot : slots'[i] # Empty => slots[i] # Empty
  BY IdleAssumption DEF TypeOK, Empty, Taken
<1>2. NoGaps'
  <2> SUFFICES ASSUME NEW x \in Site, NEW k \in Slot, slots'[Probe(x, k)].site = x,
                      NEW m \in Slot, m < k
               PROVE  slots'[Probe(x, m)] # Empty
    BY DEF NoGaps, Probe
  <2>1. Probe(x, k) \in Slot /\ Probe(x, m) \in Slot
    BY ProbeInSlot
  <2> QED
    BY <2>1 DEF NoGaps, Grows
<1>3. OneSlotPerSite'
  BY <1>1 DEF OneSlotPerSite
<1> QED
  BY <1>2, <1>3

LEMMA CallStep ==
  ASSUME IInv, NEW t \in Thread, NEW x \in Site, Call(t, x)
  PROVE  IInv'
<1> USE CapacityAssumption, IdleAssumption DEF IInv
<1>0. \E next \in {"load", "emit"} :
        /\ pc' = [pc EXCEPT ![t] = next]
        /\ site' = [site EXCEPT ![t] = x]
        /\ offset' = [offset EXCEPT ![t] = 0]
        /\ next = "load" => N > 0 /\ answer' = answer
        /\ next = "emit" => N = 0 /\ answer' = [answer EXCEPT ![t] = "RegistryFull"]
  BY DEF Call, Return, Goto, TypeOK
<1>1. PICK next \in {"load", "emit"} :
        /\ pc' = [pc EXCEPT ![t] = next]
        /\ site' = [site EXCEPT ![t] = x]
        /\ offset' = [offset EXCEPT ![t] = 0]
        /\ next = "load" => N > 0 /\ answer' = answer
        /\ next = "emit" => N = 0 /\ answer' = [answer EXCEPT ![t] = "RegistryFull"]
  BY <1>0
<1>2. pc[t] = "idle" /\ UNCHANGED <<slots, records>>
  BY DEF Call
<1>3. TypeOK'
  <2>1. 0 \in Offset
    BY DEF Offset
  <2>2. answer' \in [Thread -> Observation \cup {Idle}]
    BY <1>1 DEF TypeOK, Observation
  <2> QED
    BY <1>1, <1>2, <2>1, <2>2 DEF TypeOK
<1>4. ThreadsOK'
  BY <1>1, <1>2 DEF TypeOK, ThreadsOK, Probing, Observation
<1>5. Grows
  BY <1>2 DEF Grows
<1>6. Progress'
  <2> SUFFICES ASSUME NEW u \in Thread PROVE ProgressOf(u)'
    BY DEF Progress
  <2>1. CASE u = t
    BY <1>1, <1>2, <2>1 DEF TypeOK, ProgressOf, Probing, Slot
  <2>2. CASE u # t
    BY <1>1, <1>2, <1>5, <2>2, OthersProgress DEF TypeOK, Rests
  <2> QED
    BY <2>1, <2>2
<1>7. NoGaps' /\ OneSlotPerSite'
  BY <1>2, <1>3, <1>5, GapsStay
<1>8. Accounting'
  <2> SUFFICES ASSUME NEW y \in Site, NEW r \in Record PROVE Account(y, r)'
    BY DEF Accounting
  <2>1. InHand(y, r)' = InHand(y, r)
    BY <1>1, <1>2 DEF TypeOK, InHand, Record
  <2> QED
    BY <1>2, <1>5, <2>1, AccountStays
<1> QED
  BY <1>3, <1>4, <1>6, <1>7, <1>8

LEMMA LoadStep ==
  ASSUME IInv, NEW t \in Thread, Load(t)
  PROVE  IInv'
<1> USE CapacityAssumption, IdleAssumption DEF IInv
<1>1. /\ pc[t] = "load" /\ UNCHANGED <<slots, site, offset, answer, records>>
      /\ pc' = [pc EXCEPT ![t] = IF slots[Here(t)] = Empty THEN "claim" ELSE "inspect"]
  BY DEF Load, Goto
<1>2. Grows
  BY <1>1 DEF Grows
<1>3. TypeOK'
  BY <1>1 DEF TypeOK
<1>4. ThreadsOK'
  BY <1>1 DEF TypeOK, ThreadsOK, Probing
<1>5. Progress'
  <2> SUFFICES ASSUME NEW u \in Thread PROVE ProgressOf(u)'
    BY DEF Progress
  <2>1. CASE u = t
    <3>1. ProgressOf(t) /\ Here(t)' = Here(t)
      BY <1>1 DEF Progress, Here, Probe
    <3>2. \A k \in Slot : Passed(site[t], k) => Passed(site[t], k)'
      BY <1>1 DEF Passed, Probe
    <3> QED
      BY <1>1, <2>1, <3>1, <3>2 DEF TypeOK, ProgressOf, Probing
  <2>2. CASE u # t
    BY <1>1, <1>2, <2>2, OthersProgress DEF TypeOK, Rests
  <2> QED
    BY <2>1, <2>2
<1>6. NoGaps' /\ OneSlotPerSite'
  BY <1>1, <1>2, <1>3, GapsStay
<1>7. Accounting'
  <2> SUFFICES ASSUME NEW y \in Site, NEW r \in Record PROVE Account(y, r)'
    BY DEF Accounting
  <2>1. InHand(y, r)' = InHand(y, r)
    BY <1>1 DEF TypeOK, InHand
  <2> QED
    BY <1>1, <1>2, <2>1, AccountStays
<1> QED
  BY <1>3, <1>4, <1>5, <1>6, <1>7

(* The site of a thread that finds its slot empty has no slot yet. *)
LEMMA Unregistered ==
  ASSUME IInv, NEW t \in Thread, pc[t] = "claim", slots[Here(t)] = Empty
  PROVE  \A i \in Slot : slots[i].site # site[t]
<1> USE DEF IInv
<1>1. /\ Here(t) \in Slot /\ offset[t] \in Slot /\ site[t] \in Site /\ N \in Nat
  BY HereInSlot DEF Probing
<1> SUFFICES ASSUME NEW i \in Slot, slots[i].site = site[t] PROVE FALSE
  OBVIOUS
<1>2. PICK k \in Slot : Probe(site[t], k) = i
  BY <1>1, ProbeOnto
<1>3. k # offset[t]
  BY <1>1, <1>2, IdleAssumption DEF Here, Empty
<1>4. ~ k < offset[t]
  BY <1>2 DEF Progress, ProgressOf, Probing, Passed
<1>5. offset[t] < k
  BY <1>1, <1>3, <1>4 DEF Slot
<1>6. slots[Probe(site[t], offset[t])] # Empty
  BY <1>1, <1>2, <1>5 DEF NoGaps
<1> QED
  BY <1>6 DEF Here

LEMMA ClaimStep ==
  ASSUME IInv, NEW t \in Thread, Claim(t)
  PROVE  IInv'
<1> USE CapacityAssumption, IdleAssumption DEF IInv
<1>1. pc[t] = "claim" /\ UNCHANGED <<site, offset, records>>
  BY DEF Claim
<1>2. /\ Here(t) \in Slot /\ offset[t] \in Slot /\ site[t] \in Site /\ N \in Nat
      /\ answer[t] = Idle
  BY <1>1, HereInSlot DEF Probing
<1>3. CASE slots[Here(t)] = Empty
  <2> DEFINE x == site[t]  h == Here(t)
  <2>1. /\ slots' = [slots EXCEPT ![h] = [site |-> x, mark |-> "seen"]]
        /\ answer' = [answer EXCEPT ![t] = "First"]
        /\ pc' = [pc EXCEPT ![t] = "emit"]
    BY <1>3 DEF Claim, Mark, Return, Goto
  <2>2. \A i \in Slot : slots[i].site # x
    BY <1>1, <1>3, Unregistered
  <2>3. slots'[h] = [site |-> x, mark |-> "seen"] /\ \A i \in Slot \ {h} : slots'[i] = slots[i]
    BY <1>2, <2>1 DEF TypeOK
  <2>4. Grows
    BY <1>3, <2>3 DEF Grows, Empty
  <2>5. TypeOK'
    <3>1. slots' \in [Slot -> Taken \cup {Empty}]
      BY <1>2, <2>1 DEF TypeOK, Taken
    <3>2. answer' \in [Thread -> Observation \cup {Idle}]
      BY <2>1 DEF TypeOK, Observation
    <3> QED
      BY <1>1, <2>1, <3>1, <3>2 DEF TypeOK
  <2>6. ThreadsOK'
    BY <1>1, <1>2, <2>1 DEF TypeOK, ThreadsOK, Probing, Observation
  <2>7. Progress'
    <3> SUFFICES ASSUME NEW u \in Thread PROVE ProgressOf(u)'
      BY DEF Progress
    <3>1. CASE u = t
      BY <2>1, <3>1 DEF TypeOK, ProgressOf, Probing
    <3>2. CASE u # t
      BY <1>1, <2>1, <2>4, <3>2, OthersProgress DEF TypeOK, Rests
    <3> QED
      BY <3>1, <3>2
  <2>8. NoGaps'
    <3> SUFFICES ASSUME NEW y \in Site, NEW k \in Slot, slots'[Probe(y, k)].site = y,
                        NEW m \in Slot, m < k
                 PROVE  slots'[Probe(y, m)] # Empty
      BY DEF NoGaps, Probe
    <3>1. Probe(y, k) \in Slot /\ Probe(y, m) \in Slot
      BY ProbeInSlot
    <3>2. slots[Probe(y, m)] # Empty
      <4>1. CASE Probe(y, k) = h
        <5>1. y = x
          BY <2>3, <4>1
        <5>2. k = offset[t]
          BY <1>2, <4>1, <5>1, ProbeOneToOne DEF Here
        <5> QED
          BY <1>1, <1>2, <5>1, <5>2 DEF Progress, ProgressOf, Probing, Passed
      <4>2. CASE Probe(y, k) # h
        BY <2>3, <3>1, <4>2 DEF NoGaps
      <4> QED
        BY <4>1, <4>2
    <3> QED
      BY <2>4, <3>1, <3>2 DEF Grows
  <2>9. OneSlotPerSite'
    <3> SUFFICES ASSUME NEW i \in Slot, NEW j \in Slot, slots'[i] # Empty,
                        slots'[i].site = slots'[j].site
                 PROVE  i = j
      BY DEF OneSlotPerSite
    <3>1. CASE i = h \/ j = h
      BY <2>2, <2>3, <3>1
    <3>2. CASE i # h /\ j # h
      BY <2>3, <3>2 DEF OneSlotPerSite
    <3> QED
      BY <3>1, <3>2
  <2>10. Accounting'
    <3> SUFFICES ASSUME NEW y \in Site, NEW r \in Record PROVE Account(y, r)'
      BY DEF Accounting
    <3>1. CASE y = x /\ r = "First"
      <4>1. ~ Due(y, r)
        BY <2>2, <3>1 DEF Due
      <4>2. records[y][r] = 0 /\ InHand(y, r) = {}
        BY <4>1 DEF Accounting, Account
      <4>3. InHand(y, r)' = {t}
        BY <1>1, <2>1, <3>1, <4>2 DEF TypeOK, InHand
      <4>4. Due(y, r)'
        BY <1>2, <2>3, <3>1 DEF Due
      <4> QED
        BY <1>1, <4>2, <4>3, <4>4 DEF Account
    <3>2. CASE ~ (y = x /\ r = "First")
      <4>1. InHand(y, r)' = InHand(y, r)
        BY <1>1, <2>1, <3>2 DEF TypeOK, InHand, Record
      <4> QED
        BY <1>1, <2>4, <4>1, AccountStays
    <3> QED
      BY <3>1, <3>2
  <2> QED
    BY <2>5, <2>6, <2>7, <2>8, <2>9, <2>10
<1>4. CASE slots[Here(t)] # Empty
  <2>1. pc' = [pc EXCEPT ![t] = "inspect"] /\ UNCHANGED <<slots, answer>>
    BY <1>4 DEF Claim, Goto
  <2>2. Grows
    BY <2>1 DEF Grows
  <2>3. TypeOK'
    BY <1>1, <2>1 DEF TypeOK
  <2>4. ThreadsOK'
    BY <1>1, <1>2, <2>1 DEF TypeOK, ThreadsOK, Probing
  <2>5. Progress'
    <3> SUFFICES ASSUME NEW u \in Thread PROVE ProgressOf(u)'
      BY DEF Progress
    <3>1. CASE u = t
      <4>1. ProgressOf(t) /\ Here(t)' = Here(t)
        BY <1>1 DEF Progress, Here, Probe
      <4>2. \A k \in Slot : Passed(site[t], k) => Passed(site[t], k)'
        BY <1>1, <2>1 DEF Passed, Probe
      <4> QED
        BY <1>1, <1>4, <2>1, <3>1, <4>1, <4>2 DEF TypeOK, ProgressOf, Probing
    <3>2. CASE u # t
      BY <1>1, <2>1, <2>2, <3>2, OthersProgress DEF TypeOK, Rests
    <3> QED
      BY <3>1, <3>2
  <2>6. NoGaps' /\ OneSlotPerSite'
    BY <2>1, <2>2, <2>3, GapsStay
  <2>7. Accounting'
    <3> SUFFICES ASSUME NEW y \in Site, NEW r \in Record PROVE Account(y, r)'
      BY DEF Accounting
    <3>1. InHand(y, r)' = InHand(y, r)
      BY <1>1, <2>1 DEF TypeOK, InHand
    <3> QED
      BY <1>1, <2>2, <3>1, AccountStays
  <2> QED
    BY <2>3, <2>4, <2>5, <2>6, <2>7
<1> QED
  BY <1>3, <1>4

(* Going on to the next slot, once the current one is another site's. *)
LEMMA AdvanceStep ==
  ASSUME IInv, NEW t \in Thread, pc[t] = "inspect", slots[Here(t)].site # site[t],
         Advance(t), UNCHANGED <<slots, site, records>>
  PROVE  IInv'
<1> USE CapacityAssumption, IdleAssumption DEF IInv
<1>1. /\ Here(t) \in Slot /\ offset[t] \in Slot /\ site[t] \in Site /\ N \in Nat
      /\ answer[t] = Idle
  BY HereInSlot DEF Probing
<1>2. offset' = [offset EXCEPT ![t] = offset[t] + 1]
  BY DEF Advance, TypeOK
<1>3. \/ offset[t] + 1 < N /\ pc' = [pc EXCEPT ![t] = "load"] /\ answer' = answer
      \/ /\ offset[t] + 1 = N /\ pc' = [pc EXCEPT ![t] = "emit"]
         /\ answer' = [answer EXCEPT ![t] = "RegistryFull"]
  BY <1>1 DEF Advance, Goto, Return, Slot
<1>4. Grows
  BY DEF Grows
<1>5. TypeOK'
  <2>1. offset[t] + 1 \in Offset
    BY <1>1 DEF Slot, Offset
  <2>2. answer' \in [Thread -> Observation \cup {Idle}]
    BY <1>3 DEF TypeOK, Observation
  <2> QED
    BY <1>2, <1>3, <2>1, <2>2 DEF TypeOK
<1>6. ThreadsOK'
  BY <1>1, <1>2, <1>3 DEF TypeOK, ThreadsOK, Probing, Observation
<1>7. Progress'
  <2> SUFFICES ASSUME NEW u \in Thread PROVE ProgressOf(u)'
    BY DEF Progress
  <2>1. CASE u = t
    <3>1. \A k \in Slot : k < offset[t] + 1 => Passed(site[t], k)
      <4>1. Passed(site[t], offset[t])
        BY DEF Progress, ProgressOf, Here, Passed
      <4>2. \A k \in Slot : k < offset[t] => Passed(site[t], k)
        BY DEF Progress, ProgressOf, Probing
      <4>3. \A k \in Slot : k < offset[t] + 1 => k < offset[t] \/ k = offset[t]
        BY <1>1 DEF Slot
      <4> QED
        BY <4>1, <4>2, <4>3
    <3>2. \A k \in Slot : Passed(site[t], k) => Passed(site[t], k)'
      BY DEF Passed, Probe
    <3>3. offset'[t] = offset[t] + 1
      BY <1>2 DEF TypeOK
    <3>4. \A k \in Slot : offset[t] + 1 = N => k < offset[t] + 1
      BY <1>1 DEF Slot
    <3> QED
      BY <1>3, <2>1, <3>1, <3>2, <3>3, <3>4 DEF TypeOK, ProgressOf, Probing
  <2>2. CASE u # t
    BY <1>2, <1>3, <1>4, <2>2, OthersProgress DEF TypeOK, Rests
  <2> QED
    BY <2>1, <2>2
<1>8. NoGaps' /\ OneSlotPerSite'
  BY <1>4, <1>5, GapsStay
<1>9. Accounting'
  <2> SUFFICES ASSUME NEW y \in Site, NEW r \in Record PROVE Account(y, r)'
    BY DEF Accounting
  <2>1. InHand(y, r)' = InHand(y, r)
    BY <1>3 DEF TypeOK, InHand, Record
  <2> QED
    BY <1>4, <2>1, AccountStays
<1> QED
  BY <1>5, <1>6, <1>7, <1>8, <1>9

(* Answering "Repeated" changes nothing but the thread. *)
LEMMA RepeatedStep ==
  ASSUME IInv, NEW t \in Thread, pc[t] \in {"inspect", "warn"},
         Return(t, "Repeated"), UNCHANGED <<slots, site, offset, records>>
  PROVE  IInv'
<1> USE IdleAssumption DEF IInv
<1>1. pc' = [pc EXCEPT ![t] = "emit"] /\ answer' = [answer EXCEPT ![t] = "Repeated"]
  BY DEF Return, Goto
<1>2. Grows
  BY DEF Grows
<1>3. TypeOK'
  <2>1. answer' \in [Thread -> Observation \cup {Idle}]
    BY <1>1 DEF TypeOK, Observation
  <2> QED
    BY <1>1, <2>1 DEF TypeOK
<1>4. ThreadsOK'
  BY <1>1 DEF TypeOK, ThreadsOK, Probing, Observation
<1>5. Progress'
  <2> SUFFICES ASSUME NEW u \in Thread PROVE ProgressOf(u)'
    BY DEF Progress
  <2>1. CASE u = t
    BY <1>1, <2>1 DEF TypeOK, ProgressOf, Probing
  <2>2. CASE u # t
    BY <1>1, <1>2, <2>2, OthersProgress DEF TypeOK, Rests
  <2> QED
    BY <2>1, <2>2
<1>6. NoGaps' /\ OneSlotPerSite'
  BY <1>2, <1>3, GapsStay
<1>7. Accounting'
  <2> SUFFICES ASSUME NEW y \in Site, NEW r \in Record PROVE Account(y, r)'
    BY DEF Accounting
  <2>1. InHand(y, r)' = InHand(y, r)
    BY <1>1 DEF TypeOK, InHand, Record
  <2> QED
    BY <1>2, <2>1, AccountStays
<1> QED
  BY <1>3, <1>4, <1>5, <1>6, <1>7

LEMMA InspectStep ==
  ASSUME IInv, NEW t \in Thread, Inspect(t)
  PROVE  IInv'
<1> USE IdleAssumption DEF IInv
<1>1. pc[t] = "inspect" /\ UNCHANGED <<slots, site, records>>
  BY DEF Inspect
<1>2. CASE slots[Here(t)].site # site[t] /\ Advance(t)
  BY <1>1, <1>2, AdvanceStep
<1>3. CASE slots[Here(t)].site = site[t] /\ Return(t, "Repeated") /\ UNCHANGED offset
  BY <1>1, <1>3, RepeatedStep
<1>4. CASE /\ slots[Here(t)].site = site[t] /\ Goto(t, "warn")
           /\ UNCHANGED <<offset, answer>>
  <2>1. pc' = [pc EXCEPT ![t] = "warn"]
    BY <1>4 DEF Goto
  <2>2. Grows
    BY <1>1 DEF Grows
  <2>3. TypeOK'
    BY <1>1, <1>4, <2>1 DEF TypeOK
  <2>4. ThreadsOK'
    BY <1>1, <1>4, <2>1 DEF TypeOK, ThreadsOK, Probing
  <2>5. Progress'
    <3> SUFFICES ASSUME NEW u \in Thread PROVE ProgressOf(u)'
      BY DEF Progress
    <3>1. CASE u = t
      <4>1. ProgressOf(t) /\ Here(t)' = Here(t)
        BY <1>1, <1>4 DEF Progress, Here, Probe
      <4>2. \A k \in Slot : Passed(site[t], k) => Passed(site[t], k)'
        BY <1>1 DEF Passed, Probe
      <4> QED
        BY <1>1, <1>4, <2>1, <3>1, <4>1, <4>2 DEF TypeOK, ProgressOf, Probing
    <3>2. CASE u # t
      BY <1>1, <1>4, <2>1, <2>2, <3>2, OthersProgress DEF TypeOK, Rests
    <3> QED
      BY <3>1, <3>2
  <2>6. NoGaps' /\ OneSlotPerSite'
    BY <1>1, <2>2, <2>3, GapsStay
  <2>7. Accounting'
    <3> SUFFICES ASSUME NEW y \in Site, NEW r \in Record PROVE Account(y, r)'
      BY DEF Accounting
    <3>1. InHand(y, r)' = InHand(y, r)
      BY <1>1, <1>4, <2>1 DEF TypeOK, InHand
    <3> QED
      BY <1>1, <2>2, <3>1, AccountStays
  <2> QED
    BY <2>3, <2>4, <2>5, <2>6, <2>7
<1> QED
  BY <1>2, <1>3, <1>4 DEF Inspect

LEMMA WarnStep ==
  ASSUME IInv, NEW t \in Thread, Warn(t)
  PROVE  IInv'
<1> USE CapacityAssumption, IdleAssumption DEF IInv
<1>1. pc[t] = "warn" /\ UNCHANGED <<site, offset, records>>
  BY DEF Warn
<1>2. /\ Here(t) \in Slot /\ site[t] \in Site /\ answer[t] = Idle
  BY <1>1, HereInSlot DEF Probing
<1> DEFINE x == site[t]  h == Here(t)
<1>3. CASE slots[h] = [site |-> x, mark |-> "seen"]
  <2>1. /\ slots' = [slots EXCEPT ![h] = [site |-> x, mark |-> "warned"]]
        /\ answer' = [answer EXCEPT ![t] = "Duplicate"]
        /\ pc' = [pc EXCEPT ![t] = "emit"]
    BY <1>3 DEF Warn, Mark, Return, Goto
  <2>2. /\ slots'[h] = [site |-> x, mark |-> "warned"]
        /\ \A i \in Slot \ {h} : slots'[i] = slots[i]
    BY <1>2, <2>1 DEF TypeOK
  <2>3. \A i \in Slot : slots'[i].site = slots[i].site
    BY <1>3, <2>2
  <2>4. Grows
    BY <1>3, <2>2 DEF Grows, Empty
  <2>5. TypeOK'
    <3>1. slots' \in [Slot -> Taken \cup {Empty}]
      BY <1>2, <2>1 DEF TypeOK, Taken
    <3>2. answer' \in [Thread -> Observation \cup {Idle}]
      BY <2>1 DEF TypeOK, Observation
    <3> QED
      BY <1>1, <2>1, <3>1, <3>2 DEF TypeOK
  <2>6. ThreadsOK'
    BY <1>1, <1>2, <2>1 DEF TypeOK, ThreadsOK, Probing, Observation
  <2>7. Progress'
    <3> SUFFICES ASSUME NEW u \in Thread PROVE ProgressOf(u)'
      BY DEF Progress
    <3>1. CASE u = t
      BY <2>1, <3>1 DEF TypeOK, ProgressOf, Probing
    <3>2. CASE u # t
      BY <1>1, <2>1, <2>4, <3>2, OthersProgress DEF TypeOK, Rests
    <3> QED
      BY <3>1, <3>2
  <2>8. NoGaps' /\ OneSlotPerSite'
    BY <2>3, <2>4, <2>5, GapsStay
  <2>9. Accounting'
    <3> SUFFICES ASSUME NEW y \in Site, NEW r \in Record PROVE Account(y, r)'
      BY DEF Accounting
    <3>1. CASE y = x /\ r = "Duplicate"
      <4>1. \A i \in Slot : slots[i].site = x => i = h
        BY <1>2, <1>3 DEF OneSlotPerSite, Empty
      <4>2. ~ Due(y, r)
        BY <1>3, <3>1, <4>1 DEF Due
      <4>3. records[y][r] = 0 /\ InHand(y, r) = {}
        BY <4>2 DEF Accounting, Account
      <4>4. InHand(y, r)' = {t}
        BY <1>1, <2>1, <3>1, <4>3 DEF TypeOK, InHand
      <4>5. Due(y, r)'
        BY <1>2, <2>2, <3>1 DEF Due
      <4> QED
        BY <1>1, <4>3, <4>4, <4>5 DEF Account
    <3>2. CASE ~ (y = x /\ r = "Duplicate")
      <4>1. InHand(y, r)' = InHand(y, r)
        BY <1>1, <2>1, <3>2 DEF TypeOK, InHand, Record
      <4> QED
        BY <1>1, <2>4, <4>1, AccountStays
    <3> QED
      BY <3>1, <3>2
  <2> QED
    BY <2>5, <2>6, <2>7, <2>8, <2>9
<1>4. CASE Return(t, "Repeated") /\ UNCHANGED slots
  BY <1>1, <1>4, RepeatedStep
<1> QED
  BY <1>3, <1>4 DEF Warn

LEMMA EmitStep ==
  ASSUME IInv, NEW t \in Thread, Emit(t)
  PROVE  IInv'
<1> USE CapacityAssumption, IdleAssumption DEF IInv
<1> DEFINE x == site[t]  o == answer[t]
<1>1. /\ pc[t] = "emit" /\ slots' = slots
      /\ site' = [site EXCEPT ![t] = Idle]
      /\ answer' = [answer EXCEPT ![t] = Idle]
      /\ offset' = [offset EXCEPT ![t] = 0]
      /\ pc' = [pc EXCEPT ![t] = "idle"]
  BY DEF Emit, Goto
<1>2. x \in Site /\ o \in Observation
  BY <1>1 DEF ThreadsOK
<1>3. o \in Record => records[x][o] = 0 /\ InHand(x, o) = {t} /\ Due(x, o)
  <2> SUFFICES ASSUME o \in Record
               PROVE  records[x][o] = 0 /\ InHand(x, o) = {t} /\ Due(x, o)
    OBVIOUS
  <2>1. t \in InHand(x, o)
    BY <1>1 DEF InHand
  <2> QED
    BY <1>2, <2>1 DEF Accounting, Account
<1>4. records' = IF o \in Record THEN [records EXCEPT ![x][o] = 1] ELSE records
  <2>1. CASE o \in Record
    <3>1. records[x][o] < 2 /\ records[x][o] + 1 = 1
      BY <1>3, <2>1
    <3>2. records' = [records EXCEPT ![x][o] = records[x][o] + 1]
      BY <2>1, <3>1 DEF Emit
    <3> QED
      BY <2>1, <3>1, <3>2
  <2>2. CASE o \notin Record
    BY <2>2 DEF Emit
  <2> QED
    BY <2>1, <2>2
<1>5. records' \in [Site -> [Record -> 0..2]]
  BY <1>2, <1>4 DEF TypeOK
<1>6. Grows
  BY <1>1 DEF Grows
<1>7. TypeOK'
  <2>1. 0 \in Offset
    BY DEF Offset
  <2> QED
    BY <1>1, <1>5, <2>1 DEF TypeOK
<1>8. ThreadsOK'
  BY <1>1 DEF TypeOK, ThreadsOK, Probing
<1>9. Progress'
  <2> SUFFICES ASSUME NEW u \in Thread PROVE ProgressOf(u)'
    BY DEF Progress
  <2>1. CASE u = t
    BY <1>1, <2>1 DEF TypeOK, ProgressOf, Probing
  <2>2. CASE u # t
    BY <1>1, <1>6, <2>2, OthersProgress DEF TypeOK, Rests
  <2> QED
    BY <2>1, <2>2
<1>10. NoGaps' /\ OneSlotPerSite'
  BY <1>1, <1>6, <1>7, GapsStay
<1>11. Accounting'
  <2> SUFFICES ASSUME NEW y \in Site, NEW r \in Record PROVE Account(y, r)'
    BY DEF Accounting
  <2>1. CASE y = x /\ r = o
    <3>1. records'[y][r] = 1
      BY <1>4, <2>1 DEF TypeOK
    <3>2. InHand(y, r)' = {}
      BY <1>1, <1>3, <2>1 DEF TypeOK, InHand
    <3>3. Due(y, r)'
      BY <1>1, <1>3, <2>1 DEF Due
    <3> QED
      BY <3>1, <3>2, <3>3 DEF Account
  <2>2. CASE ~ (y = x /\ r = o)
    <3>1. records'[y][r] = records[y][r]
      BY <1>2, <1>4, <2>2 DEF TypeOK
    <3>2. InHand(y, r)' = InHand(y, r)
      BY <1>1, <2>2 DEF TypeOK, InHand
    <3> QED
      BY <1>6, <3>1, <3>2, AccountStays
  <2> QED
    BY <2>1, <2>2
<1> QED
  BY <1>7, <1>8, <1>9, <1>10, <1>11

LEMMA StutterStep ==
  ASSUME IInv, UNCHANGED vars
  PROVE  IInv'
<1> USE DEF IInv, vars
<1>1. Grows /\ TypeOK' /\ ThreadsOK'
  <2>1. Grows
    BY DEF Grows
  <2>2. TypeOK'
    BY DEF TypeOK
  <2>3. ThreadsOK'
    BY DEF ThreadsOK
  <2> QED
    BY <2>1, <2>2, <2>3
<1>2. Progress'
  BY <1>1, OthersProgress DEF Progress, Rests
<1>3. NoGaps' /\ OneSlotPerSite'
  BY <1>1, GapsStay
<1>4. Accounting'
  <2>1. \A y \in Site : \A r \in Record : InHand(y, r)' = InHand(y, r)
    BY DEF InHand
  <2> QED
    BY <1>1, <2>1, AccountStays DEF Accounting
<1> QED
  BY <1>1, <1>2, <1>3, <1>4

LEMMA NextIInv == IInv /\ [Next]_vars => IInv'
<1> SUFFICES ASSUME IInv, [Next]_vars PROVE IInv'
  OBVIOUS
<1>1. ASSUME NEW t \in Thread, NEW x \in Site, Call(t, x) PROVE IInv'
  BY <1>1, CallStep
<1>2. ASSUME NEW t \in Thread, Load(t) PROVE IInv'
  BY <1>2, LoadStep
<1>3. ASSUME NEW t \in Thread, Claim(t) PROVE IInv'
  BY <1>3, ClaimStep
<1>4. ASSUME NEW t \in Thread, Inspect(t) PROVE IInv'
  BY <1>4, InspectStep
<1>5. ASSUME NEW t \in Thread, Warn(t) PROVE IInv'
  BY <1>5, WarnStep
<1>6. ASSUME NEW t \in Thread, Emit(t) PROVE IInv'
  BY <1>6, EmitStep
<1>7. CASE UNCHANGED vars
  BY <1>7, StutterStep
<1> QED
  BY <1>1, <1>2, <1>3, <1>4, <1>5, <1>6, <1>7 DEF Next, Step

-----------------------------------------------------------------------------
(* The theorems *)

(* The inductive invariant of the registry.                                *)
THEOREM Invariance == Spec => []IInv
<1> QED
  BY InitIInv, NextIInv, PTL DEF Spec

(* Every variable of observe() keeps its type, for any capacity: the probe  *)
(* never leaves the slots.                                                 *)
THEOREM TypeCorrect == Spec => []TypeOK
<1>1. IInv => TypeOK
  BY DEF IInv
<1> QED
  BY <1>1, Invariance, PTL

(* No two slots ever belong to one site: the compare_exchange of claim is   *)
(* enough, with no lock and no second pass over the probe sequence.        *)
THEOREM OneSlot == Spec => []OneSlotPerSite
<1>1. IInv => OneSlotPerSite
  BY DEF IInv
<1> QED
  BY <1>1, Invariance, PTL

(* RegistryFull is answered only when every slot belongs to another site.   *)
THEOREM FullIsFull == Spec => []FullMeansFull
<1>1. IInv => FullMeansFull
  <2> SUFFICES ASSUME IInv, NEW t \in Thread, pc[t] = "emit", answer[t] = "RegistryFull",
                      NEW i \in Slot
               PROVE  slots[i] # Empty /\ slots[i].site # site[t]
    BY DEF FullMeansFull
  <2>1. site[t] \in Site /\ \A k \in Slot : Passed(site[t], k)
    BY DEF IInv, ThreadsOK, Progress, ProgressOf
  <2>2. \E k \in Slot : Probe(site[t], k) = i
    BY <2>1, ProbeOnto
  <2> QED
    BY <2>1, <2>2 DEF Passed
<1> QED
  BY <1>1, Invariance, PTL

(* One thread at most announces a site, and one at most warns of its        *)
(* duplicate, however calls interleave.                                    *)
THEOREM Announced == Spec => []AnnouncedOnce
<1>1. IInv => AnnouncedOnce
  <2> SUFFICES ASSUME IInv, NEW x \in Site, NEW r \in Record
               PROVE  records[x][r] + Cardinality(InHand(x, r)) <= 1
    BY DEF AnnouncedOnce
  <2>1. Account(x, r)
    BY DEF IInv, Accounting
  <2>2. CASE InHand(x, r) = {}
    <3>1. Cardinality(InHand(x, r)) = 0
      BY <2>2, FS_EmptySet
    <3> QED
      BY <2>1, <3>1 DEF Account
  <2>3. CASE InHand(x, r) # {}
    <3>1. PICK t : InHand(x, r) = {t}
      BY <2>1, <2>3 DEF Account
    <3>2. Cardinality(InHand(x, r)) = 1
      BY <3>1, FS_Singleton
    <3>3. records[x][r] = 0
      BY <2>1, <2>3 DEF Account
    <3> QED
      BY <3>2, <3>3
  <2> QED
    BY <2>2, <2>3
<1> QED
  BY <1>1, Invariance, PTL

-----------------------------------------------------------------------------
(* The registry as its callers see it *)

Stage(x) ==
  IF \E i \in Slot : slots[i] = [site |-> x, mark |-> "seen"] THEN "seen"
  ELSE IF Registered(x) THEN "warned" ELSE "new"
Stages == [x \in Site |-> Stage(x)]
Calls == [t \in Thread |-> [site |-> site[t], answer |-> answer[t]]]
RegisteredSites == {x \in Site : Registered(x)}

(* The one slot of a site tells its stage. *)
LEMMA StageOfSlot ==
  ASSUME TypeOK, OneSlotPerSite, NEW i \in Slot, slots[i] # Empty
  PROVE  /\ slots[i].site \in Site /\ Registered(slots[i].site)
         /\ slots[i].mark \in {"seen", "warned"} /\ Stage(slots[i].site) = slots[i].mark
<1>1. slots[i] \in Taken
  BY DEF TypeOK
<1>2. slots[i].site \in Site /\ slots[i].mark \in {"seen", "warned"}
      /\ slots[i] = [site |-> slots[i].site, mark |-> slots[i].mark]
  BY <1>1 DEF Taken
<1>3. Registered(slots[i].site)
  BY DEF Registered
<1>4. ASSUME NEW j \in Slot, slots[j] = [site |-> slots[i].site, mark |-> "seen"]
      PROVE  slots[i].mark = "seen"
  <2>1. slots[j].site = slots[i].site /\ slots[j].mark = "seen"
    BY <1>4
  <2>2. j = i
    BY <2>1 DEF OneSlotPerSite
  <2> QED
    BY <2>1, <2>2
<1>5. CASE slots[i].mark = "seen"
  <2>1. PICK x \in Site : x = slots[i].site
    BY <1>2
  <2>2. slots[i] = [site |-> x, mark |-> "seen"]
    BY <1>2, <1>5, <2>1
  <2>3. Stage(x) = "seen"
    BY <2>2, Zenon DEF Stage
  <2> QED
    BY <1>2, <1>3, <1>5, <2>1, <2>3
<1>6. CASE slots[i].mark = "warned"
  BY <1>2, <1>3, <1>4, <1>6 DEF Stage
<1> QED
  BY <1>2, <1>3, <1>5, <1>6

LEMMA StageNew ==
  ASSUME TypeOK, NEW x \in Site
  PROVE  Stage(x) = "new" <=> ~ Registered(x)
<1>1. (\E i \in Slot : slots[i] = [site |-> x, mark |-> "seen"]) => Registered(x)
  BY DEF Registered
<1> QED
  BY <1>1 DEF Stage

(* As many sites are registered as slots are taken. *)
LEMMA RegisteredCount ==
  ASSUME TypeOK, OneSlotPerSite
  PROVE  /\ (\E i \in Slot : slots[i] = Empty) => Cardinality(RegisteredSites) < N
         /\ (\A i \in Slot : slots[i] # Empty) => Cardinality(RegisteredSites) = N
<1> DEFINE used == {i \in Slot : slots[i] # Empty}
           owner == [i \in used |-> slots[i].site]
<1>1. N \in Nat
  BY CapacityAssumption
<1>2. IsFiniteSet(Slot) /\ Cardinality(Slot) = N
  <2>1. /\ IsFiniteSet(0..(N - 1))
        /\ Cardinality(0..(N - 1)) = IF 0 > N - 1 THEN 0 ELSE (N - 1) - 0 + 1
    BY <1>1, FS_Interval
  <2> QED
    BY <1>1, <2>1 DEF Slot
<1>3. /\ IsFiniteSet(used) /\ Cardinality(used) <= N
      /\ Cardinality(used) = N => used = Slot
  BY <1>2, FS_Subset
<1>4. \A i \in used : slots[i].site \in RegisteredSites
  BY StageOfSlot DEF RegisteredSites
<1>5. \A i, j \in used : slots[i].site = slots[j].site => i = j
  BY DEF OneSlotPerSite
<1>6. \A x \in RegisteredSites : \E i \in used : slots[i].site = x
  BY IdleAssumption DEF RegisteredSites, Registered, Empty
<1>7. ExistsBijection(used, RegisteredSites)
  <2>1. owner \in [used -> RegisteredSites]
    BY <1>4
  <2>2. \A i, j \in used : owner[i] = owner[j] => i = j
    BY <1>5
  <2>3. \A x \in RegisteredSites : \E i \in used : owner[i] = x
    BY <1>6
  <2> HIDE DEF owner, used
  <2> QED
    BY <2>1, <2>2, <2>3 DEF ExistsBijection, Bijection, Injection, Surjection, IsInjective, IsInjective
<1>8. Cardinality(RegisteredSites) = Cardinality(used)
  BY <1>3, <1>7, FS_Bijection
<1>9. Cardinality(used) \in Nat
  BY <1>3, FS_CardinalityType
<1>10. (\E i \in Slot : slots[i] = Empty) => used # Slot
  OBVIOUS
<1>11. (\A i \in Slot : slots[i] # Empty) => used = Slot
  OBVIOUS
<1> QED
  BY <1>1, <1>2, <1>3, <1>8, <1>9, <1>10, <1>11

(* A slot newly taken, or newly warned of, moves its site's stage alone.   *)
LEMMA StageMoves ==
  ASSUME TypeOK, TypeOK', OneSlotPerSite, OneSlotPerSite',
         NEW i \in Slot, NEW x \in Site, NEW mark \in {"seen", "warned"},
         slots[i] = Empty \/ slots[i].site = x,
         slots' = [slots EXCEPT ![i] = [site |-> x, mark |-> mark]]
  PROVE  Stages' = [Stages EXCEPT ![x] = mark]
<1>1. slots'[i] = [site |-> x, mark |-> mark] /\ \A j \in Slot : j # i => slots'[j] = slots[j]
  BY DEF TypeOK
<1>2. ASSUME NEW y \in Site, y # x
      PROVE  Stage(y)' = Stage(y)
  <2>1. slots[i].site # y
    BY <1>2, IdleAssumption DEF Empty
  <2>2. slots'[i].site # y
    BY <1>1, <1>2
  <2>3. \A j \in Slot : slots'[j].site = y <=> slots[j].site = y
    BY <1>1, <2>1, <2>2
  <2>4. \A j \in Slot : slots[j] # [site |-> y, mark |-> "seen"] \/ j # i
    BY <2>1
  <2>5. slots'[i] # [site |-> y, mark |-> "seen"]
    BY <2>2
  <2>6. \A j \in Slot : slots'[j] = [site |-> y, mark |-> "seen"] <=> slots[j] = [site |-> y, mark |-> "seen"]
    BY <1>1, <2>4, <2>5
  <2>7. Registered(y)' <=> Registered(y)
    BY <2>3 DEF Registered
  <2> QED
    BY <2>6, <2>7 DEF Stage
<1>3. Stage(x)' = mark
  <2>1. Empty # slots'[i] /\ slots'[i].site = x /\ slots'[i].mark = mark
    BY <1>1, IdleAssumption DEF Empty
  <2>2. Registered(x)'
    BY <2>1 DEF Registered
  <2>3. ASSUME NEW j \in Slot, slots'[j] = [site |-> x, mark |-> "seen"]
        PROVE  mark = "seen"
    <3>1. slots'[j].site = x /\ slots'[j].mark = "seen"
      BY <2>3
    <3>2. j = i
      BY <2>1, <3>1 DEF OneSlotPerSite
    <3> QED
      BY <2>1, <3>1, <3>2
  <2>4. CASE mark = "seen"
    BY <1>1, <2>4 DEF Stage
  <2>5. CASE mark = "warned"
    BY <2>2, <2>3, <2>5 DEF Stage
  <2> QED
    BY <2>4, <2>5
<1>4. Stages' = [y \in Site |-> Stage(y)']
  BY DEF Stages
<1> QED
  BY <1>2, <1>3, <1>4 DEF Stages

LEMMA StagesSame ==
  ASSUME UNCHANGED slots
  PROVE  Stages' = Stages
BY DEF Stages, Stage, Registered

(* Cardinality as OnceRegistry knows it. *)
LEMMA SameCount == \A S : Registry!Cardinality(S) = Cardinality(S)
BY DEF Registry!Cardinality, Cardinality

LEMMA EnteredSites ==
  ASSUME TypeOK
  PROVE  Registry!Entered = RegisteredSites
<1>1. Registry!Entered = {x \in Site : Stage(x) # "new"}
  BY DEF Registry!Entered, Stage
<1> QED
  BY <1>1, StageNew DEF RegisteredSites

(* One atomic observation, in the terms of OnceRegistry. *)
LEMMA Observes ==
  ASSUME TypeOK, NEW t \in Thread, site[t] \in Site, answer[t] = Idle, NEW from, NEW to, NEW o,
         Stage(site[t]) = from, Stages' = [Stages EXCEPT ![site[t]] = to],
         site' = site, answer' = [answer EXCEPT ![t] = o]
  PROVE  Registry!Observe(t, from, to, o)
<1>1. Calls[t] = [site |-> site[t], answer |-> answer[t]]
  BY DEF Calls
<1>2. Calls' = [Calls EXCEPT ![t].answer = o]
  BY DEF Calls, TypeOK
<1>3. site[t] # Idle
  BY IdleAssumption
<1>4. Calls[t].site = site[t] /\ Calls[t].answer = Idle /\ Stages[site[t]] = from
  BY <1>1 DEF Stages
<1>5. Registry!Observe(t, from, to, o) <=>
        /\ Calls[t].site # Idle /\ Calls[t].answer = Idle
        /\ Stages[Calls[t].site] = from
        /\ Stages' = [Stages EXCEPT ![Calls[t].site] = to]
        /\ Calls' = [Calls EXCEPT ![t].answer = o]
  BY DEF Registry!Observe, Stages, Stage, Calls
<1> QED
  BY <1>2, <1>3, <1>4, <1>5

LEMMA CallImplements ==
  ASSUME IInv, NEW t \in Thread, NEW x \in Site, Call(t, x)
  PROVE  Registry!ORNext
<1>1. Calls[t] = [site |-> Idle, answer |-> Idle] /\ TypeOK
  BY DEF Call, Calls, IInv, ThreadsOK
<1>2. Stages' = Stages
  BY StagesSame DEF Call
<1>3. CASE N = 0
  <2>1. Calls' = [Calls EXCEPT ![t] = [site |-> x, answer |-> "RegistryFull"]]
    BY <1>1, <1>3 DEF Call, Return, Calls, TypeOK
  <2>2. Registry!InvokeRefused(t, x) <=>
          /\ N = 0 /\ Calls[t] = [site |-> Idle, answer |-> Idle]
          /\ Calls' = [Calls EXCEPT ![t] = [site |-> x, answer |-> "RegistryFull"]]
          /\ Stages' = Stages
    BY DEF Registry!InvokeRefused, Registry!NoCall, Stages, Stage, Calls
  <2>3. Registry!InvokeRefused(t, x)
    BY <1>1, <1>2, <1>3, <2>1, <2>2
  <2> QED
    BY <2>3 DEF Registry!ORNext
<1>4. CASE N # 0
  <2>1. Calls' = [Calls EXCEPT ![t].site = x]
    BY <1>1, <1>4 DEF Call, Calls, TypeOK
  <2>2. Registry!Invoke(t, x) <=>
          /\ Calls[t] = [site |-> Idle, answer |-> Idle]
          /\ Calls' = [Calls EXCEPT ![t].site = x]
          /\ Stages' = Stages
    BY DEF Registry!Invoke, Registry!NoCall, Stages, Stage, Calls
  <2>3. Registry!Invoke(t, x)
    BY <1>1, <1>2, <2>1, <2>2
  <2> QED
    BY <2>3 DEF Registry!ORNext
<1> QED
  BY <1>3, <1>4

LEMMA EmitImplements ==
  ASSUME IInv, NEW t \in Thread, Emit(t)
  PROVE  Registry!ORNext
<1>1. Calls[t].answer # Idle /\ TypeOK
  BY IdleAssumption DEF Emit, Calls, IInv, ThreadsOK
<1>2. Stages' = Stages
  BY StagesSame DEF Emit
<1>3. Calls' = [Calls EXCEPT ![t] = [site |-> Idle, answer |-> Idle]]
  BY <1>1 DEF Emit, Calls, TypeOK
<1>4. Registry!Return(t) <=>
        /\ Calls[t].answer # Idle
        /\ Calls' = [Calls EXCEPT ![t] = [site |-> Idle, answer |-> Idle]]
        /\ Stages' = Stages
  BY DEF Registry!Return, Registry!NoCall, Stages, Stage, Calls
<1>5. Registry!Return(t)
  BY <1>1, <1>2, <1>3, <1>4
<1> QED
  BY <1>5 DEF Registry!ORNext

LEMMA ClaimImplements ==
  ASSUME IInv, IInv', NEW t \in Thread, Claim(t), slots[Here(t)] = Empty
  PROVE  Registry!ORNext
<1> DEFINE x == site[t]
<1>1. /\ TypeOK /\ TypeOK' /\ OneSlotPerSite /\ OneSlotPerSite'
      /\ Here(t) \in Slot /\ x \in Site /\ answer[t] = Idle
  BY HereInSlot DEF IInv, Claim, Probing
<1>2. /\ slots' = [slots EXCEPT ![Here(t)] = [site |-> x, mark |-> "seen"]]
      /\ answer' = [answer EXCEPT ![t] = "First"] /\ site' = site
  BY DEF Claim, Mark, Return
<1>3. ~ Registered(x)
  BY Unregistered DEF Claim, Registered
<1>4. Stage(x) = "new"
  BY <1>1, <1>3, StageNew
<1>5. Stages' = [Stages EXCEPT ![x] = "seen"]
  BY <1>1, <1>2, StageMoves
<1>6. Registry!Observe(t, "new", "seen", "First")
  BY <1>1, <1>2, <1>4, <1>5, Observes
<1>7. Registry!Cardinality(Registry!Entered) < N
  BY <1>1, RegisteredCount, EnteredSites, SameCount
<1>8. Registry!First(t)
  BY <1>6, <1>7 DEF Registry!First
<1> QED
  BY <1>8 DEF Registry!ORNext

(* The answers that leave the slots as they are. *)
LEMMA LookImplements ==
  ASSUME IInv, NEW t \in Thread, pc[t] \in Probing, UNCHANGED <<slots, site>>,
         NEW o \in {"Repeated", "RegistryFull"}, answer' = [answer EXCEPT ![t] = o],
         o = "Repeated" => Stage(site[t]) = "warned",
         o = "RegistryFull" => ~ Registered(site[t]) /\ \A i \in Slot : slots[i] # Empty
  PROVE  Registry!ORNext
<1> DEFINE x == site[t]
<1>1. TypeOK /\ OneSlotPerSite /\ x \in Site /\ answer[t] = Idle
  BY HereInSlot DEF IInv
<1>2. Stages' = Stages
  BY StagesSame
<1>3. Stages' = [Stages EXCEPT ![x] = Stage(x)]
  BY <1>1, <1>2 DEF Stages
<1>4. CASE o = "Repeated"
  <2>1. Registry!Observe(t, "warned", "warned", "Repeated")
    BY <1>1, <1>3, <1>4, Observes
  <2>2. Registry!Repeated(t)
    BY <2>1 DEF Registry!Repeated
  <2> QED
    BY <2>2 DEF Registry!ORNext
<1>5. CASE o = "RegistryFull"
  <2>1. Stage(x) = "new"
    BY <1>1, <1>5, StageNew
  <2>2. Registry!Observe(t, "new", "new", "RegistryFull")
    BY <1>1, <1>3, <1>5, <2>1, Observes
  <2>3. Registry!Cardinality(Registry!Entered) = N
    BY <1>1, <1>5, RegisteredCount, EnteredSites, SameCount
  <2>4. Registry!Full(t)
    BY <2>2, <2>3 DEF Registry!Full
  <2> QED
    BY <2>4 DEF Registry!ORNext
<1> QED
  BY <1>4, <1>5

LEMMA Unseen ==
  ASSUME UNCHANGED <<slots, site, answer>>
  PROVE  UNCHANGED Registry!orVars
BY DEF Registry!orVars, Registered

(* The last slot looked at in vain: all are taken, and by other sites.     *)
LEMMA ProbedAll ==
  ASSUME IInv, NEW t \in Thread, pc[t] = "inspect", slots[Here(t)].site # site[t],
         offset[t] + 1 >= N
  PROVE  ~ Registered(site[t]) /\ \A i \in Slot : slots[i] # Empty
<1>1. /\ offset[t] \in Slot /\ site[t] \in Site /\ N \in Nat
  BY HereInSlot DEF IInv, Probing
<1>2. ProgressOf(t)
  BY DEF IInv, Progress
<1>3. Passed(site[t], offset[t])
  BY <1>2 DEF ProgressOf, Passed, Here
<1>4. ASSUME NEW k \in Slot
      PROVE  Passed(site[t], k)
  <2>1. k < offset[t] \/ k = offset[t]
    BY <1>1 DEF Slot
  <2> QED
    BY <1>2, <1>3, <2>1 DEF ProgressOf, Probing
<1>5. ASSUME NEW i \in Slot
      PROVE  slots[i] # Empty /\ slots[i].site # site[t]
  <2>1. PICK k \in Slot : Probe(site[t], k) = i
    BY <1>1, ProbeOnto
  <2> QED
    BY <1>4, <2>1 DEF Passed
<1> QED
  BY <1>5 DEF Registered

LEMMA InspectImplements ==
  ASSUME IInv, NEW t \in Thread, Inspect(t)
  PROVE  Registry!ORNext \/ UNCHANGED Registry!orVars
<1>1. /\ TypeOK /\ OneSlotPerSite /\ Here(t) \in Slot /\ offset[t] \in Slot
      /\ site[t] \in Site /\ N \in Nat /\ pc[t] = "inspect" /\ slots[Here(t)] # Empty
  BY HereInSlot DEF IInv, Inspect, Probing, Progress, ProgressOf
<1>2. UNCHANGED <<slots, site>>
  BY DEF Inspect
<1>3. CASE slots[Here(t)].site # site[t] /\ Advance(t)
  <2>1. CASE offset[t] + 1 < N
    BY <1>2, <1>3, <2>1, Unseen DEF Advance
  <2>2. CASE ~ (offset[t] + 1 < N)
    <3>1. offset[t] + 1 >= N
      BY <1>1, <2>2 DEF Slot
    <3>2. answer' = [answer EXCEPT ![t] = "RegistryFull"]
      BY <1>3, <2>2 DEF Advance, Return
    <3>3. ~ Registered(site[t]) /\ \A i \in Slot : slots[i] # Empty
      BY <1>1, <1>3, <3>1, ProbedAll
    <3> QED
      BY <1>1, <1>2, <3>2, <3>3, LookImplements DEF Probing
  <2> QED
    BY <2>1, <2>2
<1>4. CASE slots[Here(t)].site = site[t] /\ UNCHANGED answer
  BY <1>2, <1>4, Unseen
<1>5. CASE /\ slots[Here(t)].site = site[t] /\ slots[Here(t)].mark # "seen"
           /\ Return(t, "Repeated")
  <2>1. Stage(site[t]) = "warned"
    BY <1>1, <1>5, StageOfSlot
  <2>2. answer' = [answer EXCEPT ![t] = "Repeated"]
    BY <1>5 DEF Return
  <2> QED
    BY <1>1, <1>2, <2>1, <2>2, LookImplements DEF Probing
<1> QED
  BY <1>3, <1>4, <1>5 DEF Inspect

LEMMA WarnImplements ==
  ASSUME IInv, IInv', NEW t \in Thread, Warn(t)
  PROVE  Registry!ORNext
<1> DEFINE x == site[t]
<1>1. /\ TypeOK /\ TypeOK' /\ OneSlotPerSite /\ OneSlotPerSite'
      /\ Here(t) \in Slot /\ x \in Site /\ answer[t] = Idle
      /\ pc[t] = "warn" /\ slots[Here(t)] # Empty /\ slots[Here(t)].site = x
  BY HereInSlot DEF IInv, Warn, Probing, Progress, ProgressOf
<1>2. Stage(x) = slots[Here(t)].mark /\ slots[Here(t)].mark \in {"seen", "warned"}
  BY <1>1, StageOfSlot
<1>3. CASE slots[Here(t)] = [site |-> x, mark |-> "seen"]
  <2>1. /\ slots' = [slots EXCEPT ![Here(t)] = [site |-> x, mark |-> "warned"]]
        /\ answer' = [answer EXCEPT ![t] = "Duplicate"] /\ site' = site
    BY <1>3 DEF Warn, Mark, Return
  <2>2. Stages' = [Stages EXCEPT ![x] = "warned"]
    BY <1>1, <2>1, StageMoves
  <2>3. Stage(x) = "seen"
    BY <1>2, <1>3
  <2>4. Registry!Observe(t, "seen", "warned", "Duplicate")
    BY <1>1, <2>1, <2>2, <2>3, Observes
  <2>5. Registry!Duplicate(t)
    BY <2>4 DEF Registry!Duplicate
  <2> QED
    BY <2>5 DEF Registry!ORNext
<1>4. CASE slots[Here(t)] # [site |-> x, mark |-> "seen"]
  <2>1. slots[Here(t)] \in Taken
    BY <1>1 DEF TypeOK
  <2>2. slots[Here(t)].mark # "seen"
    BY <1>1, <1>4, <2>1 DEF Taken
  <2>3. answer' = [answer EXCEPT ![t] = "Repeated"] /\ UNCHANGED <<slots, site>>
    BY <1>4 DEF Warn, Return
  <2> QED
    BY <1>1, <1>2, <2>2, <2>3, LookImplements DEF Probing
<1> QED
  BY <1>3, <1>4

(* The lock-free registry looks atomic to its callers: every observe takes  *)
(* effect at one compare_exchange or load, and tells a first activation,   *)
(* its duplicate, later ones and a full registry apart as OnceRegistry     *)
(* does, for every number of threads, sites and slots.                     *)
THEOREM RegistryImplemented == Spec => ImplementsRegistry
<1>1. Init => Registry!ORInit
  <2> SUFFICES ASSUME Init
               PROVE  Registry!ORInit
    OBVIOUS
  <2>1. \A x \in Site : Stage(x) = "new"
    BY IdleAssumption DEF Init, Stage, Registered, Empty
  <2>2. Stages = [x \in Site |-> "new"]
    BY <2>1 DEF Stages
  <2>3. Calls = [t \in Thread |-> [site |-> Idle, answer |-> Idle]]
    BY DEF Init, Calls
  <2> QED
    BY <2>2, <2>3 DEF Registry!ORInit, Registry!NoCall, Stages, Stage, Calls
<1>2. IInv /\ IInv' /\ [Next]_vars => [Registry!ORNext]_(Registry!orVars)
  <2> SUFFICES ASSUME IInv, IInv', [Next]_vars
               PROVE  Registry!ORNext \/ UNCHANGED Registry!orVars
    OBVIOUS
  <2>1. CASE UNCHANGED vars
    BY <2>1, Unseen DEF vars
  <2>2. ASSUME NEW t \in Thread, NEW x \in Site, Call(t, x)
        PROVE  Registry!ORNext
    BY <2>2, CallImplements
  <2>3. ASSUME NEW t \in Thread, Step(t)
        PROVE  Registry!ORNext \/ UNCHANGED Registry!orVars
    <3>1. CASE Load(t)
      BY <3>1, Unseen DEF Load
    <3>2. CASE Claim(t)
      <4>1. CASE slots[Here(t)] = Empty
        BY <3>2, <4>1, ClaimImplements
      <4>2. CASE slots[Here(t)] # Empty
        BY <3>2, <4>2, Unseen DEF Claim
      <4> QED
        BY <4>1, <4>2
    <3>3. CASE Inspect(t)
      BY <3>3, InspectImplements
    <3>4. CASE Warn(t)
      BY <3>4, WarnImplements
    <3>5. CASE Emit(t)
      BY <3>5, EmitImplements
    <3> QED
      BY <2>3, <3>1, <3>2, <3>3, <3>4, <3>5 DEF Step
  <2> QED
    BY <2>1, <2>2, <2>3 DEF Next
<1> QED
  BY <1>1, <1>2, Invariance, PTL DEF Spec, ImplementsRegistry, Registry!ORSpec
=============================================================================
