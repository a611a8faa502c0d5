---------------------------- MODULE OnceRegistry ----------------------------
(***************************************************************************)
(* What callers rely on, whatever the registry does inside: every observe  *)
(* call takes effect in one step between its invocation and its return.    *)
(* The first activation of a site is told apart from the second and from   *)
(* all later ones, for at most N sites; other sites are refused.           *)
(***************************************************************************)
EXTENDS Naturals, FiniteSets

CONSTANTS Thread, Site, N, Idle

VARIABLES
  stage,  \* how far the activations of a site have come
  call    \* the site a thread observes and the answer it has got

orVars == <<stage, call>>
NoCall == [site |-> Idle, answer |-> Idle]

Entered == {x \in Site : stage[x] # "new"}

ORInit ==
  /\ stage = [x \in Site |-> "new"]
  /\ call = [t \in Thread |-> NoCall]

Invoke(t, x) ==
  /\ call[t] = NoCall
  /\ call' = [call EXCEPT ![t].site = x]
  /\ UNCHANGED stage

(* With no capacity at all a call is refused as it is made. *)
InvokeRefused(t, x) ==
  /\ N = 0 /\ call[t] = NoCall
  /\ call' = [call EXCEPT ![t] = [site |-> x, answer |-> "RegistryFull"]]
  /\ UNCHANGED stage

Observe(t, from, to, answer) ==
  LET x == call[t].site
  IN
  /\ x # Idle /\ call[t].answer = Idle
  /\ stage[x] = from
  /\ stage' = [stage EXCEPT ![x] = to]
  /\ call' = [call EXCEPT ![t].answer = answer]

First(t)     == Cardinality(Entered) < N /\ Observe(t, "new", "seen", "First")
Duplicate(t) == Observe(t, "seen", "warned", "Duplicate")
Repeated(t)  == Observe(t, "warned", "warned", "Repeated")
Full(t)      == Cardinality(Entered) = N /\ Observe(t, "new", "new", "RegistryFull")

Return(t) ==
  /\ call[t].answer # Idle
  /\ call' = [call EXCEPT ![t] = NoCall]
  /\ UNCHANGED stage

ORNext ==
  \E t \in Thread :
    \/ \E x \in Site : Invoke(t, x) \/ InvokeRefused(t, x)
    \/ First(t) \/ Duplicate(t) \/ Repeated(t) \/ Full(t)
    \/ Return(t)

ORSpec == ORInit /\ [][ORNext]_orVars
===============================================================================
