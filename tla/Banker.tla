------------------------------- MODULE Banker -------------------------------
(***************************************************************************)
(* banker.c of Operating System, Project 6: customers request and release  *)
(* resources, and a request is granted only if all could still finish.     *)
(* main() reads one command at a time, so a command is one step.           *)
(***************************************************************************)
EXTENDS Integers, FiniteSets, Functions

CONSTANTS N,          \* NUMBER_OF_CUSTOMERS
          Resources,  \* resource types, NUMBER_OF_RESOURCES of them
          Units       \* bound: units of each resource, in all or claimed by one

ASSUME BankerAssumption == 
  N \in Nat /\ IsFiniteSet(Resources) /\ Units \in [Resources -> Nat]

VARIABLES available,   \* the four arrays of the program
          maximum,
          allocation,
          need

vars == <<available, maximum, allocation, need>>

Customers == 1..N
a \preceq b == \A r \in Resources : a[r] <= b[r]
a (+) b == [r \in Resources |-> a[r] + b[r]]
a (-) b == [r \in Resources |-> a[r] - b[r]]
Zero == [r \in Resources |-> 0]

Vector == {v \in [Resources -> UNION {0..Units[r] : r \in Resources}] : v \preceq Units}

TypeOK ==
  /\ available \in Vector
  /\ \A m \in {maximum, allocation, need} : m \in [Customers -> Vector]

\* The arguments and the input file: claims may exceed what there is.
Init ==
  /\ available \in Vector
  /\ maximum \in [Customers -> Vector]
  /\ allocation = [c \in Customers |-> Zero]
  /\ need = maximum

\* Units of resource r that the customers in set F hold.
Held(alloc, F, r) ==
  LET sum[c \in 0..N] ==
        IF c = 0 THEN 0 ELSE sum[c - 1] + IF c \in F THEN alloc[c][r] ELSE 0
  IN  sum[N]

\* The array work when the customers in F have finished.
Work(avail, alloc, F) == [r \in Resources |-> avail[r] + Held(alloc, F, r)]

\* Mutant of Visits: a single pass.
VisitsOnce == N

\* Turns of the inner loop of check_safe: a pass finds somebody, or ends it.
Visits == N * N

\* check_safe: N passes over the customers in turn, each of which finishes if
\* the work there is covers its need.  (The code stops at a pass that finds
\* nobody, and so would all later ones.)
check_safe(avail, alloc, needs) ==
  LET Visit(F, c) ==
        F \cup {d \in {c} : needs[d] \preceq Work(avail, alloc, F)}
      finish[k \in 0..Visits] ==
        IF k = 0 THEN {}
        ELSE UNION {Visit(F, ((k - 1) % N) + 1) : F \in {finish[k - 1]}}
  IN  finish[Visits] = Customers

\* Mutant of Granted: whatever is available is granted.
GrantedUnsafe(c, q) == IF q \preceq available THEN q ELSE Zero

\* request_resources: what changes hands.  A grant that is not safe is undone.
Granted(c, q) ==
  IF /\ q \preceq available
     /\ check_safe(available (-) q,
                   [allocation EXCEPT ![c] = @ (+) q], [need EXCEPT ![c] = @ (-) q])
  THEN q ELSE Zero

\* Mutant of Left: a customer that has finished keeps what it had.
LeftAll(v, needs) == v

\* check_finish: what is left of an allocation or a claim, given what is needed.
Left(v, needs) == IF needs = Zero THEN Zero ELSE v

\* RQ: request_resources, and check_finish whether that granted or not.
Request(c, q) ==
  /\ q \preceq need[c]
  /\ LET given == Granted(c, q)
         needs == need[c] (-) given
         alloc == allocation[c] (+) given
         back  == IF needs = Zero THEN alloc ELSE Zero
     IN  /\ available'  = (available (-) given) (+) back
         /\ allocation' = [allocation EXCEPT ![c] = Left(alloc, needs)]
         /\ need'       = [need EXCEPT ![c] = needs]
         /\ maximum'    = [maximum EXCEPT ![c] = Left(@, needs)]

\* RL
release_resources(c, q) ==
  /\ q \preceq allocation[c]
  /\ available'  = available (+) q
  /\ allocation' = [allocation EXCEPT ![c] = @ (-) q]
  /\ need'       = [need EXCEPT ![c] = @ (+) q]
  /\ UNCHANGED maximum

Next ==
  \E c \in Customers, q \in Vector : Request(c, q) \/ release_resources(c, q)

Spec == Init /\ [][Next]_vars

\* A customer that wants to finish asks for all it needs, again and again while
\* that is there.
AsksForAll(c) == need[c] # Zero /\ need[c] \preceq available /\ Request(c, need[c])

FairSpec == Spec /\ \A c \in Customers : SF_vars(AsksForAll(c))

Finished == \A c \in Customers : maximum[c] = Zero

Orders == Bijection(Customers, Customers)

\* The definition that check_safe decides: in some order, each customer can get
\* what it needs from what is available and what those before it gave back.
Completable(avail, alloc, needs) ==
  \E order \in Orders : \A i \in Customers :
    needs[order[i]] \preceq Work(avail, alloc, {order[j] : j \in 1..(i - 1)})
CanAllFinish == Completable(available, allocation, need)

\* What is there is refused exactly if granting it would leave no such order:
\* the one pass-by-pass search, which never goes back on a choice, is enough.
RefusesOnlyUnsafe ==
  \A c \in Customers, q \in Vector :
    q # Zero /\ q \preceq need[c] /\ q \preceq available =>
      (Granted(c, q) = q <=>
         Completable(available (-) q, [allocation EXCEPT ![c] = @ (+) q],
                     [need EXCEPT ![c] = @ (-) q]))

\* No sequence of requests, refusals, releases and finishes leads from a state in
\* which all can finish to one where they cannot, nor the other way round: grants
\* that are undone leave no trace.
SafetyKept == CanAllFinish' = CanAllFinish

\* Resources only move between the bank and its customers.
InAll(r) == available[r] + Held(allocation, Customers, r)
Conserved == \A r \in Resources : InAll(r)' = InAll(r)

\* No command of main() changes what the bank and its customers have in all, nor
\* whether all customers can finish.
BankKept == [][Conserved /\ SafetyKept]_vars

\* What the three arrays say of a customer agrees, and one that needs no more
\* holds nothing and has no claim.
ClaimsAgree ==
  \A c \in Customers :
    /\ maximum[c] = allocation[c] (+) need[c]
    /\ need[c] = Zero => maximum[c] = Zero

\* The four arrays agree after any sequence of commands.
ArraysAgree == TypeOK /\ ClaimsAgree

\* If all can finish, then all do, whatever else is requested and released in
\* between, as long as each asks again and again for all it still needs.
AllFinish == CanAllFinish ~> Finished

=============================================================================
