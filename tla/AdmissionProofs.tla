--------------------------- MODULE AdmissionProofs --------------------------
(***************************************************************************)
(* What lets a caller in: the tickets of an upgrade (module Tickets) and   *)
(* the throttle of password checks (module LoginThrottle).                 *)
(*                                                                         *)
(* For any number of tickets, upgrades and password changes: a ticket      *)
(* opens one socket, one that left the store stays out, and the store      *)
(* keeps to its bound.                                                     *)
(***************************************************************************)
EXTENDS Tickets, LoginThrottle, FiniteSetTheorems, TLAPS

\* Upgrades whose ticket is spoken for.
Spoken == Holding \cup {"burned"}

\* Only issued tickets are in the store or presented, and an upgrade that
\* holds one has its entry, where there is one, to itself.
Held ==
    /\ \A t \in entries : asked[t] = "issued"
    /\ \A u \in Upgrades : upgrade[u] \in Spoken =>
        ticket[u] \in Tickets /\ asked[ticket[u]] = "issued"
    /\ \A u \in Upgrades : upgrade[u] \in Holding /\ ticket[u] \in entries =>
        ticket[u] \in reserved
    /\ \A u \in Upgrades : upgrade[u] = "burned" => ticket[u] \notin entries

\* No two upgrades have the same ticket, which is what keeps the rollback of
\* one from freeing the reservation of another.
Distinct ==
    \A u, v \in Upgrades :
        upgrade[u] \in Spoken /\ upgrade[v] \in Spoken /\ ticket[u] = ticket[v] => u = v

IInv == TypeOK /\ Held /\ Distinct

\* Every step keeps the invariant.
LEMMA TicketStep ==
    ASSUME IInv, [Next]_vars
    PROVE  IInv'
<1> USE TicketsAssumption DEF IInv, TypeOK, Held, Distinct, Spoken, Holding,
        accountVars, issueVars, entryVars, upgradeVars
<1>1. CASE ChangePassword
  BY <1>1 DEF ChangePassword
<1>2. CASE RevokeAll
  BY <1>2 DEF RevokeAll
<1>3. ASSUME NEW t \in Tickets, CheckCaller(t)
      PROVE  IInv'
  BY <1>3 DEF CheckCaller
<1>4. ASSUME NEW t \in Tickets, Issue(t)
      PROVE  IInv'
  BY <1>4 DEF Issue
<1>5. ASSUME NEW t \in Tickets, Expire(t)
      PROVE  IInv'
  BY <1>5 DEF Expire
<1>6. ASSUME NEW u \in Upgrades, NEW t \in Tickets, Reserve(u, t)
      PROVE  IInv'
  BY <1>6 DEF Reserve, Answer
<1>7. ASSUME NEW u \in Upgrades, NEW t \in Tickets, ReserveUnknown(u, t)
      PROVE  IInv'
  BY <1>7 DEF ReserveUnknown, Answer
<1>8. ASSUME NEW u \in Upgrades, NEW t \in Tickets, ReserveBurns(u, t)
      PROVE  IInv'
  BY <1>8 DEF ReserveBurns, Answer
<1>9. ASSUME NEW u \in Upgrades, Admit(u)
      PROVE  IInv'
  BY <1>9 DEF Admit, Answer
<1>10. ASSUME NEW u \in Upgrades, Fail(u)
       PROVE  IInv'
  BY <1>10 DEF Fail, Rollback, Answer
<1>11. ASSUME NEW u \in Upgrades, Open(u)
       PROVE  IInv'
  BY <1>11 DEF Open, Answer
<1>12. ASSUME NEW u \in Upgrades, Commit(u)
       PROVE  IInv'
  BY <1>12 DEF Commit, Answer
<1>13. ASSUME NEW u \in Upgrades, Drop(u)
       PROVE  IInv'
  BY <1>13 DEF Drop, Answer
<1>14. CASE UNCHANGED vars
  BY <1>14 DEF vars
<1> QED
  BY <1>1, <1>2, <1>3, <1>4, <1>5, <1>6, <1>7, <1>8, <1>9, <1>10, <1>11, <1>12, <1>13,
     <1>14 DEF Next

\* The invariant holds throughout.
THEOREM TicketsInvariant == Spec => []IInv
<1>1. Init => IInv
  BY TicketsAssumption
     DEF Init, IInv, TypeOK, Held, Distinct, Spoken, Holding
<1>2. IInv /\ [Next]_vars => IInv'
  BY TicketStep
<1> QED BY <1>1, <1>2, PTL DEF Spec

\* terminal_ws opens at most one socket for a ticket, for any interleaving of
\* the requests that present it with sweeps and revocations.
THEOREM TicketsAreSingleUse == Spec => []SingleUse
<1>1. IInv => SingleUse
  BY DEF IInv, Distinct, Spoken, Holding, SingleUse
<1> QED BY <1>1, TicketsInvariant, PTL

\* Only issue_at adds to the store, and only what it has just minted: commit,
\* a sweep, a mismatch and revoke_all are final.
THEOREM NothingComesBack == Spec => OutStaysOut
<1> DEFINE Out == \A t \in Tickets : asked[t] = "issued" /\ t \notin entries => t \notin entries'
<1>1. TypeOK /\ [Next]_vars => [Out]_vars
  BY DEF TypeOK, Next, ChangePassword, RevokeAll, CheckCaller, Issue, Expire, Reserve,
         ReserveUnknown, ReserveBurns, Admit, Fail, Rollback, Open, Commit, Drop,
         entryVars, issueVars, vars
<1>2. IInv => TypeOK
  BY DEF IInv
<1> QED BY <1>1, <1>2, TicketsInvariant, PTL DEF Spec, OutStaysOut

\* issue_at counts what the sweep left, and adds one below the bound.
THEOREM TicketsAreBounded == Spec => []LiveIsBounded
<1> DEFINE Bounded == IsFiniteSet(entries) /\ Cardinality(entries) <= MaxLive
<1>1. Init => Bounded
  BY TicketsAssumption, FS_EmptySet DEF Init
<1>2. Bounded /\ [Next]_vars => Bounded'
  <2> SUFFICES ASSUME Bounded, [Next]_vars PROVE Bounded'
    OBVIOUS
  <2>1. ASSUME NEW rest, rest \subseteq entries
        PROVE  IsFiniteSet(rest) /\ Cardinality(rest) \in Nat /\ Cardinality(rest) <= MaxLive
    <3>1. /\ IsFiniteSet(rest)
          /\ Cardinality(rest) <= Cardinality(entries)
      BY <2>1, FS_Subset
    <3>2. Cardinality(rest) \in Nat /\ Cardinality(entries) \in Nat
      BY <3>1, FS_CardinalityType
    <3> QED BY <3>1, <3>2, TicketsAssumption
  <2>2. CASE entries' \subseteq entries
    BY <2>1, <2>2
  <2>3. ASSUME NEW t \in Tickets, Issue(t)
        PROVE  Bounded'
    <3> DEFINE live == entries \ expired
    <3>1. IsFiniteSet(live) /\ Cardinality(live) \in Nat
      BY <2>1
    <3>2. CASE entries' = live
      BY <2>1, <3>2
    <3>3. CASE Cardinality(live) < MaxLive /\ entries' = live \cup {t}
      <4>1. /\ IsFiniteSet(entries')
            /\ \/ Cardinality(entries') = Cardinality(live)
               \/ Cardinality(entries') = Cardinality(live) + 1
        BY <3>1, <3>3, FS_AddElement
      <4> QED BY <3>1, <3>3, <4>1, TicketsAssumption
    <3> QED BY <2>3, <3>2, <3>3 DEF Issue
  <2>4. entries' \subseteq entries \/ \E t \in Tickets : Issue(t)
    BY DEF Next, ChangePassword, RevokeAll, CheckCaller, Expire, Reserve, ReserveUnknown,
           ReserveBurns, Admit, Fail, Rollback, Open, Commit, Drop, entryVars, vars
  <2> QED BY <2>2, <2>3, <2>4
<1>3. Bounded => LiveIsBounded
  BY DEF LiveIsBounded
<1> QED BY <1>1, <1>2, <1>3, PTL DEF Spec

-----------------------------------------------------------------------------
(***************************************************************************)
(* The delays.  What Doubled and Needed compute is shown by induction, in  *)
(* the form of a set that has 0 and the successor of every number in it;   *)
(* that their recursive definitions define anything, by building the       *)
(* function they unroll to.                                                *)
(***************************************************************************)

\* A nonempty set of numbers has a least one.
LEMMA Least ==
    ASSUME NEW T \in SUBSET Nat, T # {}
    PROVE  \E n \in T : \A m \in T : n <= m
<1> DEFINE R == OpToRel(<, Nat)
<1>1. PICK n \in T : \A m \in T : ~(<<m, n>> \in R)
    BY NatLessThanWellFounded, WFMin, Zenon
<1>2. \A m \in T : m < n => <<m, n>> \in R
    BY DEF OpToRel
<1> HIDE DEF R
<1>3. n \in Nat /\ \A m \in T : m \in Nat /\ ~(m < n)
    BY <1>1, <1>2
<1> QED BY <1>3

\* Induction: a set with 0 and the successor of every number in it has them all.
LEMMA InductiveSet ==
    ASSUME NEW S, 0 \in S, \A n \in Nat : n \in S => n + 1 \in S
    PROVE  Nat \subseteq S
<1> DEFINE T == Nat \ S
<1> SUFFICES ASSUME T # {} PROVE FALSE
    OBVIOUS
<1>1. PICK n \in T : \A m \in T : n <= m
    BY Least
<1>2. n # 0 /\ n - 1 \in Nat /\ ~(n <= n - 1)
    BY <1>1
<1>3. n - 1 \in S
    BY <1>1, <1>2
<1> QED BY <1>2, <1>3, (n - 1) + 1 = n

\* A function that starts with a and goes on as h says.
Unrolls(f, a, h) == \A n \in Nat : f[n] = IF n = 0 THEN a ELSE h[n][f[n - 1]]

\* There is one.
LEMMA RecursionExists ==
    ASSUME NEW S, NEW a \in S, NEW h \in [Nat -> [S -> S]]
    PROVE  \E f \in [Nat -> S] : Unrolls(f, a, h)
<1> DEFINE Upto(n, g) == /\ g \in [0 .. n -> S] /\ g[0] = a
                         /\ \A i \in 1 .. n : g[i] = h[i][g[i - 1]]
           Good == {n \in Nat : \E g : Upto(n, g)}
<1>1. 0 \in Good
  <2>1. Upto(0, [i \in 0 .. 0 |-> a])
    OBVIOUS
  <2> QED BY <2>1
<1>2. ASSUME NEW n \in Nat, n \in Good PROVE n + 1 \in Good
  <2>1. PICK g : Upto(n, g)
    BY <1>2
  <2>2. g[n] \in S /\ h[n + 1][g[n]] \in S
    BY <2>1
  <2>3. PICK v \in S : v = h[n + 1][g[n]]
    BY <2>2
  <2> DEFINE e == [i \in 0 .. n + 1 |-> IF i <= n THEN g[i] ELSE v]
  <2>4. e \in [0 .. n + 1 -> S] /\ e[0] = a
    BY <2>1
  <2>5. \A i \in 1 .. n + 1 : e[i] = h[i][e[i - 1]]
    <3> TAKE i \in 1 .. n + 1
    <3>0. /\ i - 1 \in 0 .. n /\ i \in 0 .. n + 1 /\ i - 1 \in 0 .. n + 1 
          /\ e[i - 1] = g[i - 1]
      OBVIOUS
    <3>1. CASE i <= n
      <4>1. i \in 1 .. n /\ e[i] = g[i]
        BY <3>1
      <4> HIDE DEF e
      <4> QED BY <2>1, <3>0, <4>1
    <3>2. CASE ~(i <= n)
      <4>1. i = n + 1 /\ e[i] = v /\ i - 1 = n
        BY <3>2
      <4> HIDE DEF e
      <4> QED BY <2>3, <3>0, <4>1
    <3> QED BY <3>1, <3>2
  <2> HIDE DEF e
  <2>6. Upto(n + 1, e)
    BY <2>4, <2>5
  <2> HIDE DEF Upto
  <2> QED BY <2>6
<1>3. \A n \in Nat : \E g : Upto(n, g)
  <2> HIDE DEF Upto
  <2>1. Nat \subseteq Good
    <3> HIDE DEF Good
    <3> QED BY <1>1, <1>2, InductiveSet
  <2> QED BY <2>1
<1>4. ASSUME NEW m \in Nat, NEW n \in Nat, m <= n, NEW g, NEW k, Upto(m, g), Upto(n, k)
      PROVE  g[m] = k[m]
  <2> DEFINE Same == {i \in Nat : i <= m => g[i] = k[i]}
  <2>1. 0 \in Same
    BY <1>4
  <2>2. ASSUME NEW i \in Nat, i \in Same PROVE i + 1 \in Same
    <3> SUFFICES ASSUME i + 1 <= m PROVE g[i + 1] = k[i + 1]
      OBVIOUS
    <3>1. i + 1 \in 1 .. m /\ i + 1 \in 1 .. n /\ (i + 1) - 1 = i
      BY <1>4
    <3>2. g[i + 1] = h[i + 1][g[i]] /\ k[i + 1] = h[i + 1][k[i]]
      BY <1>4, <3>1
    <3> QED BY <2>2, <3>1, <3>2
  <2>3. Nat \subseteq Same
    <3> HIDE DEF Same
    <3> QED BY <2>1, <2>2, InductiveSet
  <2> QED BY <2>3
<1> DEFINE gs == [n \in Nat |-> CHOOSE g : Upto(n, g)]
<1>5. \A n \in Nat : Upto(n, gs[n])
  <2> HIDE DEF Upto
  <2> QED BY <1>3
<1> HIDE DEF gs
<1> DEFINE f == [n \in Nat |-> gs[n][n]]
<1>6. f \in [Nat -> S]
  <2>1. \A n \in Nat : gs[n] \in [0 .. n -> S] /\ n \in 0 .. n
    BY <1>5
  <2> QED BY <2>1
<1>7. ASSUME NEW n \in Nat PROVE f[n] = IF n = 0 THEN a ELSE h[n][f[n - 1]]
  <2>1. CASE n = 0
    BY <1>5, <2>1
  <2>2. CASE n # 0
    <3>1. n - 1 \in Nat /\ n - 1 <= n /\ n \in 1 .. n
      BY <2>2
    <3>2. Upto(n - 1, gs[n - 1]) /\ Upto(n, gs[n])
      BY <1>5, <3>1
    <3>3. gs[n - 1][n - 1] = gs[n][n - 1]
      <4> HIDE DEF Upto
      <4> QED BY <1>4, <3>1, <3>2
    <3>4. gs[n][n] = h[n][gs[n][n - 1]]
      BY <3>1, <3>2
    <3>5. f[n] = gs[n][n] /\ f[n - 1] = gs[n - 1][n - 1]
      BY <3>1
    <3> QED BY <2>2, <3>3, <3>4, <3>5
  <2> QED BY <2>1, <2>2
<1> HIDE DEF f
<1>8. Unrolls(f, a, h)
    BY <1>7 DEF Unrolls
<1> QED BY <1>6, <1>8

\* The lesser of two numbers.
LEMMA MinOf ==
    ASSUME NEW a \in Int, NEW b \in Int
    PROVE  Min({a, b}) = IF a <= b THEN a ELSE b
BY DEF Min

\* The shift doubles, and only grows.
LEMMA DoubledIs ==
    /\ \A n \in Nat : Doubled[n] \in Nat
    /\ \A m, n \in Nat : m <= n => Doubled[m] <= Doubled[n]
<1> DEFINE h == [n \in Nat |-> [x \in Nat |-> 2 * x]]
<1>1. h \in [Nat -> [Nat -> Nat]] /\ \A n \in Nat, x \in Nat : h[n][x] = 2 * x
    OBVIOUS
<1> HIDE DEF h
<1>2. 1 \in Nat
    OBVIOUS
<1>3. PICK f \in [Nat -> Nat] : Unrolls(f, 1, h)
    BY <1>1, <1>2, RecursionExists
<1>4. \A n \in Nat : f[n] = IF n = 0 THEN 1 ELSE 2 * f[n - 1]
  <2> TAKE n \in Nat
  <2>1. CASE n = 0
    BY <1>3, <2>1 DEF Unrolls
  <2>2. CASE n # 0
    <3>1. n - 1 \in Nat /\ f[n - 1] \in Nat
      BY <2>2
    <3> QED BY <1>1, <1>3, <2>2, <3>1 DEF Unrolls
  <2> QED BY <2>1, <2>2
<1>5. f = [n \in Nat |-> IF n = 0 THEN 1 ELSE 2 * f[n - 1]]
    BY <1>4
<1>6. Doubled = [n \in Nat |-> IF n = 0 THEN 1 ELSE 2 * Doubled[n - 1]]
    BY <1>5 DEF Doubled
<1>7. Doubled[0] = 1 /\ \A n \in Nat : Doubled[n + 1] = 2 * Doubled[n]
  <2>1. \A n \in Nat : n + 1 \in Nat /\ n + 1 # 0 /\ (n + 1) - 1 = n
    OBVIOUS
  <2> QED BY <1>6, <2>1
<1> DEFINE Typed == {n \in Nat : Doubled[n] \in Nat}
<1>8. 0 \in Typed /\ \A n \in Nat : n \in Typed => n + 1 \in Typed
    BY <1>7
<1>9. \A n \in Nat : Doubled[n] \in Nat
  <2> HIDE DEF Typed
  <2>1. Nat \subseteq Typed
    BY <1>8, InductiveSet
  <2> QED BY <2>1 DEF Typed
<1>10. ASSUME NEW m \in Nat PROVE \A n \in Nat : m <= n => Doubled[m] <= Doubled[n]
  <2> DEFINE Above == {n \in Nat : m <= n => Doubled[m] <= Doubled[n]}
  <2>1. 0 \in Above
    BY <1>9
  <2>2. ASSUME NEW n \in Nat, n \in Above PROVE n + 1 \in Above
    <3>1. Doubled[n + 1] = 2 * Doubled[n] /\ Doubled[n] \in Nat /\ Doubled[m] \in Nat
      BY <1>7, <1>9
    <3>2. m = n + 1 \/ m <= n \/ ~(m <= n + 1)
      OBVIOUS
    <3> QED BY <2>2, <3>1, <3>2
  <2> HIDE DEF Above
  <2>3. Nat \subseteq Above
    BY <2>1, <2>2, InductiveSet
  <2> QED BY <2>3 DEF Above
<1> QED BY <1>9, <1>10

\* A delay is a time, and no shorter than the ones before it.
LEMMA DelayGrows ==
    /\ \A n \in Nat \ {0} : Delay(n) \in Nat
    /\ \A m, n \in Nat \ {0} : m <= n => Delay(m) <= Delay(n)
<1> DEFINE s(n) == Min({n - 1, 20})
<1>1. MaxDelay \in Nat
    BY ThrottleAssumption
<1>2. ASSUME NEW n \in Nat \ {0} PROVE s(n) = IF n - 1 <= 20 THEN n - 1 ELSE 20
  <2>1. n - 1 \in Int /\ 20 \in Int
    OBVIOUS
  <2> QED BY <2>1, MinOf
<1>3. \A n \in Nat \ {0} : Delay(n) = Min({Doubled[s(n)], MaxDelay})
    BY DEF Delay
<1> HIDE DEF s
<1>4. \A n \in Nat \ {0} : s(n) \in Nat
    BY <1>2
<1>5. \A m, n \in Nat \ {0} : m <= n => s(m) <= s(n)
    BY <1>2
<1>6. \A n \in Nat \ {0} : /\ Doubled[s(n)] \in Nat
                           /\ Delay(n) = IF Doubled[s(n)] <= MaxDelay THEN Doubled[s(n)] ELSE MaxDelay
  <2> TAKE n \in Nat \ {0}
  <2>1. Doubled[s(n)] \in Nat
    BY <1>4, DoubledIs
  <2>2. Doubled[s(n)] \in Int /\ MaxDelay \in Int
    BY <1>1, <2>1
  <2>3. Min({Doubled[s(n)], MaxDelay}) = IF Doubled[s(n)] <= MaxDelay THEN Doubled[s(n)] ELSE MaxDelay
    BY <2>2, MinOf
  <2> QED BY <1>3, <2>1, <2>3
<1>7. \A m, n \in Nat \ {0} : m <= n => Doubled[s(m)] <= Doubled[s(n)]
    BY <1>4, <1>5, DoubledIs
<1> QED BY <1>1, <1>6, <1>7

\* Needed is the sum its definition says, and no less for more guesses.
LEMMA NeededIs ==
    /\ Needed[0] = 0
    /\ \A n \in Nat : Needed[n] \in Nat /\ Needed[n + 1] = Needed[n] + Delay(n + 1)
    /\ \A m, n \in Nat : m <= n => Needed[m] <= Needed[n]
<1> DEFINE h == [n \in Nat |-> [x \in Nat |-> IF n = 0 THEN 0 ELSE x + Delay(n)]]
<1>1. /\ h \in [Nat -> [Nat -> Nat]]
      /\ \A n \in Nat \ {0}, x \in Nat : h[n][x] = x + Delay(n)
  <2>1. \A n \in Nat, x \in Nat : (IF n = 0 THEN 0 ELSE x + Delay(n)) \in Nat
    BY DelayGrows
  <2> QED BY <2>1
<1> HIDE DEF h
<1>2. 0 \in Nat
    OBVIOUS
<1>3. PICK f \in [Nat -> Nat] : Unrolls(f, 0, h)
    BY <1>1, <1>2, RecursionExists
<1>4. \A n \in Nat : f[n] = IF n = 0 THEN 0 ELSE f[n - 1] + Delay(n)
  <2> TAKE n \in Nat
  <2>1. CASE n = 0
    BY <1>3, <2>1 DEF Unrolls
  <2>2. CASE n # 0
    <3>1. n - 1 \in Nat /\ f[n - 1] \in Nat
      BY <2>2
    <3> QED BY <1>1, <1>3, <2>2, <3>1 DEF Unrolls
  <2> QED BY <2>1, <2>2
<1>5. f = [n \in Nat |-> IF n = 0 THEN 0 ELSE f[n - 1] + Delay(n)]
    BY <1>4
<1>6. Needed = [n \in Nat |-> IF n = 0 THEN 0 ELSE Needed[n - 1] + Delay(n)]
    BY <1>5 DEF Needed
<1>7. Needed[0] = 0 /\ \A n \in Nat : Needed[n + 1] = Needed[n] + Delay(n + 1)
  <2>1. \A n \in Nat : n + 1 \in Nat /\ n + 1 # 0 /\ (n + 1) - 1 = n
    OBVIOUS
  <2> QED BY <1>6, <2>1
<1> DEFINE Typed == {n \in Nat : Needed[n] \in Nat}
<1>8. 0 \in Typed /\ \A n \in Nat : n \in Typed => n + 1 \in Typed
  <2>1. \A n \in Nat : Delay(n + 1) \in Nat
    BY DelayGrows
  <2> QED BY <1>7, <2>1
<1>9. \A n \in Nat : Needed[n] \in Nat
  <2> HIDE DEF Typed
  <2>1. Nat \subseteq Typed
    BY <1>8, InductiveSet
  <2> QED BY <2>1 DEF Typed
<1>10. ASSUME NEW m \in Nat PROVE \A n \in Nat : m <= n => Needed[m] <= Needed[n]
  <2> DEFINE Above == {n \in Nat : m <= n => Needed[m] <= Needed[n]}
  <2>1. 0 \in Above
    BY <1>9
  <2>2. ASSUME NEW n \in Nat, n \in Above PROVE n + 1 \in Above
    <3>1. /\ Needed[n + 1] = Needed[n] + Delay(n + 1) /\ Delay(n + 1) \in Nat
          /\ Needed[n] \in Nat /\ Needed[m] \in Nat
      <4>1. n + 1 \in Nat \ {0}
        OBVIOUS
      <4>2. Delay(n + 1) \in Nat
        BY <4>1, DelayGrows
      <4> QED BY <1>7, <1>9, <4>2
    <3>2. m = n + 1 \/ m <= n \/ ~(m <= n + 1)
      OBVIOUS
    <3> QED BY <2>2, <3>1, <3>2
  <2> HIDE DEF Above
  <2>3. Nat \subseteq Above
    BY <2>1, <2>2, InductiveSet
  <2> QED BY <2>3 DEF Above
<1> QED BY <1>7, <1>9, <1>10

-----------------------------------------------------------------------------
(***************************************************************************)
(* The throttle, for any number of keys and attempts and every delay: the  *)
(* failures and reservations of a key cover the guesses counted for it,    *)
(* and the guesses had taken their time when the key was last seen, from   *)
(* where the next one waits.                                               *)
(***************************************************************************)

\* Guesses counted for a key beyond the free ones and one more.
Past(k) == guesses[k] - Free(k) - 1 - excused[k]

\* What the entries say of the guesses counted: a key without an entry has
\* nothing counted against it, and the failures and reservations there are
\* cover every guess that no second release excuses.
Covered ==
    \A k \in Keys :
        /\ k \notin known => failures[k] = 0 /\ inFlight[k] = 0
        /\ guesses[k] - excused[k] <= failures[k] + inFlight[k]

\* The guesses had taken their time when the key was last seen: it is from
\* then on that the next one waits.
Paced ==
    \A k \in Keys :
        /\ start[k] <= now /\ seen[k] <= now
        /\ Past(k) >= 0 => seen[k] - start[k] >= Needed[Past(k)]

ThrottleInv == ThrottleTypeOK /\ Covered /\ Paced

\* The guesses past the free ones are a number, and the clocks are.
LEMMA KeyTypes ==
    ASSUME ThrottleInv, NEW k \in Keys
    PROVE  /\ now \in Nat /\ failures[k] \in Nat /\ inFlight[k] \in Nat /\ seen[k] \in Nat
           /\ guesses[k] \in Int /\ start[k] \in Nat /\ excused[k] \in Nat
           /\ Free(k) \in Nat /\ Past(k) \in Int
<1>1. Free(k) \in Nat
    BY ThrottleAssumption DEF Free
<1> QED BY <1>1 DEF ThrottleInv, ThrottleTypeOK, Past

\* What a key has to be for a step to keep the invariant.
LEMMA KeepsPace ==
    ASSUME ThrottleTypeOK',
           \A k \in Keys :
              /\ k \notin known' => failures'[k] = 0 /\ inFlight'[k] = 0
              /\ guesses'[k] - excused'[k] <= failures'[k] + inFlight'[k]
              /\ start'[k] <= now' /\ seen'[k] <= now'
              /\ LET past == guesses'[k] - Free(k) - 1 - excused'[k]
                 IN  past >= 0 => seen'[k] - start'[k] >= Needed[past]
    PROVE  ThrottleInv'
<1>1. \A k \in Keys : Past(k)' = guesses'[k] - Free(k) - 1 - excused'[k]
    BY DEF Past, Free
<1>2. Covered'
    BY DEF Covered
<1>3. Paced'
    BY <1>1 DEF Paced
<1> QED BY <1>2, <1>3 DEF ThrottleInv

\* A key that has fewer guesses past the free ones, and was seen no earlier,
\* has taken its time.
LEMMA FewerTakeLess ==
    ASSUME ThrottleInv, NEW k \in Keys, NEW past \in Int, past <= Past(k),
           NEW at \in Nat, seen[k] <= at
    PROVE  past >= 0 => at - start[k] >= Needed[past]
<1> SUFFICES ASSUME past >= 0 PROVE at - start[k] >= Needed[past]
    OBVIOUS
<1>1. past \in Nat /\ Past(k) \in Nat /\ seen[k] \in Nat /\ start[k] \in Nat
    BY KeyTypes
<1>2. Needed[past] <= Needed[Past(k)] /\ Needed[past] \in Nat /\ Needed[Past(k)] \in Nat
    BY <1>1, NeededIs
<1>3. seen[k] - start[k] >= Needed[Past(k)]
    BY <1>1 DEF ThrottleInv, Paced
<1> QED BY <1>1, <1>2, <1>3

\* A key that is admitted had waited the delay its guesses call for.
LEMMA AdmittedWaited ==
    ASSUME ThrottleInv, NEW K \in SUBSET Keys, NEW k \in K, ~Waits(K), k \notin Forgotten,
           NEW past \in Nat, past = Past(k) + 1
    PROVE  now - start[k] >= Needed[past]
<1>1. k \in Keys
    OBVIOUS
<1>2. /\ now \in Nat /\ failures[k] \in Nat /\ inFlight[k] \in Nat /\ seen[k] \in Nat
      /\ guesses[k] \in Int /\ start[k] \in Nat /\ excused[k] \in Nat
      /\ Free(k) \in Nat /\ Past(k) \in Int
    BY <1>1, KeyTypes
<1>3. /\ guesses[k] - excused[k] <= failures[k] + inFlight[k]
      /\ k \notin known => failures[k] = 0 /\ inFlight[k] = 0
      /\ start[k] <= now /\ seen[k] <= now
      /\ Past(k) >= 0 => seen[k] - start[k] >= Needed[Past(k)]
    BY <1>1 DEF ThrottleInv, Covered, Paced
<1>4. CASE past = 0
    BY <1>2, <1>3, <1>4, NeededIs
<1>5. CASE past # 0
  <2>1. Past(k) \in Nat /\ past \in Nat \ {0}
    BY <1>2, <1>5
  <2>2. Needed[past] = Needed[Past(k)] + Delay(past) /\ Needed[Past(k)] \in Nat
    BY <2>1, NeededIs
  <2> DEFINE excess == failures[k] + inFlight[k] - Free(k)
  <2>3. excess \in Nat \ {0} /\ past <= excess
    BY <1>2, <1>3, <2>1 DEF Past
  <2>4. k \in known
    BY <1>2, <1>3, <2>3
  <2>5. k \in Kept
    BY <2>4 DEF Forgotten
  <2>6. Penalty(k) = Delay(excess)
    BY <1>2, <2>3 DEF Penalty
  <2> HIDE DEF excess
  <2>7. Delay(past) <= Delay(excess) /\ Delay(past) \in Nat /\ Delay(excess) \in Nat
    BY <2>1, <2>3, DelayGrows
  <2>8. ~(now - seen[k] < Delay(excess))
    BY <2>5, <2>6 DEF Waits
  <2> QED BY <1>2, <1>3, <2>1, <2>2, <2>7, <2>8
<1> QED BY <1>4, <1>5

\* The keys an attempt is made under are keys.
LEMMA KeySetsAreKeys == \A K \in KeySets : K \subseteq Keys
BY DEF KeySets, Keys

\* What is pruned has rested.
LEMMA ForgottenRested ==
    ASSUME NEW k \in Forgotten
    PROVE  k \in known /\ k \notin Kept /\ Rested(k)
BY DEF Forgotten, Kept, Stale, Rested

\* An attempt is admitted: its guess has waited, or is a first one.
LEMMA BeginAttempt ==
    ASSUME ThrottleInv, NEW a \in Attempts, NEW K \in KeySets, Begin(a, K)
    PROVE  ThrottleInv'
<1> DEFINE anew == Forgotten \cup {k \in K : guesses[k] = 0 \/ Rested(k)}
<1>1. /\ ~Waits(K) /\ known' = Kept \cup K
      /\ failures' = [k \in Keys |-> IF k \notin Kept \/ (k \in K /\ Stale(k)) THEN 0 ELSE failures[k]]
      /\ inFlight' = [k \in Keys |-> (IF k \in Kept THEN inFlight[k] ELSE 0) + (IF k \in K THEN 1 ELSE 0)]
      /\ seen' = [k \in Keys |-> IF k \in K THEN now ELSE seen[k]]
      /\ pruned' = IF PruneDue THEN now ELSE pruned
      /\ held' = [held EXCEPT ![a] = K]
      /\ counted' = [b \in Attempts |-> IF b = a THEN K ELSE counted[b] \ anew]
      /\ guesses' = [k \in Keys |-> (IF k \in anew THEN 0 ELSE guesses[k]) + (IF k \in K THEN 1 ELSE 0)]
      /\ start' = [k \in Keys |-> IF k \in K \cap anew THEN now ELSE start[k]]
      /\ excused' = [k \in Keys |-> IF k \in anew THEN 0 ELSE excused[k]]
      /\ now' = now
    BY DEF Begin
<1>2. K \subseteq Keys /\ Kept \subseteq known /\ now \in Nat
    BY KeySetsAreKeys DEF Kept, ThrottleInv, ThrottleTypeOK
<1>3. \A k \in anew : k \in Forgotten \/ k \in K
    OBVIOUS
<1>4. \A k \in K : k \notin anew => k \notin Forgotten /\ ~Stale(k) /\ guesses[k] # 0
    BY DEF Stale, Rested
<1> HIDE DEF anew
<1>5. ThrottleTypeOK'
  <2>1. failures' \in [Keys -> Nat] /\ seen' \in [Keys -> Nat] /\ known' \in SUBSET Keys
    BY <1>1, <1>2 DEF ThrottleInv, ThrottleTypeOK
  <2>2. inFlight' \in [Keys -> Nat] /\ guesses' \in [Keys -> Int]
    BY <1>1, <1>2 DEF ThrottleInv, ThrottleTypeOK
  <2>3. start' \in [Keys -> Nat] /\ excused' \in [Keys -> Nat] /\ pruned' \in Int
    BY <1>1, <1>2 DEF ThrottleInv, ThrottleTypeOK
  <2>4. held' \in [Attempts -> SUBSET Keys] /\ counted' \in [Attempts -> SUBSET Keys]
    BY <1>1, <1>2 DEF ThrottleInv, ThrottleTypeOK
  <2> QED BY <1>1, <1>2, <2>1, <2>2, <2>3, <2>4 DEF ThrottleTypeOK
<1>6. ASSUME NEW k \in Keys
      PROVE  /\ k \notin known' => failures'[k] = 0 /\ inFlight'[k] = 0
             /\ guesses'[k] - excused'[k] <= failures'[k] + inFlight'[k]
             /\ start'[k] <= now' /\ seen'[k] <= now'
             /\ LET past == guesses'[k] - Free(k) - 1 - excused'[k]
                IN  past >= 0 => seen'[k] - start'[k] >= Needed[past]
  <2>1. /\ failures[k] \in Nat /\ inFlight[k] \in Nat /\ seen[k] \in Nat
        /\ guesses[k] \in Int /\ start[k] \in Nat /\ excused[k] \in Nat
        /\ Free(k) \in Nat /\ Past(k) \in Int
    BY KeyTypes
  <2>2. /\ guesses[k] - excused[k] <= failures[k] + inFlight[k]
        /\ k \notin known => failures[k] = 0 /\ inFlight[k] = 0
        /\ start[k] <= now /\ seen[k] <= now
    BY DEF ThrottleInv, Covered, Paced
  <2>3. CASE k \in K /\ k \in anew
    <3>1. /\ guesses'[k] = 1 /\ excused'[k] = 0 /\ start'[k] = now /\ seen'[k] = now
          /\ k \in known' /\ inFlight'[k] \in Nat /\ inFlight'[k] >= 1
          /\ failures'[k] \in Nat
      BY <1>1, <2>1, <2>3
    <3>2. 1 - Free(k) - 1 - 0 >= 0 => 1 - Free(k) - 1 - 0 = 0
      BY <2>1
    <3> QED BY <1>1, <1>2, <2>1, <3>1, <3>2, NeededIs
  <2>4. CASE k \in K /\ k \notin anew
    <3>1. k \notin Forgotten /\ ~Stale(k)
      BY <1>4, <2>4
    <3>2. /\ guesses'[k] = guesses[k] + 1 /\ excused'[k] = excused[k]
          /\ start'[k] = start[k] /\ seen'[k] = now /\ k \in known'
      BY <1>1, <2>4
    <3>3. failures'[k] = failures[k] /\ inFlight'[k] = inFlight[k] + 1
      <4>1. CASE k \in Kept
        BY <1>1, <2>4, <3>1, <4>1
      <4>2. CASE k \notin Kept
        <5>1. k \notin known
          BY <3>1, <4>2 DEF Forgotten
        <5> QED BY <1>1, <2>2, <2>4, <4>2, <5>1
      <4> QED BY <4>1, <4>2
    <3>4. guesses'[k] - Free(k) - 1 - excused'[k] = Past(k) + 1
      BY <2>1, <3>2 DEF Past
    <3>5. Past(k) + 1 >= 0 => now - start[k] >= Needed[Past(k) + 1]
      <4> SUFFICES ASSUME Past(k) + 1 >= 0 PROVE now - start[k] >= Needed[Past(k) + 1]
        OBVIOUS
      <4>1. Past(k) + 1 \in Nat
        BY <2>1
      <4> QED BY <1>1, <1>2, <2>4, <3>1, <4>1, AdmittedWaited
    <3> QED BY <1>1, <1>2, <2>1, <2>2, <3>2, <3>3, <3>4, <3>5
  <2>5. CASE k \notin K /\ k \in anew
    <3>1. k \notin Kept
      BY <1>3, <2>5, ForgottenRested
    <3>2. /\ guesses'[k] = 0 /\ excused'[k] = 0 /\ start'[k] = start[k] /\ seen'[k] = seen[k]
          /\ failures'[k] = 0 /\ inFlight'[k] = 0
      BY <1>1, <2>5, <3>1
    <3> QED BY <1>1, <2>1, <2>2, <3>2
  <2>6. CASE k \notin K /\ k \notin anew
    <3>1. /\ guesses'[k] = guesses[k] /\ excused'[k] = excused[k]
          /\ start'[k] = start[k] /\ seen'[k] = seen[k]
      BY <1>1, <2>1, <2>6
    <3>2. failures'[k] = failures[k] /\ inFlight'[k] = inFlight[k]
      <4>1. CASE k \in Kept
        BY <1>1, <2>1, <2>6, <4>1
      <4>2. CASE k \notin Kept
        <5>1. k \notin known
          BY <2>6, <4>2 DEF anew, Forgotten
        <5> QED BY <1>1, <2>2, <2>6, <4>2, <5>1
      <4> QED BY <4>1, <4>2
    <3>3. k \notin known' => failures'[k] = 0 /\ inFlight'[k] = 0
      BY <1>1, <2>6
    <3>4. guesses'[k] - Free(k) - 1 - excused'[k] = Past(k)
      BY <3>1 DEF Past
    <3>5. Past(k) >= 0 => seen[k] - start[k] >= Needed[Past(k)]
      BY DEF ThrottleInv, Paced
    <3> QED BY <1>1, <2>2, <3>1, <3>2, <3>3, <3>4, <3>5
  <2> QED BY <2>3, <2>4, <2>5, <2>6
<1> QED BY <1>5, <1>6, KeepsPace

\* An attempt is refused while entries are pruned.
LEMMA ThrottledStep ==
    ASSUME ThrottleInv, NEW K \in KeySets, Throttled(K)
    PROVE  ThrottleInv'
<1>1. /\ known' = Kept
      /\ failures' = [k \in Keys |-> IF k \in Kept THEN failures[k] ELSE 0]
      /\ inFlight' = [k \in Keys |-> IF k \in Kept THEN inFlight[k] ELSE 0]
      /\ pruned' = now
      /\ counted' = [b \in Attempts |-> counted[b] \ Forgotten]
      /\ guesses' = [k \in Keys |-> IF k \in Forgotten THEN 0 ELSE guesses[k]]
      /\ excused' = [k \in Keys |-> IF k \in Forgotten THEN 0 ELSE excused[k]]
      /\ now' = now /\ seen' = seen /\ held' = held /\ start' = start
    BY DEF Throttled
<1>2. Kept \subseteq known /\ now \in Nat
    BY DEF Kept, ThrottleInv, ThrottleTypeOK
<1>3. ThrottleTypeOK'
    BY <1>1, <1>2 DEF ThrottleInv, ThrottleTypeOK
<1>4. ASSUME NEW k \in Keys
      PROVE  /\ k \notin known' => failures'[k] = 0 /\ inFlight'[k] = 0
             /\ guesses'[k] - excused'[k] <= failures'[k] + inFlight'[k]
             /\ start'[k] <= now' /\ seen'[k] <= now'
             /\ LET past == guesses'[k] - Free(k) - 1 - excused'[k]
                IN  past >= 0 => seen'[k] - start'[k] >= Needed[past]
  <2>1. /\ failures[k] \in Nat /\ inFlight[k] \in Nat /\ guesses[k] \in Int /\ excused[k] \in Nat
        /\ Free(k) \in Nat
    BY KeyTypes
  <2>2. /\ guesses[k] - excused[k] <= failures[k] + inFlight[k]
        /\ k \notin known => failures[k] = 0 /\ inFlight[k] = 0
        /\ start[k] <= now /\ seen[k] <= now
        /\ Past(k) >= 0 => seen[k] - start[k] >= Needed[Past(k)]
    BY DEF ThrottleInv, Covered, Paced
  <2>3. k \notin known' => failures'[k] = 0 /\ inFlight'[k] = 0
    BY <1>1
  <2>4. CASE k \in Forgotten
    <3>1. guesses'[k] = 0 /\ excused'[k] = 0 /\ failures'[k] = 0 /\ inFlight'[k] = 0
      BY <1>1, <2>4, ForgottenRested
    <3> QED BY <1>1, <2>1, <2>2, <3>1
  <2>5. CASE k \notin Forgotten
    <3>1. guesses'[k] = guesses[k] /\ excused'[k] = excused[k]
      BY <1>1, <2>5
    <3>2. failures'[k] = failures[k] /\ inFlight'[k] = inFlight[k]
      BY <1>1, <2>2, <2>5 DEF Forgotten
    <3>3. guesses'[k] - Free(k) - 1 - excused'[k] = Past(k)
      BY <3>1 DEF Past
    <3> QED BY <1>1, <2>2, <2>3, <3>1, <3>2, <3>3
  <2> QED BY <2>4, <2>5
<1> QED BY <1>3, <1>4, KeepsPace

\* A failure takes the place of its reservation.
LEMMA FailureStep ==
    ASSUME ThrottleInv, NEW a \in Attempts, RecordFailure(a)
    PROVE  ThrottleInv'
<1>1. /\ held' = [held EXCEPT ![a] = {}]
      /\ known' = known \cup held[a]
      /\ inFlight' = [k \in Keys |-> IF k \in held[a] THEN Less(inFlight[k]) ELSE inFlight[k]]
      /\ failures' = [k \in Keys |-> IF k \in held[a] THEN failures[k] + 1 ELSE failures[k]]
      /\ seen' = [k \in Keys |-> IF k \in held[a] THEN now ELSE seen[k]]
      /\ counted' = [counted EXCEPT ![a] = {}]
      /\ guesses' = guesses /\ start' = start /\ excused' = excused
      /\ now' = now /\ pruned' = pruned
    BY DEF RecordFailure, Resolve
<1>2. \A n \in Nat : Less(n) \in Nat /\ n <= Less(n) + 1
    BY DEF Less
<1>3. held[a] \subseteq Keys /\ now \in Nat
    BY DEF ThrottleInv, ThrottleTypeOK
<1>4. ThrottleTypeOK'
  <2>1. inFlight' \in [Keys -> Nat] /\ failures' \in [Keys -> Nat] /\ seen' \in [Keys -> Nat]
    BY <1>1, <1>2, <1>3 DEF ThrottleInv, ThrottleTypeOK
  <2> QED BY <1>1, <1>3, <2>1 DEF ThrottleInv, ThrottleTypeOK
<1>5. ASSUME NEW k \in Keys
      PROVE  /\ k \notin known' => failures'[k] = 0 /\ inFlight'[k] = 0
             /\ guesses'[k] - excused'[k] <= failures'[k] + inFlight'[k]
             /\ start'[k] <= now' /\ seen'[k] <= now'
             /\ LET past == guesses'[k] - Free(k) - 1 - excused'[k]
                IN  past >= 0 => seen'[k] - start'[k] >= Needed[past]
  <2>1. /\ failures[k] \in Nat /\ inFlight[k] \in Nat /\ guesses[k] \in Int /\ excused[k] \in Nat
        /\ seen[k] \in Nat /\ Past(k) \in Int
    BY KeyTypes
  <2>2. /\ guesses[k] - excused[k] <= failures[k] + inFlight[k]
        /\ k \notin known => failures[k] = 0 /\ inFlight[k] = 0
        /\ start[k] <= now /\ seen[k] <= now
    BY DEF ThrottleInv, Covered, Paced
  <2>3. /\ guesses'[k] = guesses[k] /\ excused'[k] = excused[k] /\ start'[k] = start[k]
        /\ guesses'[k] - Free(k) - 1 - excused'[k] = Past(k)
    BY <1>1 DEF Past
  <2>4. seen'[k] \in Nat /\ seen[k] <= seen'[k] /\ seen'[k] <= now
    BY <1>1, <1>3, <2>1, <2>2
  <2>5. Past(k) >= 0 => seen'[k] - start[k] >= Needed[Past(k)]
    BY <2>1, <2>4, FewerTakeLess
  <2>6. /\ k \notin known' => failures'[k] = 0 /\ inFlight'[k] = 0
        /\ failures[k] + inFlight[k] <= failures'[k] + inFlight'[k]
        /\ failures'[k] \in Nat /\ inFlight'[k] \in Nat
    BY <1>1, <1>2, <2>1, <2>2
  <2> QED BY <1>1, <2>1, <2>2, <2>3, <2>4, <2>5, <2>6
<1> QED BY <1>4, <1>5, KeepsPace

\* A success forgets its keys.
LEMMA SuccessStep ==
    ASSUME ThrottleInv, NEW a \in Attempts, RecordSuccess(a)
    PROVE  ThrottleInv'
<1>1. /\ held' = [held EXCEPT ![a] = {}]
      /\ known' = known \ held[a]
      /\ inFlight' = [k \in Keys |-> IF k \in held[a] THEN 0 ELSE inFlight[k]]
      /\ failures' = [k \in Keys |-> IF k \in held[a] THEN 0 ELSE failures[k]]
      /\ counted' = [b \in Attempts |-> counted[b] \ held[a]]
      /\ guesses' = [k \in Keys |-> IF k \in held[a] THEN 0 ELSE guesses[k]]
      /\ excused' = [k \in Keys |-> IF k \in held[a] THEN 0 ELSE excused[k]]
      /\ seen' = seen /\ start' = start /\ now' = now /\ pruned' = pruned
    BY DEF RecordSuccess, Resolve
<1>2. ThrottleTypeOK'
    BY <1>1 DEF ThrottleInv, ThrottleTypeOK
<1>3. ASSUME NEW k \in Keys
      PROVE  /\ k \notin known' => failures'[k] = 0 /\ inFlight'[k] = 0
             /\ guesses'[k] - excused'[k] <= failures'[k] + inFlight'[k]
             /\ start'[k] <= now' /\ seen'[k] <= now'
             /\ LET past == guesses'[k] - Free(k) - 1 - excused'[k]
                IN  past >= 0 => seen'[k] - start'[k] >= Needed[past]
  <2>1. Free(k) \in Nat
    BY KeyTypes
  <2>2. /\ guesses[k] - excused[k] <= failures[k] + inFlight[k]
        /\ k \notin known => failures[k] = 0 /\ inFlight[k] = 0
        /\ start[k] <= now /\ seen[k] <= now
        /\ Past(k) >= 0 => seen[k] - start[k] >= Needed[Past(k)]
    BY DEF ThrottleInv, Covered, Paced
  <2>3. CASE k \in held[a]
    <3>1. guesses'[k] = 0 /\ excused'[k] = 0 /\ failures'[k] = 0 /\ inFlight'[k] = 0
      BY <1>1, <2>3
    <3> QED BY <1>1, <2>1, <2>2, <3>1
  <2>4. CASE k \notin held[a]
    <3>1. /\ guesses'[k] = guesses[k] /\ excused'[k] = excused[k]
          /\ failures'[k] = failures[k] /\ inFlight'[k] = inFlight[k]
          /\ guesses'[k] - Free(k) - 1 - excused'[k] = Past(k)
      BY <1>1, <2>4 DEF Past
    <3> QED BY <1>1, <2>2, <2>4, <3>1
  <2> QED BY <2>3, <2>4
<1> QED BY <1>2, <1>3, KeepsPace

\* A reservation is given back: its guess is no longer counted, or it was
\* another's, and that one is excused.
LEMMA ReleaseStep ==
    ASSUME ThrottleInv, NEW a \in Attempts, Release(a)
    PROVE  ThrottleInv'
<1>1. /\ held' = [held EXCEPT ![a] = {}]
      /\ inFlight' = [k \in Keys |-> IF k \in held[a] THEN Less(inFlight[k]) ELSE inFlight[k]]
      /\ known' = known \ {k \in held[a] : failures[k] = 0 /\ inFlight[k] <= 1}
      /\ counted' = [counted EXCEPT ![a] = {}]
      /\ guesses' = [k \in Keys |-> IF k \in counted[a] THEN guesses[k] - 1 ELSE guesses[k]]
      /\ excused' = [k \in Keys |-> IF k \in held[a] \ counted[a] /\ inFlight[k] > 0
                                   THEN excused[k] + 1 ELSE excused[k]]
      /\ failures' = failures /\ seen' = seen /\ start' = start /\ now' = now /\ pruned' = pruned
    BY DEF Release, Resolve
<1>2. \A n \in Nat : /\ Less(n) \in Nat /\ n <= Less(n) + 1 /\ (n <= 1 => Less(n) = 0)
                     /\ (n = 0 => Less(n) = 0)
    BY DEF Less
<1>3. ThrottleTypeOK'
  <2>1. inFlight' \in [Keys -> Nat] /\ guesses' \in [Keys -> Int] /\ excused' \in [Keys -> Nat]
    BY <1>1, <1>2 DEF ThrottleInv, ThrottleTypeOK
  <2> QED BY <1>1, <2>1 DEF ThrottleInv, ThrottleTypeOK
<1>4. ASSUME NEW k \in Keys
      PROVE  /\ k \notin known' => failures'[k] = 0 /\ inFlight'[k] = 0
             /\ guesses'[k] - excused'[k] <= failures'[k] + inFlight'[k]
             /\ start'[k] <= now' /\ seen'[k] <= now'
             /\ LET past == guesses'[k] - Free(k) - 1 - excused'[k]
                IN  past >= 0 => seen'[k] - start'[k] >= Needed[past]
  <2>1. /\ failures[k] \in Nat /\ inFlight[k] \in Nat /\ guesses[k] \in Int /\ excused[k] \in Nat
        /\ seen[k] \in Nat /\ Past(k) \in Int /\ Free(k) \in Nat
    BY KeyTypes
  <2>2. /\ guesses[k] - excused[k] <= failures[k] + inFlight[k]
        /\ k \notin known => failures[k] = 0 /\ inFlight[k] = 0
        /\ start[k] <= now /\ seen[k] <= now
    BY DEF ThrottleInv, Covered, Paced
  <2>3. k \notin known' => failures'[k] = 0 /\ inFlight'[k] = 0
    BY <1>1, <1>2, <2>1, <2>2
  <2>4. CASE k \in held[a] \ counted[a] /\ inFlight[k] > 0
    <3>1. /\ guesses'[k] = guesses[k] /\ excused'[k] = excused[k] + 1
          /\ failures'[k] = failures[k] /\ inFlight'[k] = inFlight[k] - 1
      BY <1>1, <2>1, <2>4 DEF Less
    <3>2. /\ guesses'[k] - Free(k) - 1 - excused'[k] \in Int
          /\ guesses'[k] - Free(k) - 1 - excused'[k] <= Past(k)
      BY <2>1, <3>1 DEF Past
    <3>3. LET past == guesses'[k] - Free(k) - 1 - excused'[k]
          IN  past >= 0 => seen[k] - start[k] >= Needed[past]
      BY <2>1, <3>2, FewerTakeLess
    <3> QED BY <1>1, <2>1, <2>2, <2>3, <3>1, <3>3
  <2>5. CASE k \in counted[a]
    <3>1. /\ guesses'[k] = guesses[k] - 1 /\ excused'[k] = excused[k]
          /\ failures'[k] = failures[k] /\ inFlight'[k] \in Nat /\ inFlight[k] <= inFlight'[k] + 1
      BY <1>1, <1>2, <2>1, <2>5
    <3>2. /\ guesses'[k] - Free(k) - 1 - excused'[k] \in Int
          /\ guesses'[k] - Free(k) - 1 - excused'[k] <= Past(k)
      BY <2>1, <3>1 DEF Past
    <3>3. LET past == guesses'[k] - Free(k) - 1 - excused'[k]
          IN  past >= 0 => seen[k] - start[k] >= Needed[past]
      BY <2>1, <3>2, FewerTakeLess
    <3> QED BY <1>1, <2>1, <2>2, <2>3, <3>1, <3>3
  <2>6. CASE k \notin counted[a] /\ ~(k \in held[a] /\ inFlight[k] > 0)
    <3>1. /\ guesses'[k] = guesses[k] /\ excused'[k] = excused[k]
          /\ failures'[k] = failures[k] /\ inFlight'[k] = inFlight[k]
      BY <1>1, <1>2, <2>1, <2>6
    <3>2. guesses'[k] - Free(k) - 1 - excused'[k] = Past(k)
      BY <3>1 DEF Past
    <3>3. Past(k) >= 0 => seen[k] - start[k] >= Needed[Past(k)]
      BY DEF ThrottleInv, Paced
    <3> QED BY <1>1, <2>2, <2>3, <3>1, <3>2, <3>3
  <2> QED BY <2>4, <2>5, <2>6
<1> QED BY <1>3, <1>4, KeepsPace

\* Time passes, or nothing happens.
LEMMA TickStep ==
    ASSUME ThrottleInv, Tick \/ UNCHANGED throttle
    PROVE  ThrottleInv'
<1>1. /\ UNCHANGED <<known, failures, inFlight, seen, pruned, held, counted, guesses, start, excused>>
      /\ now' = now \/ now' = now + 1
    BY DEF Tick, throttle, countVars, historyVars
<1>2. now \in Nat /\ \A k \in Keys : start[k] \in Nat /\ seen[k] \in Nat
    BY DEF ThrottleInv, ThrottleTypeOK
<1>3. ThrottleTypeOK' /\ Covered'
    BY <1>1, <1>2 DEF ThrottleInv, ThrottleTypeOK, Covered
<1>4. Paced'
    BY <1>1, <1>2 DEF ThrottleInv, Paced, Past, Free
<1> QED BY <1>3, <1>4 DEF ThrottleInv

\* Every state of every behaviour is covered and paced.
LEMMA ThrottleInvariant == ThrottleSpec => []ThrottleInv
<1>1. ThrottleInit => ThrottleInv
  <2> SUFFICES ASSUME ThrottleInit PROVE ThrottleInv
    OBVIOUS
  <2>1. ThrottleTypeOK
    BY ThrottleAssumption DEF ThrottleInit, ThrottleTypeOK
  <2>2. \A k \in Keys : Free(k) \in Nat
    BY ThrottleAssumption DEF Free
  <2>3. \A k \in Keys : /\ guesses[k] = 0 /\ excused[k] = 0 /\ failures[k] = 0 /\ inFlight[k] = 0
                        /\ start[k] = 0 /\ seen[k] = 0 /\ now = 0
    BY DEF ThrottleInit
  <2>4. Covered
    BY <2>3 DEF Covered
  <2>5. Paced
    BY <2>2, <2>3 DEF Paced, Past
  <2> QED BY <2>1, <2>4, <2>5 DEF ThrottleInv
<1>2. ThrottleInv /\ [ThrottleNext]_throttle => ThrottleInv'
    BY BeginAttempt, ThrottledStep, FailureStep, SuccessStep, ReleaseStep, TickStep
       DEF ThrottleNext
<1> QED BY <1>1, <1>2, PTL DEF ThrottleSpec

\* However many password checks are in flight at once, and however they end,
\* the guesses LoginThrottle::begin admits for a key beyond the free ones and
\* one more have taken the sum of the doubling delays.
THEOREM GuessingIsSlow == ThrottleSpec => []GuessesAreSlow
<1>1. ThrottleInv => GuessesAreSlow
  <2> SUFFICES ASSUME ThrottleInv, NEW k \in Keys, Past(k) > 0
               PROVE  now - start[k] >= Needed[Past(k)]
    BY DEF GuessesAreSlow, Past
  <2>1. now \in Nat /\ seen[k] <= now /\ Past(k) \in Int
    BY KeyTypes DEF ThrottleInv, Paced
  <2>2. Past(k) >= 0 => now - start[k] >= Needed[Past(k)]
    BY <2>1, FewerTakeLess
  <2> QED BY <2>1, <2>2
<1> QED BY <1>1, ThrottleInvariant, PTL
=============================================================================
