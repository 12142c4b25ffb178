---------------------------- MODULE NumbersProofs ----------------------------
(***************************************************************************)
(* Proofs about Numbers, for every set of numbers, accounts, requests and  *)
(* vouchers and every bound.                                               *)
(***************************************************************************)
EXTENDS Numbers, TLAPS

-----------------------------------------------------------------------------
(* The inductive invariant. *)

\* What every request that has been asked carries.
Fields(q) ==
  /\ q.op # "idle" /\ q.who \in Person
  /\ q.op # "burn" => q.n \in Uin
  /\ q.op # "register" => q.me \in Uin
  /\ q.op = "redeem" => q.voucher \in Nonce

ReqOK ==
  /\ req \in [Request -> {req[r] : r \in Request}]
  /\ \A r \in Request : req[r] = Idle \/ Fields(req[r])
  /\ offers \in Nat /\ stale \in BOOLEAN /\ seized \in BOOLEAN

\* An account that is still being registered is on no number, and no other
\* request speaks for it.
NewcomersAbsent ==
  \A r \in Request : req[r].op = "register" =>
    /\ \A n \in Uin : user[n] # req[r].who
    /\ \A s \in Request \ {r} : req[s] # Idle => req[s].who # req[r].who

Injective(u) == \A m, n \in Uin : (u[m] # None /\ u[m] = u[n]) => m = n

\* Every deed names a number somebody answers as; who answers as a number with
\* a deed has the deed; and a number whose deed names itself is not listed.
Orderly(u, d, s) ==
  /\ \A n \in Uin : d[n] # None => u[d[n]] # None
  /\ \A n \in Uin : (u[n] # None /\ d[n] # None) => u[d[n]] = u[n]
  /\ \A n \in Uin : d[n] = n => s[n] = None

\* Whoever a number belongs to answers as it, and it is scarce, or has its deed.
Titled(u, d, t) ==
  \A n \in Uin : t[n] # None =>
    \/ u[n] = t[n] /\ n \in Scarce
    \/ d[n] # None /\ u[d[n]] = t[n]

Bodies == ReqOK /\ NewcomersAbsent /\ (~seized => Injective(user))

Hands == ~stale => ~seized /\ Orderly(user, deed, seller) /\ Titled(user, deed, title)

IInv == TypeOK /\ Bodies /\ Hands

Users == [Uin -> Person \cup {None}]
Owners == [Uin -> Uin \cup {None}]

-----------------------------------------------------------------------------
(* What a move does to the tables. *)

\* rekey_uin_rows and the stamp of the number left behind give tables of the
\* same type.
LEMMA MoveTypes ==
  ASSUME NEW d \in Owners, NEW old \in Uin, NEW new \in Uin \cup {None}
  PROVE  /\ Rekey(d, old, new) \in Owners
         /\ new \in Uin => Vacate(d, old, new) \in Owners
         /\ new \in Uin => \A n \in Uin : d[n] # None => Vacate(d, old, new)[n] # None
<1>1. Rekey(d, old, new) \in Owners
  BY Zenon DEF Rekey, Owners
<1>2. ASSUME new \in Uin
      PROVE \A n \in Uin : d[n] # None => Rekey(d, old, new)[n] # None
  BY Zenon, <1>2, NumbersAssumption DEF Rekey, Owners
<1>3. ASSUME new \in Uin
      PROVE Vacate(d, old, new) \in Owners
  BY Zenon, <1>1, <1>3 DEF Vacate, Owners
<1>4. ASSUME new \in Uin
      PROVE \A n \in Uin : d[n] # None => Vacate(d, old, new)[n] # None
  BY Zenon, <1>1, <1>2, <1>4, NumbersAssumption DEF Vacate, Owners
<1> QED
  BY Zenon, <1>1, <1>3, <1>4

\* A move of _perform_migration, written with u, d, s and t for the tables.
LEMMA MoveTables ==
  ASSUME NEW u \in Users, NEW d \in Owners, NEW old \in Uin, NEW new \in Uin,
         NEW p \in Person, u[old] = p, u[new] = None, Injective(u),
         \A n \in Uin : (u[n] # None /\ d[n] # None) => u[d[n]] = u[n]
  PROVE  LET v == Vacate(d, old, new) IN
         /\ new # old
         /\ \A n \in Uin : d[n] = old => v[n] = new
         /\ \A n \in Uin : d[n] # None /\ d[n] # old => v[n] = d[n]
         /\ \A n \in Uin : d[n] = None => v[n] = None \/ (n = old /\ n \in Scarce /\ v[n] = new)
         /\ old \in Scarce => v[old] = new
         /\ d[old] # None => d[old] = old
<1> DEFINE k == Rekey(d, old, new)
<1>1. /\ k \in Owners
      /\ \A n \in Uin : k[n] = IF d[n] = old THEN new ELSE d[n]
  BY Zenon DEF Rekey, Owners
<1>2. p # None /\ old # None /\ new # None /\ new # old
  BY Zenon, NumbersAssumption
<1>3. d[old] # None => d[old] = old
  BY Zenon, <1>2 DEF Injective, Owners
<1>4. Vacate(d, old, new) = IF k[old] = None /\ old \in Scarce THEN [k EXCEPT ![old] = new] ELSE k
  BY Zenon DEF Vacate
<1>5. CASE k[old] = None /\ old \in Scarce
  <2> Vacate(d, old, new) = [k EXCEPT ![old] = new]
    BY Zenon, <1>4, <1>5
  <2> QED
    BY Zenon, <1>1, <1>2, <1>3, <1>5 DEF Owners
<1>6. CASE ~(k[old] = None /\ old \in Scarce)
  <2> Vacate(d, old, new) = k
    BY Zenon, <1>4, <1>6
  <2> HIDE DEF k
  <2> QED
    BY Zenon, <1>1, <1>2, <1>3, <1>6 DEF Owners
<1> QED
  BY Zenon, <1>5, <1>6

\* A move keeps every account on one number.
LEMMA MoveInjective ==
  ASSUME NEW u \in Users, NEW old \in Uin, NEW new \in Uin, NEW p \in Person,
         u[old] = p, u[new] = None, Injective(u)
  PROVE  Injective([u EXCEPT ![new] = p, ![old] = None])
BY Zenon, NumbersAssumption DEF Injective, Users

\* A move keeps the deeds in order, if the number moved to is nobody else's and
\* not on the market when it is the mover's own.
LEMMA MoveOrderly ==
  ASSUME NEW u \in Users, NEW d \in Owners, NEW s \in Owners,
         NEW old \in Uin, NEW new \in Uin, NEW p \in Person,
         u[old] = p, u[new] = None, Injective(u), Orderly(u, d, s),
         d[new] \in {None, old}, d[new] = old => s[new] = None
  PROVE  Orderly([u EXCEPT ![new] = p, ![old] = None], Vacate(d, old, new), Rekey(s, old, new))
<1> DEFINE v == Vacate(d, old, new)
           w == [u EXCEPT ![new] = p, ![old] = None]
           z == Rekey(s, old, new)
<1>1. /\ new # old
      /\ \A n \in Uin : d[n] = old => v[n] = new
      /\ \A n \in Uin : d[n] # None /\ d[n] # old => v[n] = d[n]
      /\ \A n \in Uin : d[n] = None => v[n] = None \/ (n = old /\ n \in Scarce /\ v[n] = new)
  BY MoveTables DEF Orderly
<1>2. w[new] = p /\ w[old] = None /\ (\A n \in Uin : n \notin {old, new} => w[n] = u[n])
  BY Zenon, <1>1 DEF Users
<1>3. p # None /\ None \notin Uin
  BY Zenon, NumbersAssumption
<1>4. \A n \in Uin : s[n] = None => z[n] = None
  BY Zenon, <1>3 DEF Rekey, Owners
<1> HIDE DEF v, w, z
<1>5. \A n \in Uin : v[n] # None => w[v[n]] # None
  BY <1>1, <1>2, <1>3 DEF Orderly, Owners
<1>6. ASSUME NEW n \in Uin, w[n] # None, v[n] # None
      PROVE  w[v[n]] = w[n]
  <2>1. n # old
    BY Zenon, <1>2, <1>6
  <2>2. CASE n = new
    <3>1. d[new] = old
      BY Zenon, <1>1, <1>6, <2>1, <2>2
    <3> QED
      BY Zenon, <1>1, <1>2, <2>2, <3>1
  <2>3. CASE n # new
    <3>1. w[n] = u[n] /\ u[n] # None
      BY Zenon, <1>2, <1>6, <2>1, <2>3
    <3>2. d[n] # None
      BY Zenon, <1>1, <1>6, <2>1
    <3>3. u[d[n]] = u[n] /\ d[n] \in Uin
      BY Zenon, <3>1, <3>2 DEF Orderly, Owners
    <3>4. d[n] # old /\ d[n] # new
      BY Zenon, <1>3, <2>1, <3>1, <3>3 DEF Injective
    <3> QED
      BY Zenon, <1>1, <1>2, <3>1, <3>2, <3>3, <3>4
  <2> QED
    BY Zenon, <2>2, <2>3
<1>7. ASSUME NEW n \in Uin, v[n] = n
      PROVE  z[n] = None
  BY <1>1, <1>3, <1>4, <1>7 DEF Orderly, Owners
<1> QED
  BY <1>5, <1>6, <1>7, Zenon DEF Orderly, v, w, z

\* A move takes what the mover has along.
LEMMA MoveTitled ==
  ASSUME NEW u \in Users, NEW d \in Owners, NEW t \in Users,
         NEW old \in Uin, NEW new \in Uin, NEW p \in Person,
         u[old] = p, u[new] = None, Injective(u), Titled(u, d, t),
         \A n \in Uin : d[n] # None => u[d[n]] # None,
         \A n \in Uin : (u[n] # None /\ d[n] # None) => u[d[n]] = u[n]
  PROVE  Titled([u EXCEPT ![new] = p, ![old] = None], Vacate(d, old, new), t)
<1> DEFINE v == Vacate(d, old, new)
           w == [u EXCEPT ![new] = p, ![old] = None]
<1>1. /\ new # old
      /\ \A n \in Uin : d[n] = old => v[n] = new
      /\ \A n \in Uin : d[n] # None /\ d[n] # old => v[n] = d[n]
      /\ old \in Scarce => v[old] = new
  BY MoveTables
<1>2. w[new] = p /\ w[old] = None /\ (\A n \in Uin : n \notin {old, new} => w[n] = u[n])
  BY Zenon, <1>1 DEF Users
<1>3. p # None /\ None \notin Uin
  BY Zenon, NumbersAssumption
<1> HIDE DEF v, w
<1>4. ASSUME NEW n \in Uin, t[n] # None, u[n] = t[n], n \in Scarce
      PROVE  (w[n] = t[n] /\ n \in Scarce) \/ (v[n] # None /\ w[v[n]] = t[n])
  BY Zenon, <1>1, <1>2, <1>3, <1>4
<1>5. ASSUME NEW n \in Uin, t[n] # None, d[n] # None, u[d[n]] = t[n]
      PROVE  v[n] # None /\ w[v[n]] = t[n]
  BY ZenonT(30), <1>1, <1>2, <1>3, <1>5 DEF Owners
<1> QED
  BY <1>4, <1>5, Zenon DEF Titled, v, w

-----------------------------------------------------------------------------
(* What the other writes do to the tables. *)

\* A newcomer on a number that nobody is on and that has no deed.
LEMMA NewcomerTables ==
  ASSUME NEW u \in Users, NEW d \in Owners, NEW s \in Owners, NEW t \in Users,
         NEW n \in Uin, NEW p \in Person, u[n] = None, d[n] = None,
         Orderly(u, d, s), Titled(u, d, t)
  PROVE  LET w == [u EXCEPT ![n] = p] IN
         /\ Orderly(w, d, s)
         /\ Titled(w, d, IF n \in Scarce THEN [t EXCEPT ![n] = p] ELSE t)
<1> DEFINE w == [u EXCEPT ![n] = p]
           x == IF n \in Scarce THEN [t EXCEPT ![n] = p] ELSE t
<1>1. w[n] = p /\ (\A m \in Uin : m # n => w[m] = u[m])
  BY Zenon DEF Users
<1>2. t[n] = None
  BY Zenon DEF Titled
<1>3. (n \in Scarce => x[n] = p) /\ (n \notin Scarce => x[n] = None) /\ (\A m \in Uin : m # n => x[m] = t[m])
  BY Zenon, <1>2 DEF Users
<1> HIDE DEF w, x
<1>4. ASSUME NEW m \in Uin, d[m] # None
      PROVE  m # n /\ d[m] \in Uin /\ d[m] # n /\ w[m] = u[m] /\ w[d[m]] = u[d[m]] /\ u[d[m]] # None
  <2>1. m # n /\ d[m] \in Uin /\ u[d[m]] # None
    BY Zenon, <1>4 DEF Orderly, Owners
  <2> QED
    BY Zenon, <1>1, <2>1
<1>5. \A m \in Uin : d[m] # None => w[d[m]] # None
  BY Zenon, <1>4
<1>6. \A m \in Uin : (w[m] # None /\ d[m] # None) => w[d[m]] = w[m]
  BY Zenon, <1>4 DEF Orderly
<1>7. \A m \in Uin : d[m] = m => s[m] = None
  BY Zenon DEF Orderly
<1>8. ASSUME NEW m \in Uin, x[m] # None
      PROVE  (w[m] = x[m] /\ m \in Scarce) \/ (d[m] # None /\ w[d[m]] = x[m])
  <2>1. CASE m = n
    BY Zenon, <1>1, <1>3, <1>8, <2>1
  <2>2. CASE m # n
    <3>1. x[m] = t[m] /\ w[m] = u[m]
      BY Zenon, <1>1, <1>3, <2>2
    <3>2. (u[m] = t[m] /\ m \in Scarce) \/ (d[m] # None /\ u[d[m]] = t[m])
      BY Zenon, <1>8, <3>1 DEF Titled
    <3> QED
      BY Zenon, <1>4, <3>1, <3>2
  <2> QED
    BY Zenon, <2>1, <2>2
<1>9. Orderly(w, d, s)
  BY Zenon, <1>5, <1>6, <1>7 DEF Orderly
<1>10. Titled(w, d, x)
  BY Zenon, <1>8 DEF Titled
<1> QED
  BY Zenon, <1>9, <1>10 DEF w, x

\* A deed to a number that nobody is on, for somebody who answers as another.
LEMMA GiveTables ==
  ASSUME NEW u \in Users, NEW d \in Owners, NEW s \in Owners, NEW z \in Owners, NEW t \in Users,
         NEW n \in Uin, NEW me \in Uin, u[n] = None, u[me] # None,
         \A m \in Uin : s[m] = None => z[m] = None,
         Orderly(u, d, s), Titled(u, d, t)
  PROVE  /\ Orderly(u, [d EXCEPT ![n] = me], z)
         /\ Titled(u, [d EXCEPT ![n] = me], [t EXCEPT ![n] = u[me]])
<1> DEFINE v == [d EXCEPT ![n] = me]
           x == [t EXCEPT ![n] = u[me]]
<1>1. v[n] = me /\ (\A m \in Uin : m # n => v[m] = d[m]) /\ x[n] = u[me] /\ (\A m \in Uin : m # n => x[m] = t[m])
  BY Zenon DEF Users, Owners
<1>2. me # None /\ me # n
  BY Zenon, NumbersAssumption
<1> HIDE DEF v, x
<1>3. ASSUME NEW m \in Uin
      PROVE  /\ v[m] # None => u[v[m]] # None
             /\ (u[m] # None /\ v[m] # None) => u[v[m]] = u[m]
             /\ v[m] = m => z[m] = None
             /\ x[m] # None => (u[m] = x[m] /\ m \in Scarce) \/ (v[m] # None /\ u[v[m]] = x[m])
  <2>1. CASE m = n
    BY Zenon, <1>1, <1>2, <2>1
  <2>2. CASE m # n
    <3>1. v[m] = d[m] /\ x[m] = t[m]
      BY Zenon, <1>1, <2>2
    <3>2. /\ d[m] # None => u[d[m]] # None
          /\ (u[m] # None /\ d[m] # None) => u[d[m]] = u[m]
          /\ d[m] = m => z[m] = None
      BY Zenon DEF Orderly
    <3>3. t[m] # None => (u[m] = t[m] /\ m \in Scarce) \/ (d[m] # None /\ u[d[m]] = t[m])
      BY Zenon DEF Titled
    <3> QED
      BY Zenon, <3>1, <3>2, <3>3
  <2> QED
    BY Zenon, <2>1, <2>2
<1>4. Orderly(u, v, z)
  BY Zenon, <1>3 DEF Orderly
<1>5. Titled(u, v, x)
  BY Zenon, <1>3 DEF Titled
<1> QED
  BY Zenon, <1>4, <1>5 DEF v, x

\* A deed its holder gives up.
LEMMA ReleaseTables ==
  ASSUME NEW u \in Users, NEW d \in Owners, NEW s \in Owners, NEW t \in Users,
         NEW n \in Uin, NEW p \in Person, u[d[n]] = p, Orderly(u, d, s), Titled(u, d, t)
  PROVE  /\ Orderly(u, [d EXCEPT ![n] = None], s)
         /\ Titled(u, [d EXCEPT ![n] = None], [t EXCEPT ![n] = IF @ = p THEN None ELSE @])
<1> DEFINE v == [d EXCEPT ![n] = None]
           x == [t EXCEPT ![n] = IF @ = p THEN None ELSE @]
<1>1. /\ v[n] = None /\ (\A m \in Uin : m # n => v[m] = d[m])
      /\ x[n] = (IF t[n] = p THEN None ELSE t[n]) /\ (\A m \in Uin : m # n => x[m] = t[m])
  BY Zenon DEF Users, Owners
<1>2. None \notin Uin
  BY Zenon, NumbersAssumption
<1> HIDE DEF v, x
<1>3. ASSUME NEW m \in Uin
      PROVE  /\ v[m] # None => u[v[m]] # None
             /\ (u[m] # None /\ v[m] # None) => u[v[m]] = u[m]
             /\ v[m] = m => s[m] = None
             /\ x[m] # None => (u[m] = x[m] /\ m \in Scarce) \/ (v[m] # None /\ u[v[m]] = x[m])
  <2>1. /\ d[m] # None => u[d[m]] # None
        /\ (u[m] # None /\ d[m] # None) => u[d[m]] = u[m]
        /\ d[m] = m => s[m] = None
    BY Zenon DEF Orderly
  <2>2. t[m] # None => (u[m] = t[m] /\ m \in Scarce) \/ (d[m] # None /\ u[d[m]] = t[m])
    BY Zenon DEF Titled
  <2>3. CASE m = n
    BY Zenon, <1>1, <1>2, <2>2, <2>3
  <2>4. CASE m # n
    <3>1. v[m] = d[m] /\ x[m] = t[m]
      BY Zenon, <1>1, <2>4
    <3> QED
      BY Zenon, <2>1, <2>2, <3>1
  <2> QED
    BY Zenon, <2>3, <2>4
<1>4. Orderly(u, v, s)
  BY Zenon, <1>3 DEF Orderly
<1>5. Titled(u, v, x)
  BY Zenon, <1>3 DEF Titled
<1> QED
  BY Zenon, <1>4, <1>5 DEF v, x

\* An account burnt with everything that names its number.
LEMMA BurnTables ==
  ASSUME NEW u \in Users, NEW d \in Owners, NEW s \in Owners, NEW t \in Users,
         NEW me \in Uin, NEW p \in Person, u[me] = p, Orderly(u, d, s), Titled(u, d, t)
  PROVE  /\ Orderly([u EXCEPT ![me] = None], Rekey(d, me, None), Rekey(s, me, None))
         /\ Titled([u EXCEPT ![me] = None], Rekey(d, me, None), Rekey(t, p, None))
<1> DEFINE w == [u EXCEPT ![me] = None]
           v == Rekey(d, me, None)
           z == Rekey(s, me, None)
           x == Rekey(t, p, None)
<1>1. /\ w[me] = None /\ (\A m \in Uin : m # me => w[m] = u[m])
      /\ \A m \in Uin : v[m] = IF d[m] = me THEN None ELSE d[m]
      /\ \A m \in Uin : z[m] = IF s[m] = me THEN None ELSE s[m]
      /\ \A m \in Uin : x[m] = IF t[m] = p THEN None ELSE t[m]
  BY Zenon DEF Rekey, Users
<1>2. None \notin Uin
  BY Zenon, NumbersAssumption
<1> HIDE DEF w, v, z, x
<1>3. ASSUME NEW m \in Uin
      PROVE  /\ v[m] # None => w[v[m]] # None
             /\ (w[m] # None /\ v[m] # None) => w[v[m]] = w[m]
             /\ v[m] = m => z[m] = None
             /\ x[m] # None => (w[m] = x[m] /\ m \in Scarce) \/ (v[m] # None /\ w[v[m]] = x[m])
  <2>1. /\ d[m] # None => u[d[m]] # None /\ d[m] \in Uin
        /\ (u[m] # None /\ d[m] # None) => u[d[m]] = u[m]
        /\ d[m] = m => s[m] = None
    BY Zenon DEF Orderly, Owners
  <2>2. t[m] # None => (u[m] = t[m] /\ m \in Scarce) \/ (d[m] # None /\ u[d[m]] = t[m])
    BY Zenon DEF Titled
  <2>3. v[m] # None => v[m] = d[m] /\ w[d[m]] = u[d[m]]
    BY Zenon, <1>1, <2>1
  <2>4. w[m] # None => w[m] = u[m]
    BY Zenon, <1>1
  <2>5. v[m] = m => z[m] = None
    BY Zenon, <1>1, <1>2, <2>1, <2>3
  <2>6. ASSUME x[m] # None PROVE (w[m] = x[m] /\ m \in Scarce) \/ (v[m] # None /\ w[v[m]] = x[m])
    <3>1. x[m] = t[m] /\ t[m] # p /\ t[m] # None
      BY Zenon, <1>1, <2>6
    <3>2. CASE u[m] = t[m] /\ m \in Scarce
      BY Zenon, <1>1, <3>1, <3>2
    <3>3. CASE d[m] # None /\ u[d[m]] = t[m]
      <4>1. d[m] # me /\ v[m] = d[m]
        BY Zenon, <1>1, <3>1, <3>3
      <4> QED
        BY Zenon, <2>3, <3>1, <3>3, <4>1
    <3> QED
      BY Zenon, <2>2, <3>1, <3>2, <3>3
  <2> QED
    BY Zenon, <2>1, <2>3, <2>4, <2>5, <2>6
<1>4. Orderly(w, v, z)
  BY Zenon, <1>3 DEF Orderly
<1>5. Titled(w, v, x)
  BY Zenon, <1>3 DEF Titled
<1> QED
  BY Zenon, <1>4, <1>5 DEF w, v, z, x

-----------------------------------------------------------------------------
(* Requests. *)

\* A request names an account that is there, and everyone but a newcomer the
\* number it answers as.
LEMMA AskedFields ==
  ASSUME TypeOK, NEW q \in Asked
  PROVE  Fields(q) /\ (q.op # "register" => q.who = user[q.me])
<1> DEFINE on == {m \in Uin : user[m] # None}
<1>1. \A m \in on : m \in Uin /\ user[m] \in Person
  BY Zenon DEF TypeOK
<1>2. \A v \in Nonce : Voucher[v].uin \in Uin
  BY Zenon, NumbersAssumption
<1> HIDE DEF on
<1>3. CASE q \in {[op |-> "register", who |-> p, n |-> n, invite |-> i] :
                    p \in Person, n \in Uin, i \in promised \cup {None}}
  BY <1>3 DEF Fields
<1>4. CASE q \in {[op |-> o, who |-> user[m], me |-> m, n |-> n] :
                    o \in {"migrate", "activate", "release", "delist", "grant"}, m \in on, n \in Uin}
  BY <1>1, <1>4 DEF Fields
<1>5. CASE q \in {[op |-> "claim", who |-> user[m], me |-> m, n |-> n, switch |-> s] :
                    m \in on, n \in Uin, s \in BOOLEAN}
  BY <1>1, <1>5 DEF Fields
<1>6. CASE q \in {[op |-> "redeem", who |-> user[m], me |-> m, n |-> Voucher[v].uin, voucher |-> v,
                   seller |-> seller[Voucher[v].uin], switch |-> s] : m \in on, v \in Nonce, s \in BOOLEAN}
  BY <1>1, <1>2, <1>6 DEF Fields
<1>7. CASE q \in {[op |-> "list", who |-> user[m], me |-> m, n |-> n, reprice |-> Listed(n)] :
                    m \in on, n \in Uin}
  BY <1>1, <1>7 DEF Fields
<1>8. CASE q \in {[op |-> "burn", who |-> user[m], me |-> m] : m \in on}
  BY <1>1, <1>8 DEF Fields
<1> QED
  BY <1>3, <1>4, <1>5, <1>6, <1>7, <1>8 DEF Asked, on

\* A request that is not idle carries its fields.
LEMMA PendingFields ==
  ASSUME ReqOK, NEW r \in Request, req[r].op # "idle"
  PROVE  Fields(req[r])
BY DEF ReqOK, Idle

-----------------------------------------------------------------------------
(* Types. *)

LEMMA PerformMigrationTypes ==
  ASSUME TypeOK, NEW r \in Request, NEW q, q.me \in Uin, q.n \in Uin, q.who \in Person,
         NEW d \in Owners, NEW s \in Owners, PerformMigration(r, q, d, s)
  PROVE  /\ user' \in Users /\ deed' \in Owners /\ seller' \in Owners
         /\ \A n \in Uin : d[n] # None => deed'[n] # None
<1>1. user' \in Users
  BY Zenon DEF PerformMigration, TypeOK, Users
<1>2. deed' = Vacate(d, q.me, q.n) /\ seller' = Rekey(s, q.me, q.n)
  BY Zenon DEF PerformMigration
<1> QED
  BY <1>1, <1>2, MoveTypes, Zenon

LEMMA InitTypes == Init => TypeOK
BY NumbersAssumption DEF Init, TypeOK

LEMMA StepTypes ==
  ASSUME TypeOK, ReqOK, Next
  PROVE  TypeOK'
<1> deed \in Owners /\ seller \in Owners /\ user \in Users
  BY Zenon DEF TypeOK, Owners, Users
<1>1. ASSUME NEW r \in Request, Begin(r) PROVE TypeOK'
  BY Zenon, <1>1 DEF Begin, TypeOK, market, history
<1>2. ASSUME NEW r \in Request, Abort(r) PROVE TypeOK'
  BY Zenon, <1>2 DEF Abort, TypeOK, market, history
<1>3. ASSUME NEW r \in Request, Register(r) PROVE TypeOK'
  <2>1. Fields(req[r])
    BY Zenon, <1>3, PendingFields DEF Register, Settled
  <2> QED
    BY Zenon, <1>3, <2>1 DEF Register, Settled, Fields, TypeOK, market
<1>4. ASSUME NEW r \in Request, Migrate(r) \/ Activate(r) PROVE TypeOK'
  <2>1. Fields(req[r]) /\ req[r].op \in {"migrate", "activate"}
    BY Zenon, <1>4, PendingFields DEF Migrate, Activate, Settled
  <2>2. /\ PerformMigration(r, req[r], deed, seller)
        /\ UNCHANGED <<paid, hold, lapsed, offer, promised, spent, title, handed>>
    BY Zenon, <1>4 DEF Migrate, Activate
  <2>3. /\ user' \in Users /\ deed' \in Owners /\ seller' \in Owners
        /\ \A n \in Uin : deed[n] # None => deed'[n] # None
    BY Zenon, <2>1, <2>2, PerformMigrationTypes DEF Fields
  <2> QED
    BY Zenon, <2>2, <2>3 DEF TypeOK, Users, Owners
<1>5. ASSUME NEW r \in Request, Claim(r) PROVE TypeOK'
  <2>1. Fields(req[r]) /\ req[r].op = "claim"
    BY Zenon, <1>5, PendingFields DEF Claim, Settled
  <2>2. UNCHANGED <<paid, hold, lapsed, offer, promised, spent, handed>>
    BY Zenon, <1>5 DEF Claim
  <2>3. CASE req[r].switch
    <3>1. PerformMigration(r, req[r], deed, seller) /\ title' = title
      BY Zenon, <1>5, <2>3 DEF Claim
    <3>2. /\ user' \in Users /\ deed' \in Owners /\ seller' \in Owners
          /\ \A n \in Uin : deed[n] # None => deed'[n] # None
      BY Zenon, <2>1, <3>1, PerformMigrationTypes DEF Fields
    <3> QED
      BY Zenon, <2>2, <3>1, <3>2 DEF TypeOK, Users, Owners
  <2>4. CASE ~req[r].switch
    <3>1. /\ deed' = [deed EXCEPT ![req[r].n] = req[r].me] /\ seller' = seller /\ user' = user
          /\ title' = [title EXCEPT ![req[r].n] = req[r].who]
      BY Zenon, <1>5, <2>4 DEF Claim, Stay
    <3> QED
      BY Zenon, <2>1, <2>2, <3>1, NumbersAssumption DEF TypeOK, Fields
  <2> QED
    BY ZenonT(30), <2>3, <2>4
<1>6. ASSUME NEW r \in Request, Redeem(r) PROVE TypeOK'
  <2> DEFINE q == req[r]
             d == [deed EXCEPT ![q.n] = q.me]
             s == IF q.seller = None THEN seller ELSE [seller EXCEPT ![q.n] = None]
  <2>1. Fields(q) /\ q.op = "redeem"
    BY Zenon, <1>6, PendingFields DEF Redeem, Settled
  <2>2. /\ spent' = spent \cup {q.voucher} /\ paid' = paid \cup {q.n}
        /\ hold' = [hold EXCEPT ![q.n] = None] /\ lapsed' = lapsed \ {q.n}
        /\ title' = [title EXCEPT ![q.n] = q.who]
        /\ handed' = [handed EXCEPT ![q.voucher] = @ + 1]
        /\ UNCHANGED <<offer, promised>>
    BY Zenon, <1>6 DEF Redeem
  <2>3. IF q.switch THEN PerformMigration(r, q, d, s) ELSE Stay(d, s)
    BY Zenon, <1>6 DEF Redeem
  <2>4. d \in Owners /\ s \in Owners
    BY Zenon, <2>1 DEF Fields, Owners
  <2>5. d[q.n] # None /\ \A n \in Uin : deed[n] # None => d[n] # None
    BY Zenon, <2>1, NumbersAssumption DEF Fields, Owners
  <2> HIDE DEF d, s
  <2>6. /\ user' \in Users /\ deed' \in Owners /\ seller' \in Owners
        /\ \A n \in Uin : d[n] # None => deed'[n] # None
    <3>1. CASE q.switch
      BY Zenon, <2>1, <2>3, <2>4, <3>1, PerformMigrationTypes DEF Fields
    <3>2. CASE ~q.switch
      BY Zenon, <2>3, <2>4, <3>2 DEF Stay
    <3> QED
      BY Zenon, <3>1, <3>2
  <2>7. paid' \subseteq {n \in Uin : deed'[n] # None}
    BY Zenon, <2>1, <2>2, <2>5, <2>6 DEF TypeOK, Fields
  <2>8. hold' \in [Uin -> HoldId \cup {None}] /\ lapsed' \subseteq {n \in Uin : hold'[n] # None}
    BY Zenon, <2>1, <2>2 DEF TypeOK, Fields
  <2>9. title' \in Users /\ handed' \in [Nonce -> Nat] /\ spent' \subseteq Nonce
    BY <2>1, <2>2 DEF TypeOK, Fields, Users
  <2> QED
    BY Zenon, <2>2, <2>6, <2>7, <2>8, <2>9 DEF TypeOK, Users, Owners
<1>7. ASSUME NEW r \in Request, Release(r) PROVE TypeOK'
  <2>1. Fields(req[r]) /\ req[r].op = "release"
    BY Zenon, <1>7, PendingFields DEF Release, Settled
  <2> QED
    BY Zenon, <1>7, <2>1 DEF Release, Fields, TypeOK, market
<1>8. ASSUME NEW r \in Request, CreateListing(r) PROVE TypeOK'
  <2>1. Fields(req[r]) /\ req[r].op = "list"
    BY Zenon, <1>8, PendingFields DEF CreateListing, Settled
  <2>2. offers + 1 \in 0..MaxOffer
    BY <1>8, NumbersAssumption DEF CreateListing, ReqOK
  <2> QED
    BY Zenon, <1>8, <2>1, <2>2 DEF CreateListing, Fields, TypeOK
<1>9. ASSUME NEW r \in Request, DeleteListing(r) PROVE TypeOK'
  BY <1>9, ZenonT(30) DEF DeleteListing, TypeOK
<1>10. ASSUME NEW r \in Request, PurgeAccount(r) PROVE TypeOK'
  <2>1. Fields(req[r]) /\ req[r].op = "burn"
    BY <1>10, PendingFields, Zenon DEF PurgeAccount, Settled
  <2> QED
    BY Zenon, <1>10, <2>1 DEF PurgeAccount, Rekey, Fields, TypeOK
<1>11. ASSUME NEW r \in Request, Grant(r) PROVE TypeOK'
  <2>1. Fields(req[r]) /\ req[r].op = "grant"
    BY Zenon, <1>11, PendingFields DEF Grant, Settled
  <2> QED
    BY Zenon, <1>11, <2>1, NumbersAssumption DEF Grant, Fields, TypeOK, market
<1>12. ASSUME NEW n \in Shelf, Operate(n) PROVE TypeOK'
  <2>1. n \in Uin
    BY Zenon, NumbersAssumption
  <2>2. ASSUME NEW h \in HoldId, TillHold(n, h) PROVE TypeOK'
    BY Zenon, <2>1, <2>2, NumbersAssumption DEF TillHold, TypeOK
  <2>3. ASSUME NEW h \in HoldId, HoldUin(n, h) PROVE TypeOK'
    BY Zenon, <2>1, <2>3, NumbersAssumption DEF HoldUin, TypeOK, history
  <2>4. CASE HoldReleased(n)
    BY Zenon, <2>1, <2>4 DEF HoldReleased, TypeOK, history
  <2>5. CASE HoldLapses(n)
    BY Zenon, <2>1, <2>5 DEF HoldLapses, Held, TypeOK, history
  <2>6. CASE MintInvite(n) \/ InviteDies(n)
    BY <2>1, <2>6, Zenon DEF MintInvite, InviteDies, TypeOK, market, history
  <2>7. CASE RemoveListing(n)
    BY Zenon, <2>1, <2>7 DEF RemoveListing, TypeOK, history
  <2> QED
    BY Zenon, <1>12, <2>2, <2>3, <2>4, <2>5, <2>6, <2>7 DEF Operate
<1>13. CASE ReleaseParked
  BY Zenon, <1>13 DEF ReleaseParked, Parked, TypeOK, market
<1> QED
  BY Zenon, <1>1, <1>2, <1>3, <1>4, <1>5, <1>6, <1>7, <1>8, <1>9, <1>10, <1>11, <1>12, <1>13 DEF Next, Commit

-----------------------------------------------------------------------------
(* One number per account. *)

LEMMA InitBodies == Init => Bodies
<1> SUFFICES ASSUME Init PROVE Bodies
  BY Zenon
<1>1. \A r \in Request : req[r] = Idle /\ req[r].op = "idle"
  BY Zenon DEF Init, Idle
<1>2. ReqOK
  BY <1>1, Zenon DEF Init, ReqOK
<1> QED
  BY Zenon, <1>1, <1>2 DEF Init, Bodies, NewcomersAbsent, Injective

\* The end of a request leaves the others as they are, and puts on a number no
\* account but its own.
LEMMA SettledBodies ==
  ASSUME TypeOK, Bodies, NEW r \in Request, NEW op, op # "idle", Settled(r, op, req[r]),
         offers' \in Nat, seized' \in BOOLEAN,
         \A n \in Uin : user'[n] \in {user[n], None, req[r].who},
         ~seized' => Injective(user)'
  PROVE  Bodies'
<1>1. req' = [req EXCEPT ![r] = Idle] /\ stale' = (stale \/ ~Reads(req[r])) /\ req[r].op = op
  BY Zenon DEF Settled
<1>2. req' \in [Request -> {req'[t] : t \in Request}]
  BY Zenon, <1>1 DEF Bodies, ReqOK
<1>3. \A t \in Request : req'[t] = IF t = r THEN Idle ELSE req[t]
  BY Zenon, <1>1 DEF Bodies, ReqOK
<1>4. ReqOK'
  BY Zenon, <1>1, <1>2, <1>3 DEF Bodies, ReqOK, Fields
<1>5. req[r] # Idle
  BY <1>1 DEF Idle
<1>6. ASSUME NEW t \in Request, req'[t].op = "register"
      PROVE  /\ \A n \in Uin : user'[n] # req'[t].who
             /\ \A s \in Request \ {t} : req'[s] # Idle => req'[s].who # req'[t].who
  <2>1. t # r /\ req'[t] = req[t] /\ req[t].op = "register"
    BY <1>3, <1>6 DEF Idle
  <2>2. req[t].who \in Person /\ req[t].who # None
    BY Zenon, <2>1, PendingFields, NumbersAssumption DEF Bodies, Fields
  <2>3. /\ \A n \in Uin : user[n] # req[t].who
        /\ \A s \in Request \ {t} : req[s] # Idle => req[s].who # req[t].who
    BY Zenon, <2>1 DEF Bodies, NewcomersAbsent
  <2> QED
    BY Zenon, <1>3, <1>5, <2>1, <2>2, <2>3
<1>7. NewcomersAbsent'
  BY Zenon, <1>6 DEF NewcomersAbsent
<1> QED
  BY Zenon, <1>4, <1>7 DEF Bodies

\* A request under way changes nothing but itself.
LEMMA SameBodies ==
  ASSUME Bodies, user' = user, seized' = seized, req' = req, offers' = offers, stale' = stale
  PROVE  Bodies'
BY DEF Bodies, ReqOK, NewcomersAbsent, Injective, Fields

\* What _perform_migration does to the rows of users.
LEMMA PerformMigrationBodies ==
  ASSUME TypeOK, Bodies, NEW r \in Request, Fields(req[r]),
         req[r].op \notin {"register", "burn"}, NEW d, NEW s, PerformMigration(r, req[r], d, s)
  PROVE  /\ seized' \in BOOLEAN
         /\ \A n \in Uin : user'[n] \in {user[n], None, req[r].who}
         /\ ~seized' => ~seized /\ user[req[r].me] = req[r].who /\ Injective(user)'
<1> DEFINE q == req[r]
<1>1. /\ user[q.me] # None /\ user[q.n] = None
      /\ user' = [user EXCEPT ![q.n] = q.who, ![q.me] = None]
      /\ seized' = (seized \/ user[q.me] \notin {q.who, None})
  BY Zenon DEF PerformMigration, RowThere
<1>2. q.me \in Uin /\ q.n \in Uin /\ q.who \in Person /\ user \in Users
  BY Zenon DEF Fields, TypeOK, Users
<1>3. seized' \in BOOLEAN
  BY Zenon, <1>1
<1>4. \A n \in Uin : user'[n] \in {user[n], None, q.who}
  BY Zenon, <1>1, <1>2 DEF Users
<1>5. ~seized' => ~seized /\ user[q.me] = q.who
  BY <1>1, Zenon
<1>6. ~seized' => Injective(user')
  BY <1>1, <1>2, <1>5, MoveInjective, Zenon DEF Bodies
<1>7. Injective(user') <=> Injective(user)'
  BY Zenon DEF Injective
<1> QED
  BY Zenon, <1>3, <1>4, <1>5, <1>6, <1>7

LEMMA StepBodies ==
  ASSUME TypeOK, Bodies, Next
  PROVE  Bodies'
<1> ReqOK /\ offers \in Nat /\ seized \in BOOLEAN
  BY Zenon DEF Bodies, ReqOK
<1>1. ASSUME NEW r \in Request, Begin(r) PROVE Bodies'
  <2>1. PICK q \in Asked : /\ (q.op = "register" => NewAccount(q.who))
                           /\ req' = [req EXCEPT ![r] = q]
    BY <1>1, Zenon DEF Begin
  <2>2. /\ req[r] = Idle /\ user' = user /\ offers' = offers /\ stale' = stale /\ seized' = seized
    BY Zenon, <1>1 DEF Begin, history
  <2>3. Fields(q) /\ (q.op # "register" => q.who = user[q.me])
    BY Zenon, AskedFields
  <2>4. \A t \in Request : req'[t] = IF t = r THEN q ELSE req[t]
    BY Zenon, <2>1 DEF ReqOK
  <2>5. ReqOK'
    <3>1. req' \in [Request -> {req'[t] : t \in Request}]
      BY Zenon, <2>1 DEF ReqOK
    <3> QED
      BY Zenon, <2>2, <2>3, <2>4, <3>1 DEF ReqOK, Fields
  <2>6. ASSUME NEW t \in Request, req'[t].op = "register"
        PROVE  /\ \A n \in Uin : user'[n] # req'[t].who
               /\ \A s \in Request \ {t} : req'[s] # Idle => req'[s].who # req'[t].who
    <3>1. CASE t = r
      <4>1. req'[t] = q /\ NewAccount(q.who)
        BY Zenon, <2>1, <2>4, <2>6, <3>1
      <4> QED
        BY Zenon, <2>2, <2>4, <3>1, <4>1 DEF NewAccount
    <3>2. CASE t # r
      <4>1. req'[t] = req[t] /\ req[t].op = "register" /\ req[t] # Idle
        BY <2>4, <2>6, <3>2 DEF Idle
      <4>2. /\ \A n \in Uin : user[n] # req[t].who
            /\ \A s \in Request \ {t} : req[s] # Idle => req[s].who # req[t].who
        BY Zenon, <4>1 DEF Bodies, NewcomersAbsent
      <4>3. q.who # req[t].who
        BY Zenon, <2>1, <2>3, <4>1, <4>2 DEF NewAccount, Fields
      <4> QED
        BY Zenon, <2>2, <2>4, <4>1, <4>2, <4>3
    <3> QED
      BY Zenon, <3>1, <3>2
  <2>7. NewcomersAbsent'
    BY Zenon, <2>6 DEF NewcomersAbsent
  <2> QED
    BY Zenon, <2>2, <2>5, <2>7 DEF Bodies, Injective
<1>2. ASSUME NEW r \in Request, Abort(r) PROVE Bodies'
  <2>1. /\ req' = [req EXCEPT ![r] = Idle]
        /\ user' = user /\ offers' = offers /\ stale' = stale /\ seized' = seized
    BY Zenon, <1>2 DEF Abort, history
  <2>2. \A t \in Request : req'[t] = IF t = r THEN Idle ELSE req[t]
    BY Zenon, <2>1 DEF ReqOK
  <2>3. req' \in [Request -> {req'[t] : t \in Request}]
    BY Zenon, <2>1 DEF ReqOK
  <2>4. ReqOK'
    BY Zenon, <2>1, <2>2, <2>3 DEF ReqOK, Fields
  <2>5. NewcomersAbsent'
    BY <2>1, <2>2 DEF Bodies, NewcomersAbsent, Idle
  <2> QED
    BY Zenon, <2>1, <2>4, <2>5 DEF Bodies, Injective
<1>3. ASSUME NEW r \in Request, Register(r) PROVE Bodies'
  <2> DEFINE q == req[r]
  <2>1. /\ Settled(r, "register", q) /\ q.op = "register"
        /\ user[q.n] = None /\ user' = [user EXCEPT ![q.n] = q.who]
        /\ offers' = offers /\ seized' = seized
    BY Zenon, <1>3 DEF Register, Settled
  <2>2. q.n \in Uin /\ q.who \in Person
    BY Zenon, <2>1, PendingFields DEF Fields
  <2>3. \A n \in Uin : user'[n] = IF n = q.n THEN q.who ELSE user[n]
    BY Zenon, <2>1, <2>2 DEF TypeOK
  <2>4. \A n \in Uin : user[n] # q.who
    BY Zenon, <2>1 DEF Bodies, NewcomersAbsent
  <2>5. ~seized' => Injective(user)'
    BY <2>1, <2>3, <2>4 DEF Bodies, Injective
  <2>6. \A n \in Uin : user'[n] \in {user[n], None, q.who}
    BY ZenonT(30), <2>3
  <2> QED
    BY <2>1, <2>5, <2>6, SettledBodies, Zenon
<1>4. ASSUME NEW r \in Request, NEW d, NEW s, NEW op \in {"migrate", "activate", "claim", "redeem"},
             Settled(r, op, req[r]), PerformMigration(r, req[r], d, s), offers' = offers
      PROVE  Bodies'
  <2>1. Fields(req[r]) /\ req[r].op \notin {"register", "burn"}
    BY Zenon, <1>4, PendingFields DEF Settled
  <2>2. /\ seized' \in BOOLEAN
        /\ \A n \in Uin : user'[n] \in {user[n], None, req[r].who}
        /\ ~seized' => Injective(user)'
    BY <1>4, <2>1, PerformMigrationBodies, Zenon
  <2> QED
    BY Zenon, <1>4, <2>2, SettledBodies
<1>5. ASSUME NEW r \in Request, NEW op, op # "idle", Settled(r, op, req[r]),
             user' = user, seized' = seized, offers' \in Nat
      PROVE  Bodies'
  <2>1. ~seized' => Injective(user)'
    BY Zenon, <1>5 DEF Bodies, Injective
  <2>2. \A n \in Uin : user'[n] \in {user[n], None, req[r].who}
    BY Zenon, <1>5
  <2> QED
    BY Zenon, <1>5, <2>1, <2>2, SettledBodies
<1>6. ASSUME NEW r \in Request, Migrate(r) \/ Activate(r) PROVE Bodies'
  BY Zenon, <1>4, <1>6 DEF Migrate, Activate
<1>7. ASSUME NEW r \in Request, Claim(r) PROVE Bodies'
  <2>1. CASE req[r].switch
    BY Zenon, <1>4, <1>7, <2>1 DEF Claim
  <2>2. CASE ~req[r].switch
    BY <1>5, <1>7, <2>2, Zenon DEF Claim, Stay
  <2> QED
    BY Zenon, <2>1, <2>2
<1>8. ASSUME NEW r \in Request, Redeem(r) PROVE Bodies'
  <2>1. CASE req[r].switch
    BY Zenon, <1>4, <1>8, <2>1 DEF Redeem
  <2>2. CASE ~req[r].switch
    <3>1. Settled(r, "redeem", req[r]) /\ user' = user /\ seized' = seized /\ offers' = offers
      BY <1>8, <2>2, Zenon DEF Redeem, Stay
    <3>2. offers' \in Nat
      BY Zenon, <3>1 DEF TypeOK, Bodies
    <3> QED
      BY <1>5, <3>1, <3>2, Zenon
  <2> QED
    BY Zenon, <2>1, <2>2
<1>9. ASSUME NEW r \in Request, Release(r) \/ CreateListing(r) \/ DeleteListing(r) \/ Grant(r)
      PROVE Bodies'
  <2>1. user' = user /\ seized' = seized /\ offers' \in Nat
    BY <1>9 DEF Release, CreateListing, DeleteListing, Grant
  <2>2. \/ Settled(r, "release", req[r]) \/ Settled(r, "list", req[r])
        \/ Settled(r, "delist", req[r]) \/ Settled(r, "grant", req[r])
    BY Zenon, <1>9 DEF Release, CreateListing, DeleteListing, Grant
  <2> QED
    BY <1>5, <2>1, <2>2, Zenon
<1>10. ASSUME NEW r \in Request, PurgeAccount(r) PROVE Bodies'
  <2> DEFINE q == req[r]
  <2>1. /\ Settled(r, "burn", q) /\ q.op = "burn"
        /\ user' = [user EXCEPT ![q.me] = None] /\ offers' = offers
        /\ seized' = (seized \/ user[q.me] \notin {q.who, None})
    BY Zenon, <1>10 DEF PurgeAccount, Settled
  <2>2. q.me \in Uin
    BY Zenon, <2>1, PendingFields DEF Fields
  <2>3. \A n \in Uin : user'[n] = IF n = q.me THEN None ELSE user[n]
    BY Zenon, <2>1, <2>2 DEF TypeOK
  <2>4. ~seized' => Injective(user)'
    BY <2>1, <2>3 DEF Bodies, Injective
  <2>5. \A n \in Uin : user'[n] \in {user[n], None, q.who}
    BY Zenon, <2>3
  <2>6. seized' \in BOOLEAN
    BY Zenon, <2>1
  <2> QED
    BY <2>1, <2>4, <2>5, <2>6, SettledBodies, ZenonT(30)
<1>11. ASSUME NEW n \in Shelf, Operate(n) PROVE Bodies'
  BY <1>11, SameBodies, Zenon
     DEF Operate, TillHold, HoldUin, HoldReleased, HoldLapses, MintInvite, InviteDies, RemoveListing, history
<1>12. CASE ReleaseParked
  BY <1>12, SameBodies, Zenon DEF ReleaseParked
<1> QED
  BY Zenon, <1>1, <1>2, <1>3, <1>6, <1>7, <1>8, <1>9, <1>10, <1>11, <1>12 DEF Next, Commit

-----------------------------------------------------------------------------
(* Deeds and titles, as long as every answer a request commits on is true. *)

LEMMA InitHands == Init => Hands
BY NumbersAssumption DEF Init, Hands, Orderly, Titled

\* What a request of each kind has read, if it is still true.
LEMMA ReadsOf ==
  ASSUME NEW q, Reads(q)
  PROVE  /\ q.op = "register" => RegisterReads(q)
         /\ q.op = "migrate" => MigrateReads(q)
         /\ q.op = "claim" => ClaimReads(q)
         /\ q.op = "activate" => ActivateReads(q)
         /\ q.op = "redeem" => RedeemReads(q)
         /\ q.op = "release" => ReleaseReads(q)
         /\ q.op = "list" => ListReads(q)
         /\ q.op = "burn" => BurnReads(q)
         /\ q.op = "grant" => GrantReads(q)
<1>1. q.op = "register" => RegisterReads(q)
  BY Zenon DEF Reads
<1>2. q.op = "migrate" => MigrateReads(q)
  BY Zenon DEF Reads
<1>3. q.op = "claim" => ClaimReads(q)
  BY Zenon DEF Reads
<1>4. q.op = "activate" => ActivateReads(q)
  BY Zenon DEF Reads
<1>5. q.op = "redeem" => RedeemReads(q)
  BY Zenon DEF Reads
<1>6. q.op = "release" => ReleaseReads(q)
  BY Zenon DEF Reads
<1>7. q.op = "list" => ListReads(q)
  BY Zenon DEF Reads
<1>8. q.op = "burn" => BurnReads(q)
  BY Zenon DEF Reads
<1>9. q.op = "grant" => GrantReads(q)
  BY Zenon DEF Reads
<1> QED
  BY Zenon, <1>1, <1>2, <1>3, <1>4, <1>5, <1>6, <1>7, <1>8, <1>9

\* The tables, from one state to the next.
LEMMA HandsNext ==
  ASSUME ~stale' => ~seized' /\ Orderly(user', deed', seller') /\ Titled(user', deed', title')
  PROVE  Hands'
BY Zenon DEF Hands, Orderly, Titled

\* _perform_migration on deeds d and listings s that are in order.
LEMMA PerformMigrationHands ==
  ASSUME TypeOK, Bodies, ~seized, NEW r \in Request, Fields(req[r]),
         req[r].op \notin {"register", "burn"},
         NEW d \in Owners, NEW s \in Owners, PerformMigration(r, req[r], d, s),
         Answering(req[r]), title' \in Users,
         Orderly(user, d, s), Titled(user, d, title'),
         d[req[r].n] \in {None, req[r].me},
         d[req[r].n] = req[r].me => s[req[r].n] = None
  PROVE  Hands'
<1> DEFINE q == req[r]
<1>1. /\ user[q.n] = None
      /\ user' = [user EXCEPT ![q.n] = q.who, ![q.me] = None]
      /\ deed' = Vacate(d, q.me, q.n) /\ seller' = Rekey(s, q.me, q.n)
      /\ seized' = (seized \/ user[q.me] \notin {q.who, None})
  BY ZenonT(30) DEF PerformMigration
<1>2. /\ q.me \in Uin /\ q.n \in Uin /\ q.who \in Person /\ user \in Users
      /\ user[q.me] = q.who /\ Injective(user)
  BY Zenon DEF Fields, TypeOK, Users, Answering, Bodies
<1>3. Orderly(user', deed', seller')
  BY <1>1, <1>2, MoveOrderly, Zenon
<1>4. \A n \in Uin : d[n] # None => user[d[n]] # None
  BY ZenonT(30) DEF Orderly
<1>5. \A n \in Uin : (user[n] # None /\ d[n] # None) => user[d[n]] = user[n]
  BY Zenon DEF Orderly
<1>6. Titled(user', deed', title')
  BY <1>1, <1>2, <1>4, <1>5, MoveTitled, Zenon
<1>7. ~seized'
  BY <1>1, <1>2, Zenon
<1> QED
  BY Zenon, <1>3, <1>6, <1>7, HandsNext

LEMMA StepHands ==
  ASSUME TypeOK, Bodies, Hands, Next
  PROVE  Hands'
<1> /\ ReqOK /\ user \in Users /\ deed \in Owners /\ seller \in Owners /\ title \in Users
    /\ stale \in BOOLEAN /\ seized \in BOOLEAN /\ None \notin Uin \cup Person
  BY Zenon, NumbersAssumption DEF Bodies, ReqOK, TypeOK, Users, Owners
<1>1. ASSUME user' = user, deed' = deed, title' = title, stale' = stale, seized' = seized,
             \A n \in Uin : seller'[n] \in {seller[n], None}
      PROVE  Hands'
  BY Zenon, <1>1 DEF Hands, Orderly, Titled
<1>2. ASSUME NEW r \in Request, NEW op, op # "idle", Settled(r, op, req[r]), ~stale'
      PROVE  /\ Fields(req[r]) /\ req[r].op = op /\ Reads(req[r])
             /\ ~stale /\ ~seized /\ Injective(user)
             /\ Orderly(user, deed, seller) /\ Titled(user, deed, title)
  <2>1. req[r].op = op /\ ~stale /\ Reads(req[r])
    BY <1>2, ZenonT(30) DEF Settled
  <2>2. Fields(req[r])
    BY ZenonT(30), <1>2, <2>1, PendingFields
  <2> QED
    BY Zenon, <2>1, <2>2 DEF Hands, Bodies
<1>3. ASSUME NEW r \in Request, Begin(r) \/ Abort(r) PROVE Hands'
  BY Zenon, <1>1, <1>3 DEF Begin, Abort, market, history
<1>4. ASSUME NEW n \in Shelf, Operate(n) PROVE Hands'
  <2>1. n \in Uin
    BY Zenon, NumbersAssumption
  <2>2. \A m \in Uin : seller'[m] \in {seller[m], None}
    BY <1>4, <2>1, Zenon DEF Operate, TillHold, HoldUin, HoldReleased, HoldLapses, MintInvite, InviteDies,
                      RemoveListing, market, Owners
  <2> QED
    BY <1>1, <1>4, <2>2, Zenon DEF Operate, TillHold, HoldUin, HoldReleased, HoldLapses, MintInvite, InviteDies,
                      RemoveListing, history
<1>5. ASSUME NEW r \in Request, Register(r), ~stale' PROVE Hands'
  <2> DEFINE q == req[r]
  <2>1. /\ Settled(r, "register", q) /\ user[q.n] = None
        /\ user' = [user EXCEPT ![q.n] = q.who]
        /\ title' = (IF q.n \in Scarce THEN [title EXCEPT ![q.n] = q.who] ELSE title)
        /\ deed' = deed /\ seller' = seller /\ seized' = seized
    BY Zenon, <1>5 DEF Register, market
  <2>2. /\ Fields(q) /\ q.op = "register" /\ Reads(q) /\ ~seized
        /\ Orderly(user, deed, seller) /\ Titled(user, deed, title)
    BY <1>2, <1>5, <2>1, Zenon
  <2>3. q.n \in Uin /\ q.who \in Person /\ deed[q.n] = None
    BY <2>2, ReadsOf, Zenon DEF Fields, RegisterReads, UinIsTaken
  <2>4. Orderly(user', deed', seller') /\ Titled(user', deed', title')
    BY <2>1, <2>2, <2>3, NewcomerTables, ZenonT(30)
  <2> QED
    BY <2>1, <2>2, <2>4, HandsNext, Zenon
<1>6. ASSUME NEW r \in Request, Migrate(r), ~stale' PROVE Hands'
  <2> DEFINE q == req[r]
  <2>1. Settled(r, "migrate", q) /\ PerformMigration(r, q, deed, seller) /\ title' = title
    BY Zenon, <1>6 DEF Migrate
  <2>2. /\ Fields(q) /\ q.op = "migrate" /\ Reads(q) /\ ~seized
        /\ Orderly(user, deed, seller) /\ Titled(user, deed, title)
    BY <1>2, <1>6, <2>1, Zenon
  <2>3. Answering(q) /\ deed[q.n] = None /\ q.me \in Uin
    BY <2>2, ReadsOf, Zenon DEF MigrateReads, UinIsTaken, Fields
  <2> QED
    BY Zenon, <2>1, <2>2, <2>3, PerformMigrationHands
<1>7. ASSUME NEW r \in Request, Activate(r), ~stale' PROVE Hands'
  <2> DEFINE q == req[r]
  <2>1. Settled(r, "activate", q) /\ PerformMigration(r, q, deed, seller) /\ title' = title
    BY ZenonT(30), <1>7 DEF Activate
  <2>2. /\ Fields(q) /\ q.op = "activate" /\ Reads(q) /\ ~seized
        /\ Orderly(user, deed, seller) /\ Titled(user, deed, title)
    BY ZenonT(30), <1>2, <1>7, <2>1
  <2>3. Answering(q) /\ deed[q.n] = q.me /\ seller[q.n] = None
    BY Zenon, <2>2, ReadsOf DEF ActivateReads, Listed
  <2> QED
    BY <2>1, <2>2, <2>3, PerformMigrationHands, Zenon
<1>8. ASSUME NEW r \in Request, Claim(r), ~stale' PROVE Hands'
  <2> DEFINE q == req[r]
  <2>1. Settled(r, "claim", q)
    BY Zenon, <1>8 DEF Claim
  <2>2. /\ Fields(q) /\ q.op = "claim" /\ Reads(q) /\ ~seized
        /\ Orderly(user, deed, seller) /\ Titled(user, deed, title)
    BY Zenon, <1>2, <1>8, <2>1
  <2>3. /\ q.me \in Uin /\ q.n \in Uin /\ q.who \in Person /\ q.n # q.me
        /\ Answering(q) /\ deed[q.n] = None /\ user[q.n] = None
    BY <2>2, ReadsOf, Zenon DEF ClaimReads, UinIsTaken, Fields
  <2>4. CASE q.switch
    <3>1. PerformMigration(r, q, deed, seller) /\ title' = title
      BY Zenon, <1>8, <2>4 DEF Claim
    <3> QED
      BY <2>2, <2>3, <3>1, PerformMigrationHands, Zenon
  <2>5. CASE ~q.switch
    <3>1. /\ deed' = [deed EXCEPT ![q.n] = q.me] /\ title' = [title EXCEPT ![q.n] = q.who]
          /\ seller' = seller /\ user' = user /\ seized' = seized
      BY Zenon, <1>8, <2>5 DEF Claim, Stay
    <3>2. user[q.me] # None /\ title' = [title EXCEPT ![q.n] = user[q.me]]
      BY Zenon, <2>3, <3>1 DEF Answering
    <3>3. /\ Orderly(user, [deed EXCEPT ![q.n] = q.me], seller)
          /\ Titled(user, [deed EXCEPT ![q.n] = q.me], [title EXCEPT ![q.n] = user[q.me]])
      BY <2>2, <2>3, <3>2, GiveTables, Zenon
    <3> QED
      BY <2>2, <3>1, <3>2, <3>3, HandsNext, Zenon
  <2> QED
    BY Zenon, <2>4, <2>5
<1>9. ASSUME NEW r \in Request, Redeem(r), ~stale' PROVE Hands'
  <2> DEFINE q == req[r]
             d == [deed EXCEPT ![q.n] = q.me]
             s == IF q.seller = None THEN seller ELSE [seller EXCEPT ![q.n] = None]
  <2>1. /\ Settled(r, "redeem", q) /\ deed[q.n] = q.seller
        /\ title' = [title EXCEPT ![q.n] = q.who]
        /\ IF q.switch THEN PerformMigration(r, q, d, s) ELSE Stay(d, s)
    BY <1>9, Zenon DEF Redeem, DeedFree
  <2>2. /\ Fields(q) /\ q.op = "redeem" /\ Reads(q) /\ ~seized /\ Injective(user)
        /\ Orderly(user, deed, seller) /\ Titled(user, deed, title)
    BY <1>2, <1>9, <2>1, Zenon
  <2>3. RedeemReads(q) /\ q.me \in Uin /\ q.n \in Uin /\ q.who \in Person
    BY <2>2, ReadsOf, ZenonT(30) DEF Fields
  <2>4. q.n # q.me /\ user[q.me] = q.who /\ seller[q.n] = q.seller
    BY Zenon, <2>3 DEF RedeemReads, Answering
  <2>5. user[q.n] = None
    <3>1. CASE q.seller = None
      BY Zenon, <2>3, <3>1 DEF RedeemReads, UinIsTaken
    <3>2. CASE q.seller # None
      <4>1. user[q.n] # None => user[q.seller] = user[q.n] /\ q.seller \in Uin
        BY <2>1, <2>2, <2>3, <3>2, ZenonT(30) DEF Orderly, Owners
      <4>2. user[q.n] # None => q.seller = q.n
        BY Zenon, <2>2, <2>3, <4>1 DEF Injective
      <4> QED
        BY <2>1, <2>2, <2>3, <2>4, <3>2, <4>2, Zenon DEF Orderly
    <3> QED
      BY ZenonT(30), <3>1, <3>2
  <2>6. d \in Owners /\ s \in Owners /\ d[q.n] = q.me /\ s[q.n] = None
    BY Zenon, <2>3, <2>4 DEF Owners
  <2>7. \A m \in Uin : seller[m] = None => s[m] = None
    BY Zenon, <2>3 DEF Owners
  <2>8. Orderly(user, d, s) /\ Titled(user, d, title')
    <3>1. user[q.me] # None /\ title' = [title EXCEPT ![q.n] = user[q.me]]
      BY Zenon, <2>1, <2>3, <2>4
    <3> HIDE DEF s
    <3>2. /\ Orderly(user, [deed EXCEPT ![q.n] = q.me], s)
          /\ Titled(user, [deed EXCEPT ![q.n] = q.me], [title EXCEPT ![q.n] = user[q.me]])
      BY <2>2, <2>3, <2>5, <2>6, <2>7, <3>1, GiveTables, ZenonT(30)
    <3> QED
      BY Zenon, <3>1, <3>2
  <2> HIDE DEF d, s
  <2>9. title' \in Users
    BY Zenon, <2>1, <2>3 DEF Users
  <2>10. CASE q.switch
    BY <2>1, <2>2, <2>3, <2>4, <2>6, <2>8, <2>9, <2>10, PerformMigrationHands, Zenon DEF Answering
  <2>11. CASE ~q.switch
    BY <2>1, <2>2, <2>8, <2>11, HandsNext, ZenonT(30) DEF Stay
  <2> QED
    BY Zenon, <2>10, <2>11
<1>10. ASSUME NEW r \in Request, Release(r), ~stale' PROVE Hands'
  <2> DEFINE q == req[r]
  <2>1. /\ Settled(r, "release", q) /\ deed' = [deed EXCEPT ![q.n] = None]
        /\ title' = [title EXCEPT ![q.n] = IF @ = q.who THEN None ELSE @]
        /\ user' = user /\ seller' = seller /\ seized' = seized
    BY Zenon, <1>10 DEF Release, market
  <2>2. /\ Fields(q) /\ q.op = "release" /\ Reads(q) /\ ~seized
        /\ Orderly(user, deed, seller) /\ Titled(user, deed, title)
    BY ZenonT(30), <1>2, <1>10, <2>1
  <2>3. q.n \in Uin /\ q.who \in Person /\ deed[q.n] = q.me /\ user[q.me] = q.who
    BY <2>2, ReadsOf, Zenon DEF ReleaseReads, Answering, Fields
  <2>4. user[deed[q.n]] = q.who
    BY Zenon, <2>3
  <2>5. /\ Orderly(user, [deed EXCEPT ![q.n] = None], seller)
        /\ Titled(user, [deed EXCEPT ![q.n] = None], [title EXCEPT ![q.n] = IF @ = q.who THEN None ELSE @])
    BY ZenonT(30), <2>2, <2>3, <2>4, ReleaseTables
  <2> QED
    BY Zenon, <2>1, <2>2, <2>5, HandsNext
<1>11. ASSUME NEW r \in Request, CreateListing(r), ~stale' PROVE Hands'
  <2> DEFINE q == req[r]
  <2>1. /\ Settled(r, "list", q)
        /\ seller' = (IF q.reprice THEN seller ELSE [seller EXCEPT ![q.n] = q.me])
        /\ user' = user /\ deed' = deed /\ title' = title /\ seized' = seized
    BY Zenon, <1>11 DEF CreateListing
  <2>2. /\ Fields(q) /\ q.op = "list" /\ Reads(q) /\ ~seized
        /\ Orderly(user, deed, seller) /\ Titled(user, deed, title)
    BY <1>2, <1>11, <2>1, Zenon
  <2>3. q.n \in Uin /\ deed[q.n] = q.me /\ q.n # q.me
    BY <2>2, ReadsOf, Zenon DEF ListReads, Fields
  <2>4. \A n \in Uin : n # q.n => seller'[n] = seller[n]
    BY ZenonT(30), <2>1, <2>3 DEF Owners
  <2>5. Orderly(user', deed', seller')
    BY Zenon, <2>1, <2>2, <2>3, <2>4 DEF Orderly
  <2> QED
    BY <2>1, <2>2, <2>5, HandsNext, Zenon DEF Titled
<1>12. ASSUME NEW r \in Request, DeleteListing(r) PROVE Hands'
  <2>1. /\ Settled(r, "delist", req[r]) /\ seller' = [seller EXCEPT ![req[r].n] = None]
        /\ user' = user /\ deed' = deed /\ title' = title /\ seized' = seized
    BY Zenon, <1>12 DEF DeleteListing
  <2>2. \A n \in Uin : seller'[n] \in {seller[n], None}
    BY Zenon, <2>1 DEF Owners
  <2>3. CASE ~stale'
    BY <1>2, <2>1, <2>2, <2>3, HandsNext, Zenon DEF Orderly, Titled
  <2> QED
    BY Zenon, <2>3 DEF Hands
<1>13. ASSUME NEW r \in Request, PurgeAccount(r), ~stale' PROVE Hands'
  <2> DEFINE q == req[r]
  <2>1. /\ Settled(r, "burn", q) /\ user' = [user EXCEPT ![q.me] = None]
        /\ deed' = Rekey(deed, q.me, None) /\ seller' = Rekey(seller, q.me, None)
        /\ title' = Rekey(title, q.who, None)
        /\ seized' = (seized \/ user[q.me] \notin {q.who, None})
    BY <1>13, Zenon DEF PurgeAccount
  <2>2. /\ Fields(q) /\ q.op = "burn" /\ Reads(q) /\ ~seized
        /\ Orderly(user, deed, seller) /\ Titled(user, deed, title)
    BY <1>2, <1>13, <2>1, Zenon
  <2>3. q.me \in Uin /\ q.who \in Person /\ user[q.me] = q.who
    BY <2>2, ReadsOf, Zenon DEF BurnReads, Answering, Fields
  <2>4. Orderly(user', deed', seller') /\ Titled(user', deed', title')
    BY <2>1, <2>2, <2>3, BurnTables, Zenon
  <2>5. ~seized'
    BY <2>1, <2>2, <2>3, Zenon
  <2> QED
    BY Zenon, <2>4, <2>5, HandsNext
<1>14. ASSUME NEW r \in Request, Grant(r), ~stale' PROVE Hands'
  <2> DEFINE q == req[r]
  <2>1. /\ Settled(r, "grant", q) /\ deed' = [deed EXCEPT ![q.n] = q.me]
        /\ title' = [title EXCEPT ![q.n] = user[q.me]]
        /\ user' = user /\ seller' = seller /\ seized' = seized
    BY Zenon, <1>14 DEF Grant, market
  <2>2. /\ Fields(q) /\ q.op = "grant" /\ Reads(q) /\ ~seized
        /\ Orderly(user, deed, seller) /\ Titled(user, deed, title)
    BY Zenon, <1>2, <1>14, <2>1
  <2>3. q.me \in Uin /\ q.n \in Uin /\ user[q.me] # None /\ user[q.n] = None
    BY <2>2, ReadsOf, Zenon DEF GrantReads, Fields
  <2>4. Orderly(user', deed', seller') /\ Titled(user', deed', title')
    BY <2>1, <2>2, <2>3, GiveTables, ZenonT(30)
  <2> QED
    BY Zenon, <2>1, <2>2, <2>4, HandsNext
<1>15. CASE ReleaseParked
  <2>1. /\ user' = user /\ seller' = seller /\ stale' = stale /\ seized' = seized
        /\ \A n \in Uin : deed'[n] = IF n \in Parked THEN None ELSE deed[n]
        /\ \A n \in Uin : title'[n] =
             IF n \in Parked /\ ~(n \in Scarce /\ user[n] = title[n]) THEN None ELSE title[n]
    BY <1>15, Zenon DEF ReleaseParked, market
  <2> QED
    BY ZenonT(30), <2>1 DEF Hands, Orderly, Titled
<1>16. stale' => Hands'
  BY Zenon DEF Hands
<1> QED
  BY Zenon, <1>3, <1>4, <1>5, <1>6, <1>7, <1>8, <1>9, <1>10, <1>11, <1>12, <1>13, <1>14, <1>15, <1>16
     DEF Next, Commit

-----------------------------------------------------------------------------
(* Theorems. *)

LEMMA Invariant == Spec => []IInv
<1>1. Init => IInv
  BY Zenon, InitTypes, InitBodies, InitHands DEF IInv
<1>2. IInv /\ [Next]_vars => IInv'
  <2>1. ASSUME IInv, Next PROVE IInv'
    BY Zenon, <2>1, StepTypes, StepBodies, StepHands DEF IInv, Bodies
  <2>2. ASSUME IInv, UNCHANGED vars PROVE IInv'
    <3>1. UNCHANGED <<user, deed, paid, hold, lapsed, seller, offer, promised, spent, req, offers,
                      title, handed, stale, seized>>
      BY Zenon, <2>2 DEF vars, market, history
    <3>2. TypeOK'
      BY Zenon, <2>2, <3>1 DEF IInv, TypeOK
    <3>3. Bodies'
      BY Zenon, <2>2, <3>1, SameBodies DEF IInv
    <3>4. Hands'
      BY Zenon, <2>2, <3>1 DEF IInv, Hands, Orderly, Titled
    <3> QED
      BY Zenon, <3>2, <3>3, <3>4 DEF IInv
  <2> QED
    BY Zenon, <2>1, <2>2
<1> QED
  BY <1>1, <1>2, PTL DEF Spec

\* The tables keep their types, a source only goes with a deed and an expiry
\* only with a hold, under every interleaving of requests.
THEOREM TypeCorrect == Spec => []TypeOK
<1>1. IInv => TypeOK
  BY Zenon DEF IInv
<1> QED
  BY <1>1, Invariant, PTL

\* _perform_migration's lock: however many moves of one account race, from
\* whichever door, there is one account afterwards, unless one of them locked a
\* row that had been given to somebody else.
THEOREM OneBodyAlways == Spec => []OneBody
<1>1. IInv => OneBody
  BY Zenon DEF IInv, Bodies, Injective, OneBody
<1> QED
  BY <1>1, Invariant, PTL

\* Nobody answers as a number that is another's, until some request commits on
\* an answer that is no longer true.
THEOREM DeedsExclusive == Spec => []DeedExclusive
<1>1. IInv => DeedExclusive
  BY Zenon DEF IInv, Hands, Orderly, DeedExclusive
<1> QED
  BY <1>1, Invariant, PTL

\* Nobody loses what they bought, were given or took, until some request
\* commits on an answer that is no longer true.
THEOREM TitlesKept == Spec => []TitleKept
<1>1. IInv => TitleKept
  BY Zenon DEF IInv, Hands, Titled, TitleKept, InHands
<1> QED
  BY <1>1, Invariant, PTL

\* redeem: a voucher is spent by the transaction that hands its number over,
\* and hands it over once.
THEOREM VouchersHonoured == Spec => []VoucherHonoured
<1>1. Init => VoucherHonoured
  BY Zenon DEF Init, VoucherHonoured
<1>2. ASSUME IInv, VoucherHonoured, [Next]_vars PROVE VoucherHonoured'
  <2>1. ASSUME NEW r \in Request, Redeem(r) PROVE VoucherHonoured'
    <3>1. /\ req[r].voucher \notin spent /\ spent' = spent \cup {req[r].voucher}
          /\ handed' = [handed EXCEPT ![req[r].voucher] = @ + 1]
      BY Zenon, <2>1 DEF Redeem, NonceFree
    <3>2. req[r].voucher \in Nonce
      BY <1>2, <2>1, PendingFields, Zenon DEF Redeem, Settled, Fields, IInv, Bodies
    <3> QED
      BY <1>2, <3>1, <3>2 DEF VoucherHonoured, IInv, TypeOK
  <2>2. ASSUME UNCHANGED <<spent, handed>> PROVE VoucherHonoured'
    BY Zenon, <1>2, <2>2 DEF VoucherHonoured
  <2>3. ASSUME NEW r \in Request, Begin(r) \/ Abort(r) PROVE UNCHANGED <<spent, handed>>
    BY Zenon, <2>3 DEF Begin, Abort, history
  <2>4. ASSUME NEW r \in Request, Commit(r), ~Redeem(r) PROVE UNCHANGED <<spent, handed>>
    BY <2>4, Zenon DEF Commit, Register, Migrate, Activate, Claim, Release, CreateListing, DeleteListing,
                PurgeAccount, Grant
  <2>5. ASSUME NEW n \in Shelf, Operate(n) PROVE UNCHANGED <<spent, handed>>
    BY <2>5, Zenon DEF Operate, TillHold, HoldUin, HoldReleased, HoldLapses, MintInvite, InviteDies,
                RemoveListing, history
  <2>6. CASE ReleaseParked
    BY <2>2, <2>6, Zenon DEF ReleaseParked
  <2>7. CASE UNCHANGED vars
    BY Zenon, <2>2, <2>7 DEF vars, history
  <2> QED
    BY Zenon, <1>2, <2>1, <2>2, <2>3, <2>4, <2>5, <2>6, <2>7 DEF Next
<1> QED
  BY <1>1, <1>2, Invariant, PTL DEF Spec
=============================================================================
