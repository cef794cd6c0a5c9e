--------------------------- MODULE AuthorityProofs ---------------------------
(***************************************************************************)
(* Proofs about the objects that the messages about authorities leave, for *)
(* any accounts, names, keys and authorities in the messages.  What        *)
(* auth_checker lets pass is not used: the handlers keep the invariant for  *)
(* every declared authorization.                                           *)
(***************************************************************************)
EXTENDS Authority, FiniteSetTheorems, SequenceTheorems, TLAPS

IsAuthority(f, i, n) ==
  /\ i \in Nat /\ i < n
  /\ f[i].owner \in Accounts /\ f[i].name \in AllNames
  /\ f[i].parent \in Nat /\ f[i].parent < n
  /\ f[i].parent < i \/ f[i].name = "owner"

\* The authority objects f, with ids below n: one of a name for an account, made
\* under a parent that is older, and two of them for every account.
Sound(f, n) ==
  /\ f = [i \in DOMAIN f |-> f[i]]
  /\ \A i \in DOMAIN f : IsAuthority(f, i, n)
  /\ \A i, j \in DOMAIN f : f[i].owner = f[j].owner /\ f[i].name = f[j].name => i = j
  /\ \A i \in DOMAIN f : \A s \in {"owner", "active"} :
       \E j \in DOMAIN f : f[j].owner = f[i].owner /\ f[j].name = s

\* The accounts c and the authority objects f: the owners are personal accounts, and
\* each of these has an authority.
Rooted(c, f) ==
  /\ DOMAIN c \subseteq Accounts \cup {System}
  /\ \A a \in DOMAIN c : c[a] \in AccountTypes
  /\ \A i \in DOMAIN f : f[i].owner \in DOMAIN c /\ c[f[i].owner] = "personal"
  /\ \A a \in DOMAIN c : c[a] = "personal" => \E i \in DOMAIN f : f[i].owner = a

\* The inductive invariant.
Inv ==
  /\ next \in Nat /\ next <= MaxIds
  /\ Sound(auths, next)
  /\ Rooted(accounts, auths)
  /\ links = [k \in DOMAIN links |-> links[k]]
  /\ DOMAIN links \subseteq Accounts \X {System} \X Funcs

-----------------------------------------------------------------------------
(* Functions.                                                              *)

LEMMA MergedFacts ==
  ASSUME NEW f, NEW g
  PROVE  /\ Merged(f, g) = [x \in DOMAIN Merged(f, g) |-> Merged(f, g)[x]]
         /\ \A x \in DOMAIN Merged(f, g) : x \in DOMAIN f \/ x \in DOMAIN g
         /\ \A x \in DOMAIN g : x \in DOMAIN Merged(f, g) /\ Merged(f, g)[x] = g[x]
         /\ \A x \in DOMAIN f : x \in DOMAIN Merged(f, g)
         /\ \A x \in DOMAIN f : x \notin DOMAIN g => Merged(f, g)[x] = f[x]
BY DEF Merged

LEMMA FreshFacts ==
  ASSUME NEW a, NEW id \in Nat, NEW o, NEW v
  PROVE  /\ \A x \in DOMAIN Fresh(a, id, o, v) : x = id \/ x = id + 1
         /\ id \in DOMAIN Fresh(a, id, o, v) /\ id + 1 \in DOMAIN Fresh(a, id, o, v)
         /\ Fresh(a, id, o, v)[id] = [owner |-> a, name |-> "owner", parent |-> 0, auth |-> o]
         /\ Fresh(a, id, o, v)[id + 1]
              = [owner |-> a, name |-> "active", parent |-> id, auth |-> v]
BY DEF Fresh

\* An authority that is found has the account and the name that were asked for.
LEMMA Found ==
  ASSUME NEW au, Exists(au)
  PROVE  /\ IdOf(au) \in DOMAIN auths
         /\ auths[IdOf(au)].owner = au.account /\ auths[IdOf(au)].name = au.authority
<1>1. IdOf(au) \in Ids(au)
  BY Zenon DEF Exists, IdOf
<1>. QED
  BY <1>1 DEF Ids

LEMMA NotFound ==
  ASSUME NEW au, ~Exists(au), NEW i \in DOMAIN auths
  PROVE  ~(auths[i].owner = au.account /\ auths[i].name = au.authority)
BY DEF Exists, Ids

LEMMA SoundMeans ==
  ASSUME NEW f, NEW n, Sound(f, n)
  PROVE  /\ f = [i \in DOMAIN f |-> f[i]]
         /\ \A i \in DOMAIN f : IsAuthority(f, i, n)
         /\ \A i, j \in DOMAIN f : f[i].owner = f[j].owner /\ f[i].name = f[j].name => i = j
         /\ \A i \in DOMAIN f : \A s \in {"owner", "active"} :
              \E j \in DOMAIN f : f[j].owner = f[i].owner /\ f[j].name = s
BY Zenon DEF Sound

-----------------------------------------------------------------------------
(* The changes of the authority objects.                                   *)

\* addaccount: two objects for an account that had none.
LEMMA AddSound ==
  ASSUME NEW f, NEW n \in Nat, Sound(f, n), NEW a \in Accounts, NEW o, NEW v,
         \A i \in DOMAIN f : f[i].owner # a
  PROVE  Sound(Merged(f, Fresh(a, n, o, v)), n + 2)
<1> DEFINE g == Fresh(a, n, o, v)
           h == Merged(f, g)
<1>0. /\ \A x \in DOMAIN f : IsAuthority(f, x, n)
      /\ \A i, j \in DOMAIN f : f[i].owner = f[j].owner /\ f[i].name = f[j].name => i = j
      /\ \A i \in DOMAIN f : \A t \in {"owner", "active"} :
           \E j \in DOMAIN f : f[j].owner = f[i].owner /\ f[j].name = t
  BY SoundMeans, Zenon
<1>1. \A x \in DOMAIN f : IsAuthority(f, x, n)
  BY <1>0
<1>2. /\ \A x \in DOMAIN g : x = n \/ x = n + 1
      /\ n \in DOMAIN g /\ n + 1 \in DOMAIN g
      /\ g[n] = [owner |-> a, name |-> "owner", parent |-> 0, auth |-> o]
      /\ g[n + 1] = [owner |-> a, name |-> "active", parent |-> n, auth |-> v]
  BY FreshFacts
<1>3. /\ h = [x \in DOMAIN h |-> h[x]]
      /\ \A x \in DOMAIN h : x \in DOMAIN f \/ x \in DOMAIN g
      /\ \A x \in DOMAIN g : x \in DOMAIN h /\ h[x] = g[x]
      /\ \A x \in DOMAIN f : x \in DOMAIN h
      /\ \A x \in DOMAIN f : x \notin DOMAIN g => h[x] = f[x]
  BY MergedFacts
<1> HIDE DEF g, h
<1>4. \A x \in DOMAIN f : x \notin DOMAIN g /\ h[x] = f[x]
  BY <1>1, <1>2, <1>3 DEF IsAuthority
<1>5. /\ n \in DOMAIN h /\ h[n].owner = a /\ h[n].name = "owner" /\ h[n].parent = 0
      /\ n + 1 \in DOMAIN h /\ h[n + 1].owner = a /\ h[n + 1].name = "active"
      /\ h[n + 1].parent = n
  BY <1>2, <1>3
<1>6. \A x \in DOMAIN h : x \in DOMAIN f \/ x = n \/ x = n + 1
  BY <1>2, <1>3
<1>7. \A x \in DOMAIN h : IsAuthority(h, x, n + 2)
  BY <1>1, <1>4, <1>5, <1>6 DEF IsAuthority, AllNames
<1>8. \A i, j \in DOMAIN h : h[i].owner = h[j].owner /\ h[i].name = h[j].name => i = j
  <2>. SUFFICES ASSUME NEW i \in DOMAIN h, NEW j \in DOMAIN h,
                       h[i].owner = h[j].owner, h[i].name = h[j].name
       PROVE  i = j
    OBVIOUS
  <2>1. CASE i \in DOMAIN f /\ j \in DOMAIN f
    BY <2>1, <1>4, <1>0
  <2>2. CASE i \notin DOMAIN f /\ j \notin DOMAIN f
    BY <2>2, <1>5, <1>6
  <2>3. CASE (i \in DOMAIN f) # (j \in DOMAIN f)
    BY <2>3, <1>4, <1>5, <1>6
  <2>. QED
    BY <2>1, <2>2, <2>3
<1>9. ASSUME NEW i \in DOMAIN h, NEW s \in {"owner", "active"}
      PROVE  \E j \in DOMAIN h : h[j].owner = h[i].owner /\ h[j].name = s
  <2>1. CASE i \in DOMAIN f
    <3>1. PICK j \in DOMAIN f : f[j].owner = f[i].owner /\ f[j].name = s
      BY <2>1, <1>0
    <3>. QED
      BY <3>1, <2>1, <1>3, <1>4
  <2>2. CASE i \notin DOMAIN f
    <3>1. h[i].owner = a
      BY <2>2, <1>5, <1>6
    <3>. QED
      BY <3>1, <1>5
  <2>. QED
    BY <2>1, <2>2
<1>. QED
  BY <1>3, <1>7, <1>8, <1>9 DEF Sound, h, g

\* updateauth that makes an authority, of an account that exists and under a
\* parent that is there.
LEMMA MakeSound ==
  ASSUME NEW f, NEW n \in Nat, Sound(f, n), NEW a \in Accounts, NEW s \in AllNames,
         NEW p \in DOMAIN f, NEW v, NEW g,
         f[p].owner = a,
         g = [i \in {n} |-> [owner |-> a, name |-> s, parent |-> p, auth |-> v]],
         \A i \in DOMAIN f : ~(f[i].owner = a /\ f[i].name = s)
  PROVE  Sound(Merged(f, g), n + 1)
<1> DEFINE r == [owner |-> a, name |-> s, parent |-> p, auth |-> v]
           h == Merged(f, g)
<1>0. /\ \A x \in DOMAIN f : IsAuthority(f, x, n)
      /\ \A i, j \in DOMAIN f : f[i].owner = f[j].owner /\ f[i].name = f[j].name => i = j
      /\ \A i \in DOMAIN f : \A t \in {"owner", "active"} :
           \E j \in DOMAIN f : f[j].owner = f[i].owner /\ f[j].name = t
  BY SoundMeans, Zenon
<1>1. \A x \in DOMAIN f : IsAuthority(f, x, n)
  BY <1>0
<1>2. /\ \A x \in DOMAIN g : x = n
      /\ n \in DOMAIN g /\ g[n] = r
  OBVIOUS
<1>3. /\ h = [x \in DOMAIN h |-> h[x]]
      /\ \A x \in DOMAIN h : x \in DOMAIN f \/ x \in DOMAIN g
      /\ \A x \in DOMAIN g : x \in DOMAIN h /\ h[x] = g[x]
      /\ \A x \in DOMAIN f : x \in DOMAIN h
      /\ \A x \in DOMAIN f : x \notin DOMAIN g => h[x] = f[x]
  BY MergedFacts
<1> HIDE DEF h
<1>4. \A x \in DOMAIN f : x \notin DOMAIN g /\ h[x] = f[x]
  BY <1>1, <1>2, <1>3 DEF IsAuthority
<1>5. n \in DOMAIN h /\ h[n].owner = a /\ h[n].name = s /\ h[n].parent = p
  BY <1>2, <1>3
<1>6. \A x \in DOMAIN h : x \in DOMAIN f \/ x = n
  BY <1>2, <1>3
<1>7. p \in Nat /\ p < n
  BY <1>1 DEF IsAuthority
<1>8. \A x \in DOMAIN h : IsAuthority(h, x, n + 1)
  BY <1>1, <1>4, <1>5, <1>6, <1>7 DEF IsAuthority
<1>9. \A i, j \in DOMAIN h : h[i].owner = h[j].owner /\ h[i].name = h[j].name => i = j
  <2>. SUFFICES ASSUME NEW i \in DOMAIN h, NEW j \in DOMAIN h,
                       h[i].owner = h[j].owner, h[i].name = h[j].name
       PROVE  i = j
    OBVIOUS
  <2>1. CASE i \in DOMAIN f /\ j \in DOMAIN f
    BY <2>1, <1>4, <1>0
  <2>2. CASE i \notin DOMAIN f /\ j \notin DOMAIN f
    BY <2>2, <1>6
  <2>3. CASE i \in DOMAIN f /\ j \notin DOMAIN f
    BY <2>3, <1>4, <1>5, <1>6
  <2>4. CASE i \notin DOMAIN f /\ j \in DOMAIN f
    BY <2>4, <1>4, <1>5, <1>6
  <2>. QED
    BY <2>1, <2>2, <2>3, <2>4
<1>10. ASSUME NEW i \in DOMAIN h, NEW t \in {"owner", "active"}
       PROVE  \E j \in DOMAIN h : h[j].owner = h[i].owner /\ h[j].name = t
  <2>1. PICK k \in DOMAIN f : h[i].owner = f[k].owner
    BY <1>4, <1>5, <1>6
  <2>2. PICK j \in DOMAIN f : f[j].owner = f[k].owner /\ f[j].name = t
    BY <1>0, ZenonT(60)
  <2>. QED
    BY <2>1, <2>2, <1>3, <1>4
<1>. QED
  BY <1>3, <1>8, <1>9, <1>10 DEF Sound, h

\* updateauth that changes the keys and accounts of an authority.
LEMMA ChangeSound ==
  ASSUME NEW f, NEW n \in Nat, Sound(f, n), NEW x \in DOMAIN f, NEW v
  PROVE  Sound([f EXCEPT ![x].auth = v], n)
<1> DEFINE h == [f EXCEPT ![x].auth = v]
<1>0. /\ \A i \in DOMAIN f : IsAuthority(f, i, n)
      /\ \A i, j \in DOMAIN f : f[i].owner = f[j].owner /\ f[i].name = f[j].name => i = j
      /\ \A i \in DOMAIN f : \A s \in {"owner", "active"} :
           \E j \in DOMAIN f : f[j].owner = f[i].owner /\ f[j].name = s
  BY SoundMeans, Zenon
<1>1. f = [i \in DOMAIN f |-> f[i]]
  BY SoundMeans, Zenon
<1>2. DOMAIN h = DOMAIN f /\ h = [i \in DOMAIN h |-> h[i]]
  BY <1>1
<1>3. ASSUME NEW i \in DOMAIN f
      PROVE  h[i].owner = f[i].owner /\ h[i].name = f[i].name /\ h[i].parent = f[i].parent
  BY <1>1, <1>3
<1> HIDE DEF h
<1>. QED
  <2>1. \A i \in DOMAIN h : IsAuthority(h, i, n)
    BY <1>2, <1>3, <1>0, ZenonT(60) DEF IsAuthority
  <2>2. \A i, j \in DOMAIN h : h[i].owner = h[j].owner /\ h[i].name = h[j].name => i = j
    BY <1>2, <1>3, <1>0
  <2>3. ASSUME NEW i \in DOMAIN h, NEW s \in {"owner", "active"}
        PROVE  \E j \in DOMAIN h : h[j].owner = h[i].owner /\ h[j].name = s
    <3>1. PICK j \in DOMAIN f : f[j].owner = f[i].owner /\ f[j].name = s
      BY <1>2, <1>0, ZenonT(60)
    <3>. QED
      BY <3>1, <1>2, <1>3
  <2>. QED
    BY <2>1, <2>2, <2>3, <1>2, Zenon DEF Sound, h

\* deleteauth of an authority that is neither "owner" nor "active".
LEMMA DeleteSound ==
  ASSUME NEW f, NEW n \in Nat, Sound(f, n), NEW x \in DOMAIN f,
         f[x].name # "owner", f[x].name # "active"
  PROVE  Sound([i \in DOMAIN f \ {x} |-> f[i]], n)
<1> DEFINE h == [i \in DOMAIN f \ {x} |-> f[i]]
<1>0. /\ \A i \in DOMAIN f : IsAuthority(f, i, n)
      /\ \A i, j \in DOMAIN f : f[i].owner = f[j].owner /\ f[i].name = f[j].name => i = j
      /\ \A i \in DOMAIN f : \A s \in {"owner", "active"} :
           \E j \in DOMAIN f : f[j].owner = f[i].owner /\ f[j].name = s
  BY SoundMeans, Zenon
<1>1. h = [i \in DOMAIN h |-> h[i]]
  OBVIOUS
<1>2. /\ \A i \in DOMAIN h : i \in DOMAIN f /\ h[i] = f[i]
      /\ \A i \in DOMAIN f : i # x => i \in DOMAIN h
  OBVIOUS
<1> HIDE DEF h
<1>3. ASSUME NEW i \in DOMAIN h, NEW s \in {"owner", "active"}
      PROVE  \E j \in DOMAIN h : h[j].owner = h[i].owner /\ h[j].name = s
  <2>1. PICK j \in DOMAIN f : f[j].owner = f[i].owner /\ f[j].name = s
    <3>1. i \in DOMAIN f
      BY <1>2
    <3>. QED
      BY <3>1, <1>0, ZenonT(60)
  <2>2. j # x /\ h[i] = f[i]
    BY <2>1, <1>2
  <2>. QED
    BY <2>1, <2>2, <1>2
<1>4. \A i \in DOMAIN h : IsAuthority(h, i, n)
  BY <1>2, <1>0 DEF IsAuthority
<1>5. ASSUME NEW i \in DOMAIN h, NEW j \in DOMAIN h,
             h[i].owner = h[j].owner, h[i].name = h[j].name
      PROVE  i = j
  <2>1. i \in DOMAIN f /\ j \in DOMAIN f /\ h[i] = f[i] /\ h[j] = f[j]
    BY <1>2
  <2>2. f[i].owner = f[j].owner /\ f[i].name = f[j].name
    BY <2>1, <1>5
  <2>. QED
    BY <2>1, <2>2, <1>0, Zenon
<1>6. \A i, j \in DOMAIN h : h[i].owner = h[j].owner /\ h[i].name = h[j].name => i = j
  BY <1>5
<1>. QED
  BY <1>1, <1>3, <1>4, <1>6, Zenon DEF Sound, h

\* The authority objects may change as long as the owners stay the same.
LEMMA SameOwners ==
  ASSUME NEW c, NEW f, NEW h, Rooted(c, f),
         \A i \in DOMAIN h : \E j \in DOMAIN f : f[j].owner = h[i].owner,
         \A i \in DOMAIN f : \E j \in DOMAIN h : h[j].owner = f[i].owner
  PROVE  Rooted(c, h)
<1>1. ASSUME NEW i \in DOMAIN h PROVE h[i].owner \in DOMAIN c /\ c[h[i].owner] = "personal"
  <2>1. PICK j \in DOMAIN f : f[j].owner = h[i].owner
    OBVIOUS
  <2>. QED
    BY <2>1 DEF Rooted
<1>2. ASSUME NEW a \in DOMAIN c, c[a] = "personal" PROVE \E i \in DOMAIN h : h[i].owner = a
  <2>1. PICK i \in DOMAIN f : f[i].owner = a
    BY <1>2 DEF Rooted
  <2>. QED
    BY <2>1
<1>. QED
  BY <1>1, <1>2 DEF Rooted

-----------------------------------------------------------------------------
(* The invariant.                                                          *)

\* The authority with id i at the start.
Genesis(i) ==
  LET a == Initial[(i \div 2) + 1]
  IN Fresh(a.name, 2 * (i \div 2), KeyAuthority(a.owner_key), KeyAuthority(a.active_key))[i]

LEMMA GenesisFacts ==
  ASSUME NEW k \in 1..Len(Initial)
  PROVE  /\ Genesis(2 * (k - 1)).owner = Initial[k].name
         /\ Genesis(2 * (k - 1)).name = "owner" /\ Genesis(2 * (k - 1)).parent = 0
         /\ Genesis(2 * (k - 1) + 1).owner = Initial[k].name
         /\ Genesis(2 * (k - 1) + 1).name = "active"
         /\ Genesis(2 * (k - 1) + 1).parent = 2 * (k - 1)
<1>1. Len(Initial) \in Nat
  BY AuthorityAssumption
<1>2. k \in Nat /\ k - 1 \in Nat /\ 2 * (k - 1) \in Nat
  BY <1>1
<1>3. (2 * (k - 1)) \div 2 = k - 1 /\ (2 * (k - 1) + 1) \div 2 = k - 1 /\ (k - 1) + 1 = k
  BY <1>2
<1> DEFINE id == 2 * (k - 1)
           o == KeyAuthority(Initial[k].owner_key)
           v == KeyAuthority(Initial[k].active_key)
<1>4. /\ Genesis(id) = Fresh(Initial[k].name, id, o, v)[id]
      /\ Genesis(id + 1) = Fresh(Initial[k].name, id, o, v)[id + 1]
  BY <1>3, Zenon DEF Genesis
<1>5. id \in Nat
  BY <1>2
<1> HIDE DEF id, o, v
<1>6. /\ Genesis(id) = [owner |-> Initial[k].name, name |-> "owner", parent |-> 0, auth |-> o]
      /\ Genesis(id + 1) = [owner |-> Initial[k].name, name |-> "active", parent |-> id, auth |-> v]
  BY <1>4, <1>5, FreshFacts
<1>7. /\ Genesis(id).owner = Initial[k].name /\ Genesis(id).name = "owner" /\ Genesis(id).parent = 0
      /\ Genesis(id + 1).owner = Initial[k].name /\ Genesis(id + 1).name = "active"
      /\ Genesis(id + 1).parent = id
  BY <1>6
<1>. QED
  BY <1>7 DEF id

LEMMA InitInv == Init => Inv
<1>. SUFFICES ASSUME Init PROVE Inv
  OBVIOUS
<1> DEFINE L == Len(Initial)
<1>1. L \in Nat /\ MaxIds \in Nat /\ 2 * L <= MaxIds
  BY AuthorityAssumption
<1>2. next = 2 * L /\ next \in Nat
  BY <1>1 DEF Init
<1>3. auths = [i \in 0..(2 * L - 1) |-> Genesis(i)]
  BY Zenon DEF Init, Genesis
<1>4. DOMAIN auths = 0..(2 * L - 1) /\ \A i \in DOMAIN auths : auths[i] = Genesis(i)
  BY <1>3
<1>5. auths = [i \in DOMAIN auths |-> auths[i]]
  BY <1>3
<1>6. ASSUME NEW k \in 1..L
      PROVE  /\ 2 * (k - 1) \in DOMAIN auths /\ 2 * (k - 1) + 1 \in DOMAIN auths
             /\ auths[2 * (k - 1)].owner = Initial[k].name
             /\ auths[2 * (k - 1)].name = "owner" /\ auths[2 * (k - 1)].parent = 0
             /\ auths[2 * (k - 1) + 1].owner = Initial[k].name
             /\ auths[2 * (k - 1) + 1].name = "active"
             /\ auths[2 * (k - 1) + 1].parent = 2 * (k - 1)
  <2>1. 2 * (k - 1) \in DOMAIN auths /\ 2 * (k - 1) + 1 \in DOMAIN auths
    BY <1>1, <1>4
  <2>. QED
    BY <2>1, <1>4, GenesisFacts
<1>7. ASSUME NEW i \in DOMAIN auths
      PROVE  \E k \in 1..L : i = 2 * (k - 1) \/ i = 2 * (k - 1) + 1
  <2>1. i \in Nat /\ i < 2 * L
    BY <1>1, <1>4
  <2>2. PICK q \in Nat : i = 2 * q \/ i = 2 * q + 1
    <3>1. i \div 2 \in Nat /\ (i = 2 * (i \div 2) \/ i = 2 * (i \div 2) + 1)
      BY <2>1
    <3>. QED
      BY <3>1
  <2>3. q + 1 \in 1..L /\ (q + 1) - 1 = q
    BY <2>1, <2>2, <1>1
  <2>. QED
    BY <2>2, <2>3
<1>8. ASSUME NEW k \in 1..L
      PROVE  Initial[k].name \in Accounts
  <2> DEFINE R == [name : Accounts, owner_key : Keys, active_key : Keys]
  <2>0. Initial \in Seq(R)
    BY AuthorityAssumption, Zenon
  <2> HIDE DEF R
  <2>1. Initial[k] \in R
    BY <2>0
  <2> USE DEF R
  <2>. QED
    BY <2>1
<1>9. \A j, k \in 1..L : Initial[j].name = Initial[k].name => j = k
  BY AuthorityAssumption
<1> HIDE DEF L
<1>10. \A i \in DOMAIN auths : IsAuthority(auths, i, next)
  <2>. SUFFICES ASSUME NEW i \in DOMAIN auths PROVE IsAuthority(auths, i, next)
    OBVIOUS
  <2>1. PICK k \in 1..L : i = 2 * (k - 1) \/ i = 2 * (k - 1) + 1
    BY <1>7
  <2>2. k \in Nat /\ k >= 1 /\ k <= L
    BY <1>1
  <2>3. i \in Nat /\ i < next
    BY <2>1, <2>2, <1>1, <1>2
  <2>4. /\ auths[i].owner = Initial[k].name
        /\ auths[i].name \in {"owner", "active"}
        /\ \/ auths[i].name = "owner" /\ auths[i].parent = 0
           \/ auths[i].parent = 2 * (k - 1) /\ i = 2 * (k - 1) + 1
    BY <2>1, <1>6
  <2>5. auths[i].parent \in Nat /\ auths[i].parent < next
    <3>1. CASE auths[i].parent = 0
      BY <3>1, <2>3, <1>2
    <3>2. CASE auths[i].parent = 2 * (k - 1) /\ i = 2 * (k - 1) + 1
      BY <3>2, <2>2, <2>3, <1>2
    <3>. QED
      BY <2>4, <3>1, <3>2
  <2>6. auths[i].parent < i \/ auths[i].name = "owner"
    BY <2>2, <2>4
  <2>. QED
    BY <2>3, <2>4, <2>5, <2>6, <1>8 DEF IsAuthority, AllNames
<1>11. \A i, j \in DOMAIN auths :
         auths[i].owner = auths[j].owner /\ auths[i].name = auths[j].name => i = j
  <2>. SUFFICES ASSUME NEW i \in DOMAIN auths, NEW j \in DOMAIN auths,
                       auths[i].owner = auths[j].owner, auths[i].name = auths[j].name
       PROVE  i = j
    OBVIOUS
  <2>1. PICK k \in 1..L : i = 2 * (k - 1) \/ i = 2 * (k - 1) + 1
    BY <1>7
  <2>2. PICK h \in 1..L : j = 2 * (h - 1) \/ j = 2 * (h - 1) + 1
    BY <1>7
  <2>3. auths[i].owner = Initial[k].name /\ auths[j].owner = Initial[h].name
    BY <2>1, <2>2, <1>6
  <2>4. k = h
    BY <2>3, <1>9
  <2>. QED
    BY <2>1, <2>2, <2>4, <1>6
<1>12. ASSUME NEW i \in DOMAIN auths, NEW s \in {"owner", "active"}
       PROVE  \E j \in DOMAIN auths : auths[j].owner = auths[i].owner /\ auths[j].name = s
  <2>1. PICK k \in 1..L : i = 2 * (k - 1) \/ i = 2 * (k - 1) + 1
    BY <1>7
  <2>2. auths[i].owner = Initial[k].name
    BY <2>1, <1>6
  <2>. QED
    BY <2>2, <1>6
<1>13. Sound(auths, next)
  BY <1>5, <1>10, <1>11, <1>12, Zenon DEF Sound
<1>14. links = <<>> /\ links = [k \in DOMAIN links |-> links[k]] /\ DOMAIN links = {}
  BY DEF Init
<1>15. DOMAIN links \subseteq Accounts \X {System} \X Funcs
  BY <1>14, Zenon
<1>16. next <= MaxIds
  BY <1>1, <1>2
<1>17. Rooted(accounts, auths)
  <2>. DEFINE names == {Initial[k].name : k \in 1..L}
  <2>1. accounts = [a \in {System} \cup names |-> IF a = System THEN "system" ELSE "personal"]
    BY DEF Init, L
  <2>2. \A k \in 1..L : Initial[k].name # System
    BY AuthorityAssumption DEF L
  <2>3. \A a \in names : a \in Accounts /\ a # System
    BY <1>8, <2>2
  <2>4. \A a \in names : \E i \in DOMAIN auths : auths[i].owner = a
    BY <1>6
  <2>5. ASSUME NEW i \in DOMAIN auths PROVE auths[i].owner \in names
    <3>1. PICK k \in 1..L : i = 2 * (k - 1) \/ i = 2 * (k - 1) + 1
      BY <1>7
    <3>2. auths[i].owner = Initial[k].name
      BY <3>1, <1>6
    <3>. QED
      BY <3>2
  <2>. HIDE DEF names
  <2>6. /\ DOMAIN accounts = {System} \cup names /\ accounts[System] = "system"
        /\ \A a \in names : accounts[a] = "personal"
    BY <2>1, <2>3
  <2>. QED
    BY <2>3, <2>4, <2>5, <2>6 DEF Rooted, AccountTypes
<1>. QED
  BY <1>2, <1>13, <1>14, <1>15, <1>16, <1>17 DEF Inv

\* The account that a message is about exists as a name, and so does the authority.
LEMMA MessageTypes ==
  ASSUME NEW au \in Declared
  PROVE  /\ \A m \in AddMessages(au) : m.account \in Accounts
         /\ \A m \in ContractMessages(au) : m.account \in Accounts
         /\ \A m \in UpdateMessages(au) : m.account \in Accounts /\ m.permission \in AllNames
         /\ \A m \in LinkMessages(au) : m.account \in Accounts /\ m.func \in Funcs
<1>1. au.account \in Accounts
  BY DEF Declared
<1>2. /\ \A m \in AddMessages(au) : m.account \in Accounts
      /\ \A m \in ContractMessages(au) : m.account \in Accounts
  BY DEF AddMessages, ContractMessages
<1>3. \A m \in UpdateMessages(au) : m.account = au.account /\ m.permission \in AllNames
  BY DEF UpdateMessages
<1>4. \A m \in LinkMessages(au) : m.account = au.account /\ m.func \in Funcs
  BY DEF LinkMessages
<1>. QED
  BY <1>1, <1>2, <1>3, <1>4

LEMMA AddInv ==
  ASSUME Inv, NEW m, m.account \in Accounts, AddAccount(m)
  PROVE  Inv'
<1>1. next \in Nat /\ next + 1 < MaxIds /\ MaxIds \in Nat /\ Sound(auths, next)
  BY AuthorityAssumption DEF Inv, AddAccount
<1>2. m.account \notin DOMAIN accounts /\ Rooted(accounts, auths)
  BY DEF AddAccount, HasAccount, Inv
<1>6. \A i \in DOMAIN auths : auths[i].owner # m.account
  BY <1>2 DEF Rooted
<1>3. /\ auths' = Merged(auths, Fresh(m.account, next, m.auth, m.auth))
      /\ accounts' = Merged(accounts, [a \in {m.account} |-> "personal"])
      /\ next' = next + 2 /\ UNCHANGED links
  BY DEF AddAccount
<1>4. Sound(auths', next + 2)
  BY <1>1, <1>3, <1>6, AddSound
<1>5. next' \in Nat /\ next' <= MaxIds
  BY <1>1, <1>3
<1>7. /\ DOMAIN accounts' = DOMAIN accounts \cup {m.account}
      /\ accounts'[m.account] = "personal"
      /\ \A a \in DOMAIN accounts : accounts'[a] = accounts[a]
  BY <1>2, <1>3 DEF Merged
<1>8. /\ \A i \in DOMAIN auths' :
           \/ i \in DOMAIN auths /\ auths'[i] = auths[i]
           \/ auths'[i].owner = m.account
      /\ \A i \in DOMAIN auths : i \in DOMAIN auths' /\ auths'[i] = auths[i]
      /\ next \in DOMAIN auths' /\ auths'[next].owner = m.account
  <2>. DEFINE g == Fresh(m.account, next, m.auth, m.auth)
  <2>0. /\ \A x \in DOMAIN g : x = next \/ x = next + 1
        /\ next \in DOMAIN g
        /\ g[next] = [owner |-> m.account, name |-> "owner", parent |-> 0, auth |-> m.auth]
        /\ g[next + 1] = [owner |-> m.account, name |-> "active", parent |-> next, auth |-> m.auth]
    BY <1>1, FreshFacts
  <2>2. \A x \in DOMAIN auths : x \in Nat /\ x < next
    BY <1>1, SoundMeans DEF IsAuthority
  <2>. HIDE DEF g
  <2>1. /\ \A x \in DOMAIN g : x = next \/ x = next + 1
        /\ next \in DOMAIN g /\ g[next].owner = m.account /\ g[next + 1].owner = m.account
    BY <2>0
  <2>3. auths' = Merged(auths, g)
    BY <1>3 DEF g
  <2>4. /\ \A x \in DOMAIN auths' : x \in DOMAIN auths \/ x \in DOMAIN g
        /\ \A x \in DOMAIN g : x \in DOMAIN auths' /\ auths'[x] = g[x]
        /\ \A x \in DOMAIN auths : x \in DOMAIN auths'
        /\ \A x \in DOMAIN auths : x \notin DOMAIN g => auths'[x] = auths[x]
    BY <2>3, MergedFacts
  <2>5. \A x \in DOMAIN auths : x \notin DOMAIN g
    BY <1>1, <2>1, <2>2
  <2>. QED
    BY <2>1, <2>4, <2>5
<1>9. Rooted(accounts', auths')
  <2>1. \A a \in DOMAIN accounts' : a \in DOMAIN accounts \/ a = m.account
    BY <1>7
  <2>2. DOMAIN accounts' \subseteq Accounts \cup {System}
    BY <1>2, <1>7 DEF Rooted
  <2>3. \A a \in DOMAIN accounts' : accounts'[a] \in AccountTypes
    BY <1>2, <1>7 DEF Rooted, AccountTypes
  <2>4. ASSUME NEW i \in DOMAIN auths'
        PROVE  auths'[i].owner \in DOMAIN accounts' /\ accounts'[auths'[i].owner] = "personal"
    BY <1>2, <1>7, <1>8 DEF Rooted
  <2>5. ASSUME NEW a \in DOMAIN accounts', accounts'[a] = "personal"
        PROVE  \E i \in DOMAIN auths' : auths'[i].owner = a
    <3>1. CASE a = m.account
      BY <1>8, <3>1
    <3>2. CASE a \in DOMAIN accounts
      <4>1. PICK i \in DOMAIN auths : auths[i].owner = a
        BY <1>2, <1>7, <2>5, <3>2 DEF Rooted
      <4>. QED
        BY <1>8, <4>1
    <3>. QED
      BY <2>1, <3>1, <3>2
  <2>. QED
    BY <2>2, <2>3, <2>4, <2>5 DEF Rooted
<1>. QED
  BY <1>3, <1>4, <1>5, <1>9 DEF Inv

LEMMA ContractInv ==
  ASSUME Inv, NEW m, m.account \in Accounts, AddContract(m)
  PROVE  Inv'
<1>1. /\ m.account \notin DOMAIN accounts /\ Rooted(accounts, auths)
      /\ accounts' = Merged(accounts, [a \in {m.account} |-> "contract"])
      /\ UNCHANGED <<auths, links, next>>
  BY DEF AddContract, HasAccount, Inv
<1>2. /\ DOMAIN accounts' = DOMAIN accounts \cup {m.account}
      /\ accounts'[m.account] = "contract"
      /\ \A a \in DOMAIN accounts : accounts'[a] = accounts[a]
  BY <1>1 DEF Merged
<1>3. /\ DOMAIN accounts' \subseteq Accounts \cup {System}
      /\ \A a \in DOMAIN accounts' : accounts'[a] \in AccountTypes
  BY <1>1, <1>2 DEF Rooted, AccountTypes
<1>4. \A a \in DOMAIN accounts' : accounts'[a] = "personal"
        => a \in DOMAIN accounts /\ accounts[a] = "personal"
  BY <1>2
<1>5. Rooted(accounts', auths)
  BY <1>1, <1>2, <1>3, <1>4 DEF Rooted
<1>. QED
  BY <1>1, <1>5 DEF Inv

LEMMA UpdateInv ==
  ASSUME Inv, NEW m, m.account \in Accounts, m.permission \in AllNames, UpdateAuth(m)
  PROVE  Inv'
<1> DEFINE up == [account |-> m.account, authority |-> m.parent]
           au == [account |-> m.account, authority |-> m.permission]
           p == IdOf(up)
<1>1. Exists(up) /\ SetAuth(m, p) /\ UNCHANGED <<accounts, links>>
  BY DEF UpdateAuth
<1>2. /\ next \in Nat /\ next <= MaxIds /\ MaxIds \in Nat
      /\ Sound(auths, next) /\ Rooted(accounts, auths)
  BY AuthorityAssumption DEF Inv
<1>3. p \in DOMAIN auths /\ auths[p].owner = m.account
  BY <1>1, Found
<1>4. CASE /\ Exists(au)
           /\ auths' = [auths EXCEPT ![IdOf(au)].auth = Assigned(auths[IdOf(au)].auth, m.auth)]
           /\ next' = next
  <2>1. IdOf(au) \in DOMAIN auths
    BY <1>4, Found
  <2>2. Sound([auths EXCEPT ![IdOf(au)].auth = Assigned(auths[IdOf(au)].auth, m.auth)], next)
    BY <2>1, <1>2, ChangeSound, Zenon
  <2>3. Rooted(accounts, auths')
    <3>. DEFINE v == Assigned(auths[IdOf(au)].auth, m.auth)
                x == IdOf(au)
    <3>1. auths' = [auths EXCEPT ![x].auth = v] /\ auths = [i \in DOMAIN auths |-> auths[i]]
      BY <1>2, <1>4, SoundMeans, Zenon
    <3>. HIDE DEF v, x
    <3>2. DOMAIN auths' = DOMAIN auths /\ \A i \in DOMAIN auths : auths'[i].owner = auths[i].owner
      BY <3>1
    <3>. QED
      BY <1>2, <3>2, SameOwners, Zenon
  <2>. QED
    BY <2>2, <2>3, <1>1, <1>2, <1>4, Zenon DEF Inv
<1>5. CASE /\ ~Exists(au) /\ next < MaxIds
           /\ auths' = Merged(auths, [i \in {next} |->
                                [owner |-> m.account, name |-> m.permission,
                                 parent |-> p, auth |-> m.auth]])
           /\ next' = next + 1
  <2>1. \A i \in DOMAIN auths :
          ~(auths[i].owner = m.account /\ auths[i].name = m.permission)
    BY <1>5, NotFound
  <2> HIDE DEF p
  <2> DEFINE g == [i \in {next} |-> [owner |-> m.account, name |-> m.permission,
                                     parent |-> p, auth |-> m.auth]]
  <2>2. Sound(Merged(auths, g), next + 1)
    <3>1. g = [i \in {next} |-> [owner |-> m.account, name |-> m.permission,
                                parent |-> p, auth |-> m.auth]]
      OBVIOUS
    <3> HIDE DEF g
    <3>. QED
      BY <2>1, <1>2, <1>3, <3>1, MakeSound
  <2>3. next' \in Nat /\ next' <= MaxIds
    BY <1>2, <1>5
  <2>4. Rooted(accounts, auths')
    <3>1. auths' = Merged(auths, g) /\ (\A x \in DOMAIN g : x = next) /\ g[next].owner = m.account
      BY <1>5
    <3>. HIDE DEF g
    <3>2. /\ \A x \in DOMAIN auths' : x \in DOMAIN auths \/ x \in DOMAIN g
          /\ \A x \in DOMAIN g : x \in DOMAIN auths' /\ auths'[x] = g[x]
          /\ \A x \in DOMAIN auths : x \in DOMAIN auths'
          /\ \A x \in DOMAIN auths : x \notin DOMAIN g => auths'[x] = auths[x]
      BY <3>1, MergedFacts
    <3>3. \A x \in DOMAIN auths : x \in Nat /\ x < next
      BY <1>2, SoundMeans DEF IsAuthority
    <3>4. \A x \in DOMAIN auths : x \in DOMAIN auths' /\ auths'[x] = auths[x]
      BY <1>2, <3>1, <3>2, <3>3
    <3>5. \A x \in DOMAIN auths' : \E j \in DOMAIN auths : auths[j].owner = auths'[x].owner
      BY <1>3, <3>1, <3>2, <3>4
    <3>. QED
      BY <1>2, <3>4, <3>5, SameOwners, Zenon
  <2>. QED
    BY <2>2, <2>3, <2>4, <1>1, <1>5, Zenon DEF Inv
<1>. QED
  BY <1>1, <1>4, <1>5 DEF SetAuth

LEMMA DeleteInv ==
  ASSUME Inv, NEW m, DeleteAuth(m)
  PROVE  Inv'
<1> DEFINE au == [account |-> m.account, authority |-> m.permission]
           x == IdOf(au)
<1>1. /\ Exists(au) /\ m.permission # "active" /\ m.permission # "owner"
      /\ auths' = [i \in DOMAIN auths \ {x} |-> auths[i]]
      /\ UNCHANGED <<accounts, links, next>>
  BY DEF DeleteAuth, Deletable
<1>2. x \in DOMAIN auths /\ auths[x].name = m.permission
  BY <1>1, Found
<1>3. next \in Nat /\ Sound(auths, next) /\ Rooted(accounts, auths)
  BY DEF Inv
<1> HIDE DEF x
<1>4. Sound(auths', next)
  BY <1>1, <1>2, <1>3, DeleteSound
<1>5. /\ \A i \in DOMAIN auths' : i \in DOMAIN auths /\ auths'[i] = auths[i]
      /\ \A i \in DOMAIN auths : i # x => i \in DOMAIN auths'
  BY <1>1
<1>6. ASSUME NEW i \in DOMAIN auths PROVE \E j \in DOMAIN auths' : auths'[j].owner = auths[i].owner
  <2>1. \A k \in DOMAIN auths : \A s \in {"owner", "active"} :
          \E j \in DOMAIN auths : auths[j].owner = auths[k].owner /\ auths[j].name = s
    BY <1>3, SoundMeans, Zenon
  <2>2. PICK j \in DOMAIN auths : auths[j].owner = auths[i].owner /\ auths[j].name = "owner"
    BY <2>1
  <2>. QED
    BY <1>1, <1>2, <1>5, <2>2
<1>7. Rooted(accounts, auths')
  BY <1>3, <1>5, <1>6, SameOwners, Zenon
<1>. QED
  BY <1>1, <1>4, <1>7 DEF Inv

LEMMA LinkInv ==
  ASSUME Inv, NEW m, m.account \in Accounts, m.func \in Funcs, LinkAuth(m)
  PROVE  Inv'
<1> DEFINE k == <<m.account, System, m.func>>
           g == [x \in {k} |-> m.permission]
<1>1. links' = Merged(links, g) /\ UNCHANGED <<accounts, auths, next>>
  BY DEF LinkAuth
<1>2. k \in Accounts \X {System} \X Funcs
  OBVIOUS
<1>3. \A x \in DOMAIN g : x = k
  OBVIOUS
<1> HIDE DEF k, g
<1>4. /\ links' = [x \in DOMAIN links' |-> links'[x]]
      /\ \A x \in DOMAIN links' : x \in DOMAIN links \/ x \in DOMAIN g
  BY <1>1, MergedFacts
<1>5. DOMAIN links' \subseteq Accounts \X {System} \X Funcs
  BY <1>2, <1>3, <1>4 DEF Inv
<1>. QED
  BY <1>1, <1>4, <1>5 DEF Inv

LEMMA UnlinkInv ==
  ASSUME Inv, NEW m, UnlinkAuth(m)
  PROVE  Inv'
<1> DEFINE k == <<m.account, System, m.func>>
<1>1. links' = [x \in DOMAIN links \ {k} |-> links[x]] /\ UNCHANGED <<accounts, auths, next>>
  BY DEF UnlinkAuth
<1> HIDE DEF k
<1>2. /\ links' = [x \in DOMAIN links' |-> links'[x]]
      /\ \A x \in DOMAIN links' : x \in DOMAIN links
  BY <1>1
<1>3. DOMAIN links' \subseteq Accounts \X {System} \X Funcs
  BY <1>2 DEF Inv
<1>. QED
  BY <1>1, <1>2, <1>3 DEF Inv

LEMMA NextInv == Inv /\ [Next]_vars => Inv'
<1>. SUFFICES ASSUME Inv, [Next]_vars PROVE Inv'
  OBVIOUS
<1>1. ASSUME NEW au \in Declared, NEW m \in AddMessages(au), AddAccount(m) PROVE Inv'
  BY <1>1, MessageTypes, AddInv
<1>2. ASSUME NEW au \in Declared, NEW m \in UpdateMessages(au), UpdateAuth(m) PROVE Inv'
  BY <1>2, MessageTypes, UpdateInv
<1>3. ASSUME NEW au \in Declared, NEW m \in DeleteMessages(au), DeleteAuth(m) PROVE Inv'
  BY <1>3, DeleteInv
<1>4. ASSUME NEW au \in Declared, NEW m \in LinkMessages(au), LinkAuth(m) PROVE Inv'
  BY <1>4, MessageTypes, LinkInv
<1>5. ASSUME NEW au \in Declared, NEW m \in UnlinkMessages(au), UnlinkAuth(m) PROVE Inv'
  BY <1>5, UnlinkInv
<1>6. CASE UNCHANGED vars
  BY <1>6 DEF Inv, vars
<1>7. ASSUME NEW au \in Declared, NEW m \in ContractMessages(au), AddContract(m) PROVE Inv'
  BY <1>7, MessageTypes, ContractInv
<1>. QED
  BY <1>1, <1>2, <1>3, <1>4, <1>5, <1>6, <1>7 DEF Next

LEMMA InvAlways == Spec => []Inv
BY InitInv, NextInv, PTL DEF Spec

-----------------------------------------------------------------------------
\* Ids are below the next one, names and parents are what they should be, and no
\* sequence of messages gives an account two authorities of the same name, so that
\* find_authority_object has at most one answer.
THEOREM TypeCorrect == Spec => []TypeOK
<1>1. Inv => TypeOK
  <2>. SUFFICES ASSUME Inv PROVE TypeOK
    OBVIOUS
  <2>1. next \in Nat /\ next <= MaxIds /\ MaxIds \in Nat
    BY AuthorityAssumption DEF Inv
  <2>2. /\ \A i \in DOMAIN auths : IsAuthority(auths, i, next)
        /\ \A i, j \in DOMAIN auths :
             auths[i].owner = auths[j].owner /\ auths[i].name = auths[j].name => i = j
    BY SoundMeans, Zenon DEF Inv
  <2>3. DOMAIN auths \subseteq 0..(next - 1) /\ next \in 0..MaxIds
    BY <2>1, <2>2 DEF IsAuthority
  <2>4. ASSUME NEW i \in DOMAIN auths
        PROVE  /\ auths[i].owner \in Accounts /\ auths[i].name \in AllNames
               /\ auths[i].parent \in 0..MaxIds
    BY <2>1, <2>2 DEF IsAuthority
  <2>5. ASSUME NEW au \in Declared
        PROVE  Cardinality(Ids(au)) <= 1
    <3>1. CASE Ids(au) = {}
      BY <3>1, FS_EmptySet
    <3>2. CASE Ids(au) # {}
      <4>1. PICK i : i \in Ids(au)
        BY <3>2
      <4>2. \A j \in Ids(au) : j = i
        BY <4>1, <2>2 DEF Ids
      <4>3. Ids(au) = {i}
        BY <4>1, <4>2
      <4>. QED
        BY <4>3, FS_Singleton
    <3>. QED
      BY <3>1, <3>2
  <2>6. DOMAIN links \subseteq Accounts \X {System} \X Funcs
    BY DEF Inv
  <2>7. /\ DOMAIN accounts \subseteq Accounts \cup {System}
        /\ \A a \in DOMAIN accounts : accounts[a] \in AccountTypes
    BY DEF Inv, Rooted
  <2>. QED
    BY <2>3, <2>4, <2>5, <2>6, <2>7 DEF TypeOK
<1>. QED
  BY <1>1, InvAlways, PTL

\* However accounts, contracts and authorities are made, changed and deleted, every
\* personal account keeps its "owner" and its "active", only personal accounts have
\* authorities, and the parents of an authority are older than it:
\* parent_permission_valid never walks in a circle.
THEOREM AlwaysRooted == Spec => []AuthoritiesRooted
<1>1. Inv => AuthoritiesRooted
  <2>. SUFFICES ASSUME Inv PROVE AuthoritiesRooted
    OBVIOUS
  <2>1. /\ \A i \in DOMAIN auths : IsAuthority(auths, i, next)
        /\ \A i \in DOMAIN auths : \A s \in {"owner", "active"} :
             \E j \in DOMAIN auths : auths[j].owner = auths[i].owner /\ auths[j].name = s
    BY SoundMeans, Zenon DEF Inv
  <2>2. \A i \in DOMAIN auths : auths[i].parent < i \/ auths[i].name = "owner"
    BY <2>1 DEF IsAuthority
  <2>0. Rooted(accounts, auths)
    BY DEF Inv
  <2>3. ASSUME NEW a \in DOMAIN accounts, accounts[a] = "personal", NEW n \in {"owner", "active"}
        PROVE  Exists([account |-> a, authority |-> n])
    <3>1. PICK i \in DOMAIN auths : auths[i].owner = a
      BY <2>0, <2>3 DEF Rooted
    <3>2. PICK j \in DOMAIN auths : auths[j].owner = a /\ auths[j].name = n
      BY <3>1, <2>1
    <3>. QED
      BY <3>2 DEF Exists, Ids
  <2>4. \A i \in DOMAIN auths : HasAccount(auths[i].owner) /\ accounts[auths[i].owner] = "personal"
    BY <2>0 DEF Rooted, HasAccount
  <2>. QED
    BY <2>2, <2>3, <2>4 DEF AuthoritiesRooted
<1>. QED
  BY <1>1, InvAlways, PTL

-----------------------------------------------------------------------------
(* Parents.                                                                *)

\* authority_object
Objects == [owner : Accounts, name : AllNames, parent : Nat, auth : Authorities]

\* The authority objects f: an owner has no parent, the parent of another, while
\* it is there, is of the same account, and the contents are authorities.
Kin(f) ==
  /\ \A i \in DOMAIN f : f[i].name = "owner" => f[i].parent = 0
  /\ \A i \in DOMAIN f : f[i].name # "owner" /\ f[i].parent \in DOMAIN f
                           => f[f[i].parent].owner = f[i].owner
  /\ \A i \in DOMAIN f : f[i] \in Objects

LEMMA AddKin ==
  ASSUME NEW f, NEW n \in Nat, Sound(f, n), Kin(f), NEW a \in Accounts, NEW v \in Authorities
  PROVE  Kin(Merged(f, Fresh(a, n, v, v)))
<1> DEFINE g == Fresh(a, n, v, v)
           h == Merged(f, g)
<1>1. \A x \in DOMAIN f : IsAuthority(f, x, n)
  BY SoundMeans, Zenon
<1>2. /\ \A x \in DOMAIN g : x = n \/ x = n + 1
      /\ n \in DOMAIN g /\ n + 1 \in DOMAIN g
      /\ g[n] = [owner |-> a, name |-> "owner", parent |-> 0, auth |-> v]
      /\ g[n + 1] = [owner |-> a, name |-> "active", parent |-> n, auth |-> v]
  BY FreshFacts
<1>3. /\ \A x \in DOMAIN h : x \in DOMAIN f \/ x \in DOMAIN g
      /\ \A x \in DOMAIN g : x \in DOMAIN h /\ h[x] = g[x]
      /\ \A x \in DOMAIN f : x \in DOMAIN h
      /\ \A x \in DOMAIN f : x \notin DOMAIN g => h[x] = f[x]
  BY MergedFacts
<1> HIDE DEF g, h
<1>4. \A x \in DOMAIN f : x \notin DOMAIN g /\ h[x] = f[x]
  BY <1>1, <1>2, <1>3 DEF IsAuthority
<1>5. /\ n \in DOMAIN h /\ h[n].owner = a /\ h[n].name = "owner" /\ h[n].parent = 0
      /\ n + 1 \in DOMAIN h /\ h[n + 1].owner = a /\ h[n + 1].name = "active"
      /\ h[n + 1].parent = n
  BY <1>2, <1>3
<1>9. h[n] \in Objects /\ h[n + 1] \in Objects
  <2>1. h[n] = g[n] /\ h[n + 1] = g[n + 1] /\ 0 \in Nat /\ "owner" \in AllNames /\ "active" \in AllNames
    BY <1>2, <1>3 DEF AllNames
  <2>. QED
    BY <2>1, <1>2 DEF Objects
<1>6. \A x \in DOMAIN h : x \in DOMAIN f \/ x = n \/ x = n + 1
  BY <1>2, <1>3
<1>7. ASSUME NEW x \in DOMAIN f
      PROVE  /\ h[x].name = "owner" => h[x].parent = 0
             /\ h[x].name # "owner" /\ h[x].parent \in DOMAIN h => h[h[x].parent].owner = h[x].owner
             /\ h[x] \in Objects
  <2>1. h[x] = f[x]
    BY <1>4
  <2>2. f[x].parent # n /\ f[x].parent # n + 1
    BY <1>1 DEF IsAuthority
  <2>3. f[x].parent \in DOMAIN h => f[x].parent \in DOMAIN f /\ h[f[x].parent] = f[f[x].parent]
    BY <2>2, <1>4, <1>6
  <2>. QED
    BY <2>1, <2>3 DEF Kin
<1>8. Kin(h)
  BY <1>5, <1>6, <1>7, <1>9 DEF Kin
<1>. QED
  BY <1>8 DEF h, g

LEMMA MakeKin ==
  ASSUME NEW f, NEW n \in Nat, Sound(f, n), Kin(f), NEW a \in Accounts, NEW s \in AllNames, s # "owner",
         NEW p \in DOMAIN f, NEW v \in Authorities, NEW g, f[p].owner = a,
         g = [i \in {n} |-> [owner |-> a, name |-> s, parent |-> p, auth |-> v]]
  PROVE  Kin(Merged(f, g))
<1> DEFINE r == [owner |-> a, name |-> s, parent |-> p, auth |-> v]
           h == Merged(f, g)
<1>1. \A x \in DOMAIN f : IsAuthority(f, x, n)
  BY SoundMeans, Zenon
<1>2. (\A x \in DOMAIN g : x = n) /\ n \in DOMAIN g /\ g[n] = r
  OBVIOUS
<1>3. /\ \A x \in DOMAIN h : x \in DOMAIN f \/ x \in DOMAIN g
      /\ \A x \in DOMAIN g : x \in DOMAIN h /\ h[x] = g[x]
      /\ \A x \in DOMAIN f : x \in DOMAIN h
      /\ \A x \in DOMAIN f : x \notin DOMAIN g => h[x] = f[x]
  BY MergedFacts
<1> HIDE DEF h
<1>4. \A x \in DOMAIN f : x \notin DOMAIN g /\ h[x] = f[x]
  BY <1>1, <1>2, <1>3 DEF IsAuthority
<1>5. /\ n \in DOMAIN h /\ h[n].owner = a /\ h[n].name = s /\ h[n].parent = p
      /\ h[p] = f[p]
  BY <1>2, <1>3, <1>4
<1>9. h[n] \in Objects
  <2>1. h[n] = r /\ p \in Nat
    BY <1>1, <1>2, <1>3 DEF IsAuthority
  <2>. QED
    BY <2>1 DEF Objects
<1>6. \A x \in DOMAIN h : x \in DOMAIN f \/ x = n
  BY <1>2, <1>3
<1>7. ASSUME NEW x \in DOMAIN f
      PROVE  /\ h[x].name = "owner" => h[x].parent = 0
             /\ h[x].name # "owner" /\ h[x].parent \in DOMAIN h => h[h[x].parent].owner = h[x].owner
             /\ h[x] \in Objects
  <2>1. h[x] = f[x]
    BY <1>4
  <2>2. f[x].parent # n
    BY <1>1 DEF IsAuthority
  <2>3. f[x].parent \in DOMAIN h => f[x].parent \in DOMAIN f /\ h[f[x].parent] = f[f[x].parent]
    BY <2>2, <1>4, <1>6
  <2>. QED
    BY <2>1, <2>3 DEF Kin
<1>8. Kin(h)
  BY <1>5, <1>6, <1>7, <1>9 DEF Kin
<1>. QED
  BY <1>8 DEF h

LEMMA AssignedType ==
  ASSUME NEW u \in Authorities, NEW v \in Authorities
  PROVE  Assigned(u, v) \in Authorities
<1> DEFINE K == [key : Keys, weight : Nat]
           A == [auth : Declared, weight : Nat]
<1>1. /\ u.keys \in Seq(K) /\ v.keys \in Seq(K) /\ u.accounts \in Seq(A) /\ v.accounts \in Seq(A)
      /\ v.threshold \in 0..(ThresholdRange - 1)
  BY Zenon DEF Authorities
<1> HIDE DEF K, A
<1>2. u.keys \o v.keys \in Seq(K) /\ u.accounts \o v.accounts \in Seq(A)
  BY <1>1
<1>. QED
  BY <1>1, <1>2, Zenon DEF Assigned, Authorities, K, A

LEMMA ChangeKin ==
  ASSUME NEW f, NEW n \in Nat, Sound(f, n), Kin(f), NEW x \in DOMAIN f, NEW v \in Authorities
  PROVE  Kin([f EXCEPT ![x].auth = v])
<1> DEFINE h == [f EXCEPT ![x].auth = v]
<1>1. f = [i \in DOMAIN f |-> f[i]]
  BY SoundMeans, Zenon
<1>2. DOMAIN h = DOMAIN f
  BY <1>1
<1>3. ASSUME NEW i \in DOMAIN f
      PROVE  h[i].owner = f[i].owner /\ h[i].name = f[i].name /\ h[i].parent = f[i].parent
  BY <1>1, <1>3
<1>4. ASSUME NEW i \in DOMAIN f PROVE h[i] \in Objects
  <2>1. CASE i = x
    <3>1. h[i] = [f[x] EXCEPT !.auth = v] /\ f[x] \in Objects
      BY <1>1, <2>1 DEF Kin
    <3>. QED
      BY <3>1 DEF Objects
  <2>2. CASE i # x
    BY <1>1, <2>2 DEF Kin
  <2>. QED
    BY <2>1, <2>2
<1> HIDE DEF h
<1>5. Kin(h)
  BY <1>2, <1>3, <1>4 DEF Kin
<1>. QED
  BY <1>5 DEF h

LEMMA DeleteKin ==
  ASSUME NEW f, Kin(f), NEW x
  PROVE  Kin([i \in DOMAIN f \ {x} |-> f[i]])
BY DEF Kin

LEMMA InitKin == Init => Kin(auths)
<1>. SUFFICES ASSUME Init PROVE Kin(auths)
  OBVIOUS
<1> DEFINE L == Len(Initial)
<1>1. L \in Nat
  BY AuthorityAssumption
<1>2. auths = [i \in 0..(2 * L - 1) |-> Genesis(i)]
  BY Zenon DEF Init, Genesis
<1>3. DOMAIN auths = 0..(2 * L - 1) /\ \A i \in DOMAIN auths : auths[i] = Genesis(i)
  BY <1>2
<1>4. ASSUME NEW k \in Keys PROVE KeyAuthority(k) \in Authorities
  <2> DEFINE K == [key : Keys, weight : Nat]
             A == [auth : Declared, weight : Nat]
             e == [key |-> k, weight |-> 1]
  <2>1. e \in K /\ 1 \in 0..(ThresholdRange - 1)
    BY AuthorityAssumption
  <2> HIDE DEF K, A, e
  <2>2. <<e>> \in Seq(K) /\ <<>> \in Seq(A)
    BY <2>1
  <2>. QED
    BY <2>1, <2>2, Zenon DEF KeyAuthority, Authorities, K, A, e
<1>5. ASSUME NEW i \in DOMAIN auths
      PROVE  /\ auths[i].name = "owner" => auths[i].parent = 0
             /\ auths[i].name # "owner" /\ auths[i].parent \in DOMAIN auths
                  => auths[auths[i].parent].owner = auths[i].owner
             /\ auths[i] \in Objects
  <2>1. i \in Nat /\ i < 2 * L
    BY <1>1, <1>3
  <2> DEFINE q == i \div 2
             id == 2 * q
             a == Initial[q + 1]
             o == KeyAuthority(a.owner_key)
             v == KeyAuthority(a.active_key)
             F == Fresh(a.name, id, o, v)
  <2>2. q \in Nat /\ (i = id \/ i = id + 1) /\ id \in Nat /\ q + 1 \in 1..L /\ id < 2 * L
        /\ id \div 2 = q
    <3>1. q \in Nat /\ (i = 2 * q \/ i = 2 * q + 1)
      BY <2>1
    <3> HIDE DEF q
    <3>2. q + 1 \in 1..L /\ 2 * q < 2 * L /\ 2 * q \in Nat
      BY <1>1, <2>1, <3>1
    <3>3. (2 * q) \div 2 = q
      BY <3>1
    <3>. QED
      BY <3>1, <3>2, <3>3
  <2>3. a.name \in Accounts /\ o \in Authorities /\ v \in Authorities
    <3> DEFINE R == [name : Accounts, owner_key : Keys, active_key : Keys]
    <3>1. Initial \in Seq(R)
      BY AuthorityAssumption, Zenon
    <3> HIDE DEF R, a, q
    <3>2. a \in R
      <4>1. q + 1 \in 1..Len(Initial)
        BY <2>2
      <4>2. \A x \in 1..Len(Initial) : Initial[x] \in R
        BY <3>1
      <4>. QED
        BY <4>1, <4>2 DEF a
    <3>3. a.name \in Accounts /\ a.owner_key \in Keys /\ a.active_key \in Keys
      BY <3>2 DEF R
    <3>. QED
      BY <1>4, <3>3 DEF o, v
  <2>4. id \in DOMAIN auths /\ auths[i] = F[i] /\ auths[id] = F[id]
    <3>1. id \in DOMAIN auths /\ auths[i] = Genesis(i) /\ auths[id] = Genesis(id)
      <4> HIDE DEF id, L
      <4>1. id \in 0..(2 * L - 1)
        BY <1>1, <2>2
      <4>. QED
        BY <4>1, <1>3
    <3>2. Genesis(i) = F[i]
      BY Zenon DEF Genesis
    <3>3. Genesis(id) = F[id]
      <4> DEFINE G(x) == Fresh(Initial[x + 1].name, 2 * x, KeyAuthority(Initial[x + 1].owner_key),
                               KeyAuthority(Initial[x + 1].active_key))
      <4>1. Genesis(id) = G(id \div 2)[id] /\ F = G(q)
        BY Zenon DEF Genesis
      <4> HIDE DEF G, q, id
      <4>. QED
        BY <4>1, <2>2
    <3>. QED
      BY <3>1, <3>2, <3>3
  <2> HIDE DEF q, id, a, o, v
  <2>5. /\ F[id] = [owner |-> a.name, name |-> "owner", parent |-> 0, auth |-> o]
        /\ F[id + 1] = [owner |-> a.name, name |-> "active", parent |-> id, auth |-> v]
    BY <2>2, FreshFacts
  <2> HIDE DEF F
  <2>6. F[id] \in Objects /\ F[id + 1] \in Objects
    BY <2>2, <2>3, <2>5 DEF Objects, AllNames
  <2>. QED
    BY <2>2, <2>4, <2>5, <2>6
<1>. QED
  BY <1>5 DEF Kin

LEMMA NextKin == Inv /\ Kin(auths) /\ [Next]_vars => Kin(auths)'
<1>. SUFFICES ASSUME Inv, Kin(auths), [Next]_vars PROVE Kin(auths')
  BY DEF Kin
<1>1. next \in Nat /\ Sound(auths, next)
  BY DEF Inv
<1>2. ASSUME NEW au \in Declared, NEW m \in AddMessages(au), AddAccount(m) PROVE Kin(auths')
  <2>1. m.account \in Accounts /\ m.auth \in New
    BY DEF AddMessages
  <2>2. m.auth \in Authorities
    BY <2>1, AuthorityAssumption, Zenon
  <2>3. auths' = Merged(auths, Fresh(m.account, next, m.auth, m.auth))
    BY <1>2 DEF AddAccount
  <2>. QED
    BY <1>1, <2>1, <2>2, <2>3, AddKin
<1>3. ASSUME NEW au \in Declared, NEW m \in UpdateMessages(au), UpdateAuth(m) PROVE Kin(auths')
  <2> DEFINE up == [account |-> m.account, authority |-> m.parent]
             x == [account |-> m.account, authority |-> m.permission]
             p == IdOf(up)
  <2>1. m.account \in Accounts /\ m.permission \in AllNames
    BY MessageTypes
  <2>2. m.auth \in Authorities
    <3>1. m.auth \in Candidates
      BY DEF UpdateMessages
    <3>. QED
      BY <3>1, AuthorityAssumption, Zenon
  <2>3. Exists(up) /\ SetAuth(m, p) /\ m.permission # "owner"
    BY <1>3 DEF UpdateAuth
  <2>4. p \in DOMAIN auths /\ auths[p].owner = m.account
    BY <2>3, Found
  <2>5. CASE /\ Exists(x)
             /\ auths' = [auths EXCEPT ![IdOf(x)].auth = Assigned(auths[IdOf(x)].auth, m.auth)]
    <3>1. IdOf(x) \in DOMAIN auths
      BY <2>5, Found
    <3>2. Assigned(auths[IdOf(x)].auth, m.auth) \in Authorities
      <4>1. auths[IdOf(x)].auth \in Authorities
        BY <3>1 DEF Kin, Objects
      <4>. QED
        BY <4>1, <2>2, AssignedType
    <3>3. Kin([auths EXCEPT ![IdOf(x)].auth = Assigned(auths[IdOf(x)].auth, m.auth)])
      BY <1>1, <3>1, <3>2, ChangeKin, Zenon
    <3>. QED
      BY <2>5, <3>3, Zenon
  <2>6. CASE auths' = Merged(auths, [i \in {next} |->
                                [owner |-> m.account, name |-> m.permission,
                                 parent |-> p, auth |-> m.auth]])
    <3> HIDE DEF p
    <3> DEFINE g == [i \in {next} |-> [owner |-> m.account, name |-> m.permission,
                                       parent |-> p, auth |-> m.auth]]
    <3>1. g = [i \in {next} |-> [owner |-> m.account, name |-> m.permission,
                                parent |-> p, auth |-> m.auth]]
      OBVIOUS
    <3>2. auths' = Merged(auths, g)
      BY <2>6
    <3> HIDE DEF g
    <3>3. Kin(Merged(auths, g))
      BY <1>1, <2>1, <2>2, <2>3, <2>4, <3>1, MakeKin
    <3>. QED
      BY <3>2, <3>3
  <2>. QED
    BY <2>3, <2>5, <2>6 DEF SetAuth
<1>4. ASSUME NEW au \in Declared, NEW m \in DeleteMessages(au), DeleteAuth(m) PROVE Kin(auths')
  <2> DEFINE x == IdOf([account |-> m.account, authority |-> m.permission])
  <2>1. auths' = [i \in DOMAIN auths \ {x} |-> auths[i]]
    BY <1>4 DEF DeleteAuth
  <2> HIDE DEF x
  <2>. QED
    BY <2>1, DeleteKin
<1>5. ASSUME NEW m, LinkAuth(m) \/ UnlinkAuth(m) \/ AddContract(m) PROVE Kin(auths')
  BY <1>5 DEF LinkAuth, UnlinkAuth, AddContract
<1>6. CASE UNCHANGED vars
  BY <1>6 DEF vars
<1>. QED
  BY <1>2, <1>3, <1>4, <1>5, <1>6 DEF Next

LEMMA KinAlways == Spec => [](Inv /\ Kin(auths))
<1>1. Init => Inv /\ Kin(auths)
  BY InitInv, InitKin
<1>2. Inv /\ Kin(auths) /\ [Next]_vars => (Inv /\ Kin(auths))'
  BY NextInv, NextKin
<1>. QED
  BY <1>1, <1>2, PTL DEF Spec

-----------------------------------------------------------------------------
(* Loops: what a loop computes is shown by induction on its turns, as the   *)
(* absence of a least counterexample.                                      *)

\* A set of numbers has a least one.
LEMMA Least ==
  ASSUME NEW T, T \subseteq Nat, T # {}
  PROVE  \E x \in T : \A y \in T : ~(y < x)
<1>. DEFINE R == OpToRel(<, Nat)
<1>1. IsWellFoundedOn(R, Nat)
  BY NatLessThanWellFounded
<1>2. \A x, y \in Nat : <<y, x>> \in R <=> y < x
  BY DEF OpToRel
<1>. HIDE DEF R
<1>3. \E x \in T : \A y \in T : ~(<<y, x>> \in R)
  BY <1>1, WFMin, Zenon
<1>. QED
  BY <1>2, <1>3

\* Turn i of each loop of the model, from a; p is what the loop runs over.
Turn(loop, p, a, i) ==
  CASE loop = "walk" ->
         [j \in 0..MaxIds |->
            /\ j \in DOMAIN auths
            /\ \/ auths[j].parent = p
               \/ auths[j].parent # 0 /\ a[auths[j].parent]]
    [] loop = "total" -> IF i \in p[2] THEN a + p[1][i].weight ELSE a
    [] loop = "visit" -> Visit(p[1], p[2][i], a)
    [] loop = "check" ->
         [au \in Declared |-> [cache \in SUBSET Declared |-> CheckOne(p, a, au, cache)]]
    [] loop = "checked" -> IF a.ok THEN CheckImpl(p[2])[MaxDepth][p[1][i]][a.cache] ELSE a

\* g has the values of n turns of a loop that starts with b.
Loop(g, loop, p, b, n) ==
  g = [i \in 0..n |-> IF i = 0 THEN b ELSE Turn(loop, p, g[i - 1], i)]

LEMMA LoopTurns ==
  ASSUME NEW g, NEW loop, NEW p, NEW b, NEW n \in Nat, Loop(g, loop, p, b, n)
  PROVE  g[0] = b /\ \A i \in 1..n : g[i] = Turn(loop, p, g[i - 1], i)
<1>1. g = [i \in 0..n |-> IF i = 0 THEN b ELSE Turn(loop, p, g[i - 1], i)]
  BY DEF Loop
<1>2. g[0] = b
  BY <1>1
<1>3. \A i \in 1..n : g[i] = Turn(loop, p, g[i - 1], i)
  BY <1>1
<1>. QED
  BY <1>2, <1>3

LEMMA TurnsLoop ==
  ASSUME NEW g, NEW loop, NEW p, NEW b, NEW n \in Nat, NEW e, g = [i \in 0..n |-> e[i]],
         g[0] = b, \A i \in 1..n : g[i] = Turn(loop, p, g[i - 1], i)
  PROVE  Loop(g, loop, p, b, n)
<1>. DEFINE h == [i \in 0..n |-> IF i = 0 THEN b ELSE Turn(loop, p, g[i - 1], i)]
<1>1. ASSUME NEW i \in 0..n PROVE e[i] = h[i]
  <2>1. e[i] = g[i]
    OBVIOUS
  <2>2. CASE i = 0
    BY <2>1, <2>2
  <2>3. CASE i # 0
    <3>1. i \in 1..n
      BY <2>3
    <3>. QED
      BY <2>1, <2>3, <3>1
  <2>. QED
    BY <2>2, <2>3
<1>2. [i \in 0..n |-> e[i]] = h
  BY <1>1
<1>. QED
  BY <1>2 DEF Loop

\* Every loop has its values.
LEMMA LoopExists ==
  ASSUME NEW loop, NEW p, NEW b
  PROVE  \A n \in Nat : \E g : Loop(g, loop, p, b, n)
<1>. DEFINE Bad == {n \in Nat : ~\E g : Loop(g, loop, p, b, n)}
<1>. SUFFICES ASSUME Bad # {} PROVE FALSE
  OBVIOUS
<1>1. PICK n \in Bad : \A m \in Bad : ~(m < n)
  BY Least
<1>2. n \in Nat
  BY <1>1
<1>3. CASE n = 0
  <2>. DEFINE g == [i \in 0..0 |-> b]
              e == [i \in {0} |-> b]
  <2>1. g[0] = b /\ g = [i \in 0..0 |-> e[i]]
    OBVIOUS
  <2>2. \A i \in 1..0 : g[i] = Turn(loop, p, g[i - 1], i)
    OBVIOUS
  <2>3. 0 \in Nat
    OBVIOUS
  <2>. HIDE DEF g, e
  <2>4. Loop(g, loop, p, b, 0)
    BY ONLY <2>1, <2>2, <2>3, TurnsLoop, ZenonT(60)
  <2>. QED
    BY <1>1, <1>3, <2>4
<1>4. CASE n # 0
  <2>1. n - 1 \in Nat /\ n - 1 \notin Bad
    BY <1>1, <1>4
  <2>2. PICK g : Loop(g, loop, p, b, n - 1)
    BY <2>1
  <2>3. g[0] = b /\ \A i \in 1..(n - 1) : g[i] = Turn(loop, p, g[i - 1], i)
    BY <2>1, <2>2, LoopTurns
  <2>. DEFINE h == [i \in 0..n |-> IF i < n THEN g[i] ELSE Turn(loop, p, g[n - 1], n)]
  <2>4. h[0] = b
    BY <1>4, <2>1, <2>3
  <2>5. h = [i \in 0..n |-> h[i]]
    BY <2>1
  <2>6. ASSUME NEW i \in 1..n PROVE h[i] = Turn(loop, p, h[i - 1], i)
    <3>1. CASE i < n
      <4>1. h[i] = g[i] /\ h[i - 1] = g[i - 1] /\ i \in 1..(n - 1)
        BY <2>1, <3>1
      <4>. QED
        BY <2>3, <4>1
    <3>2. CASE ~(i < n)
      <4>1. i = n /\ h[n] = Turn(loop, p, g[n - 1], n) /\ h[n - 1] = g[n - 1]
        BY <2>1, <3>2
      <4>. QED
        BY <4>1
    <3>. QED
      BY <3>1, <3>2
  <2>. HIDE DEF h
  <2>7. Loop(h, loop, p, b, n)
    BY ONLY <1>2, <2>4, <2>5, <2>6, TurnsLoop
  <2>. QED
    BY <1>1, <2>7
<1>. QED
  BY <1>3, <1>4

-----------------------------------------------------------------------------
(* The authorities above an authority.                                     *)

\* Above, one authority up; g has the authorities above the older ones.
Higher(g, i) ==
  IF i \notin DOMAIN auths \/ auths[i].name = "owner" THEN {}
  ELSE ({auths[i].parent} \cap DOMAIN auths) \cup g[auths[i].parent]

\* g has the authorities above those with ids up to n.
Heights(g, n) == g = [i \in 0..n |-> Higher(g, i)]

\* Parents are older.
LEMMA Older ==
  ASSUME Inv, Kin(auths), NEW i \in DOMAIN auths
  PROVE  /\ i \in Nat /\ i < MaxIds /\ MaxIds \in Nat
         /\ auths[i].parent \in Nat /\ auths[i].parent <= MaxIds
         /\ auths[i].name = "owner" => auths[i].parent = 0
         /\ auths[i].name # "owner" => auths[i].parent < i
<1>1. IsAuthority(auths, i, next) /\ next \in Nat /\ next <= MaxIds
  BY SoundMeans, Zenon DEF Inv
<1>2. MaxIds \in Nat
  BY AuthorityAssumption
<1>. QED
  BY <1>1, <1>2 DEF IsAuthority, Kin

LEMMA HigherAgrees ==
  ASSUME Inv, Kin(auths), NEW i \in Nat, NEW g, NEW h, \A j \in Nat : j < i => g[j] = h[j]
  PROVE  Higher(g, i) = Higher(h, i)
<1>1. CASE i \notin DOMAIN auths \/ auths[i].name = "owner"
  BY <1>1 DEF Higher
<1>2. CASE i \in DOMAIN auths /\ auths[i].name # "owner"
  <2>1. g[auths[i].parent] = h[auths[i].parent]
    BY <1>2, Older
  <2>. QED
    BY <2>1 DEF Higher
<1>. QED
  BY <1>1, <1>2

LEMMA HeightsExist ==
  ASSUME Inv, Kin(auths)
  PROVE  \A n \in Nat : \E g : Heights(g, n)
<1>. DEFINE Bad == {n \in Nat : ~\E g : Heights(g, n)}
<1>. SUFFICES ASSUME Bad # {} PROVE FALSE
  OBVIOUS
<1>1. PICK n \in Bad : \A m \in Bad : ~(m < n)
  BY Least
<1>2. n \in Nat
  BY <1>1
<1>3. PICK g : \A i \in Nat : i < n => g[i] = Higher(g, i)
  <2>1. CASE n = 0
    BY <2>1
  <2>2. CASE n # 0
    <3>1. n - 1 \in Nat /\ n - 1 \notin Bad
      BY <1>1, <2>2
    <3>2. PICK g : Heights(g, n - 1)
      BY <3>1
    <3>3. \A i \in 0..(n - 1) : g[i] = Higher(g, i)
      BY <3>2 DEF Heights
    <3>4. \A i \in Nat : i < n => i \in 0..(n - 1)
      BY <3>1
    <3>. QED
      BY <3>3, <3>4
  <2>. QED
    BY <2>1, <2>2
<1>. DEFINE h == [i \in 0..n |-> IF i < n THEN g[i] ELSE Higher(g, n)]
<1>4. ASSUME NEW i \in 0..n PROVE h[i] = Higher(h, i)
  <2>1. i \in Nat /\ i <= n
    BY <1>2
  <2>2. h[i] = Higher(g, i)
    <3>1. CASE i < n
      BY <3>1, <1>3, <2>1
    <3>2. CASE i = n
      BY <3>2, <1>2
    <3>. QED
      BY <3>1, <3>2, <2>1, <1>2
  <2>3. \A j \in Nat : j < i => g[j] = h[j]
    BY <1>2, <2>1
  <2>. HIDE DEF h
  <2>4. Higher(g, i) = Higher(h, i)
    BY ONLY Inv, Kin(auths), <2>1, <2>3, HigherAgrees
  <2>. QED
    BY <2>2, <2>4
<1>5. h = [i \in 0..n |-> h[i]]
  OBVIOUS
<1>. HIDE DEF h
<1>6. Heights(h, n)
  BY <1>4, <1>5 DEF Heights
<1>. QED
  BY <1>1, <1>6

LEMMA AboveIs ==
  ASSUME Inv, Kin(auths), NEW i \in DOMAIN auths
  PROVE  /\ auths[i].name = "owner" => Above[i] = {}
         /\ auths[i].name # "owner"
              => Above[i] = ({auths[i].parent} \cap DOMAIN auths) \cup Above[auths[i].parent]
<1>. DEFINE P(g) == g = [j \in 0..MaxIds |->
                     IF j \notin DOMAIN auths \/ auths[j].name = "owner" THEN {}
                     ELSE ({auths[j].parent} \cap DOMAIN auths) \cup g[auths[j].parent]]
            f == CHOOSE g : P(g)
<1>1. MaxIds \in Nat /\ i \in 0..MaxIds
  BY Older
<1>2. \E g : P(g)
  <2>1. PICK g : Heights(g, MaxIds)
    BY <1>1, HeightsExist
  <2>. QED
    BY <2>1 DEF Heights, Higher
<1>3. P(f)
  <2>. HIDE DEF P
  <2>. QED
    BY <1>2
<1>4. Above = f
  BY DEF Above
<1>. HIDE DEF f
<1>5. Above[i] = IF i \notin DOMAIN auths \/ auths[i].name = "owner" THEN {}
                 ELSE ({auths[i].parent} \cap DOMAIN auths) \cup Above[auths[i].parent]
  BY <1>1, <1>3, <1>4
<1>. QED
  BY <1>5

\* A parent that was deleted has nothing above it.
LEMMA AboveNone ==
  ASSUME Inv, Kin(auths), NEW i \in 0..MaxIds, i \notin DOMAIN auths
  PROVE  Above[i] = {}
<1>. DEFINE P(g) == g = [j \in 0..MaxIds |->
                     IF j \notin DOMAIN auths \/ auths[j].name = "owner" THEN {}
                     ELSE ({auths[j].parent} \cap DOMAIN auths) \cup g[auths[j].parent]]
            f == CHOOSE g : P(g)
<1>1. MaxIds \in Nat
  BY AuthorityAssumption
<1>2. \E g : P(g)
  <2>1. PICK g : Heights(g, MaxIds)
    BY <1>1, HeightsExist
  <2>. QED
    BY <2>1 DEF Heights, Higher
<1>3. P(f)
  <2>. HIDE DEF P
  <2>. QED
    BY <1>2
<1>4. Above = f
  BY DEF Above
<1>. HIDE DEF f
<1>. QED
  BY <1>3, <1>4

\* The loop of parent_permission_valid.
LEMMA WalkLoop ==
  ASSUME NEW e, NEW id, MaxIds \in Nat
  PROVE  \E g : /\ Loop(g, "walk", e, [i \in 0..MaxIds |-> FALSE], MaxIds)
                /\ Walk(e, id) = g[MaxIds][id]
<1>. DEFINE b == [i \in 0..MaxIds |-> FALSE]
            P(g) == g = [n \in 0..MaxIds |->
              IF n = 0 THEN [i \in 0..MaxIds |-> FALSE]
              ELSE [i \in 0..MaxIds |->
                      /\ i \in DOMAIN auths
                      /\ \/ auths[i].parent = e
                         \/ auths[i].parent # 0 /\ g[n - 1][auths[i].parent]]]
            f == CHOOSE g : P(g)
<1>1. \E g : P(g)
  <2>1. PICK g : Loop(g, "walk", e, b, MaxIds)
    BY LoopExists
  <2>2. P(g)
    BY <2>1, Zenon DEF Loop, Turn
  <2>. QED
    BY <2>2
<1>2. P(f)
  <2>. HIDE DEF P
  <2>. QED
    BY <1>1
<1>3. Loop(f, "walk", e, b, MaxIds)
  <2>. HIDE DEF f
  <2>. QED
    BY <1>2, Zenon DEF Loop, Turn
<1>4. Walk(e, id) = f[MaxIds][id]
  BY DEF Walk
<1>. QED
  BY <1>3, <1>4
\* One turn of it: from an object to its parent.
LEMMA WalkTurn ==
  ASSUME NEW e, NEW g, MaxIds \in Nat,
         Loop(g, "walk", e, [i \in 0..MaxIds |-> FALSE], MaxIds),
         NEW n \in 1..MaxIds, NEW j \in 0..MaxIds
  PROVE  g[n][j] <=> /\ j \in DOMAIN auths
                     /\ \/ auths[j].parent = e
                        \/ auths[j].parent # 0 /\ g[n - 1][auths[j].parent]
<1>. DEFINE b == [i \in 0..MaxIds |-> FALSE]
<1>1. Loop(g, "walk", e, b, MaxIds)
  OBVIOUS
<1>. HIDE DEF b
<1>2. \A m \in 1..MaxIds : g[m] = Turn("walk", e, g[m - 1], m)
  BY ONLY <1>1, MaxIds \in Nat, LoopTurns
<1>3. g[n] = [i \in 0..MaxIds |->
                /\ i \in DOMAIN auths
                /\ \/ auths[i].parent = e
                   \/ auths[i].parent # 0 /\ g[n - 1][auths[i].parent]]
  BY <1>2, Zenon DEF Turn
<1>. QED
  BY <1>3

\* What is above an authority is of the same account.
LEMMA AboveKin ==
  ASSUME Inv, Kin(auths), NEW i \in DOMAIN auths, NEW e \in Above[i]
  PROVE  e \in DOMAIN auths /\ auths[e].owner = auths[i].owner
<1>. DEFINE Bad == {j \in DOMAIN auths :
                      ~\A x \in Above[j] : x \in DOMAIN auths /\ auths[x].owner = auths[j].owner}
<1>1. Bad \subseteq Nat
  BY Older
<1>2. CASE Bad # {}
  <2>. HIDE DEF Bad
  <2>1. PICK j \in Bad : \A k \in Bad : ~(k < j)
    BY <1>1, <1>2, Least
  <2>. USE DEF Bad
  <2>2. j \in DOMAIN auths
    BY <2>1
  <2>3. PICK x \in Above[j] : ~(x \in DOMAIN auths /\ auths[x].owner = auths[j].owner)
    BY <2>1
  <2>4. auths[j].name # "owner" /\ auths[j].parent < j /\ auths[j].parent \in 0..MaxIds
    BY <2>2, <2>3, AboveIs, Older
  <2>5. x \in ({auths[j].parent} \cap DOMAIN auths) \cup Above[auths[j].parent]
    BY <2>2, <2>3, <2>4, AboveIs
  <2>6. CASE auths[j].parent \in DOMAIN auths
    <3>1. auths[auths[j].parent].owner = auths[j].owner
      BY <2>2, <2>4, <2>6 DEF Kin
    <3>2. auths[j].parent \notin Bad
      BY <2>1, <2>4
    <3>. QED
      BY <2>3, <2>5, <2>6, <3>1, <3>2
  <2>7. CASE auths[j].parent \notin DOMAIN auths
    BY <2>4, <2>5, <2>7, AboveNone
  <2>. QED
    BY <2>6, <2>7
<1>. QED
  BY <1>2

\* The oldest authority of all is an owner.
LEMMA FirstIsOwner ==
  ASSUME Inv, Kin(auths), 0 \in DOMAIN auths, NEW i \in DOMAIN auths,
         auths[i].owner = auths[0].owner, auths[i].name = "owner"
  PROVE  i = 0
<1>1. auths[0].name = "owner"
  BY Older
<1>2. \A x, y \in DOMAIN auths : auths[x].owner = auths[y].owner /\ auths[x].name = auths[y].name => x = y
  BY SoundMeans, Zenon DEF Inv
<1>. QED
  BY <1>1, <1>2

\* The walk from an authority, with turns enough, finds what is above it; from the
\* first authority it also finds that one, as its own parent.
LEMMA WalkExact ==
  ASSUME Inv, Kin(auths), NEW e \in DOMAIN auths, NEW g,
         Loop(g, "walk", e, [i \in 0..MaxIds |-> FALSE], MaxIds),
         NEW j0 \in DOMAIN auths, auths[j0].owner = auths[e].owner,
         NEW n0 \in 1..MaxIds, n0 > j0
  PROVE  g[n0][j0] <=> e \in Above[j0] \/ (j0 = 0 /\ e = 0)
<1>. DEFINE Right(n, j) == g[n][j] <=> e \in Above[j] \/ (j = 0 /\ e = 0)
            Bad == {j \in DOMAIN auths : /\ auths[j].owner = auths[e].owner
                                         /\ \E n \in 1..MaxIds : n > j /\ ~Right(n, j)}
<1>0. MaxIds \in Nat
  BY AuthorityAssumption
<1>4. \A m \in 1..MaxIds, k \in 0..MaxIds : g[m][k] => k \in DOMAIN auths
  BY <1>0, WalkTurn
<1>1. Bad \subseteq Nat
  BY Older
<1>2. CASE Bad # {}
  <2>. HIDE DEF Bad
  <2>1. PICK j \in Bad : \A k \in Bad : ~(k < j)
    BY <1>1, <1>2, Least
  <2>. USE DEF Bad
  <2>2. j \in DOMAIN auths /\ auths[j].owner = auths[e].owner /\ j \in Nat /\ j \in 0..MaxIds
    BY <2>1, <1>0, Older
  <2>3. PICK n \in 1..MaxIds : n > j /\ ~Right(n, j)
    BY <2>1
  <2>. DEFINE p == auths[j].parent
  <2>4. g[n][j] <=> p = e \/ (p # 0 /\ g[n - 1][p])
    BY <1>0, <2>2, WalkTurn
  <2>5. CASE auths[j].name = "owner"
    <3>1. p = 0 /\ Above[j] = {}
      BY <2>2, <2>5, Older, AboveIs
    <3>2. e = 0 => j = 0
      BY <2>2, <2>5, FirstIsOwner
    <3>. QED
      BY <2>3, <2>4, <3>1, <3>2
  <2>6. CASE auths[j].name # "owner"
    <3>1. p \in Nat /\ p < j /\ p \in 0..MaxIds
      BY <2>2, <2>6, <1>0, Older
    <3>2. Above[j] = ({p} \cap DOMAIN auths) \cup Above[p]
      BY <2>2, <2>6, AboveIs
    <3>3. CASE p = e
      BY <3>2, <3>3, <2>3, <2>4
    <3>4. CASE p # e /\ p \notin DOMAIN auths
      <4>1. Above[p] = {}
        BY <3>1, <3>4, AboveNone
      <4>2. p # 0 => n - 1 \in 1..MaxIds
        BY <3>1, <2>2, <2>3, <1>0
      <4>3. p # 0 => ~g[n - 1][p]
        BY <4>2, <3>1, <3>4, <1>4
      <4>. QED
        BY <3>1, <3>2, <3>4, <4>1, <4>3, <2>2, <2>3, <2>4
    <3>5. CASE p # e /\ p \in DOMAIN auths /\ p = 0
      <4>1. auths[p].name = "owner" /\ Above[p] = {}
        BY <3>5, Older, AboveIs
      <4>. QED
        BY <3>1, <3>2, <3>5, <4>1, <2>2, <2>3, <2>4
    <3>6. CASE p # e /\ p \in DOMAIN auths /\ p # 0
      <4>1. n - 1 \in 1..MaxIds /\ n - 1 > p
        BY <3>1, <3>6, <2>2, <2>3, <1>0
      <4>2. auths[p].owner = auths[e].owner
        BY <2>2, <2>6, <3>6 DEF Kin
      <4>3. p \notin Bad
        BY <2>1, <3>1
      <4>4. Right(n - 1, p)
        <5>. HIDE DEF Right, p
        <5>. QED
          BY <4>1, <4>2, <4>3, <3>6
      <4>. QED
        BY <3>1, <3>2, <3>6, <4>4, <2>2, <2>3, <2>4
    <3>. QED
      BY <3>3, <3>4, <3>5, <3>6
  <2>. QED
    BY <2>5, <2>6
<1>3. CASE Bad = {}
  <2>. HIDE DEF Right
  <2>1. Right(n0, j0)
    BY <1>3
  <2>. QED
    BY <2>1 DEF Right
<1>. QED
  BY <1>2, <1>3

\* parent_permission_valid, with the loop that walks from object to parent, finds
\* exactly the authorities above another: whatever was deleted or made again in
\* between, it neither misses one nor takes one of another account.
THEOREM AncestorsFound == Spec => []AncestorsExact
<1>1. Inv /\ Kin(auths) => AncestorsExact
  <2>. SUFFICES ASSUME Inv, Kin(auths), NEW e \in DOMAIN auths, NEW i \in DOMAIN auths, e # i
       PROVE  ParentPermissionValid(e, i) <=> e \in Above[i]
    BY DEF AncestorsExact
  <2>. DEFINE p == auths[i].parent
  <2>1. MaxIds \in Nat /\ p \in 0..MaxIds /\ p \in Nat
    BY Older
  <2>2. PICK g : /\ Loop(g, "walk", e, [x \in 0..MaxIds |-> FALSE], MaxIds)
                 /\ Walk(e, p) = g[MaxIds][p]
    BY <2>1, WalkLoop
  <2>3. e \in Above[i] => auths[e].owner = auths[i].owner
    BY AboveKin
  <2>4. MaxIds \in 1..MaxIds
    BY <2>1, Older
  <2>6. \A k \in 0..MaxIds : g[MaxIds][k] => auths[k].parent = e \/ auths[k].parent # 0
    BY <2>1, <2>2, <2>4, WalkTurn, ZenonT(60)
  <2>7. \A k \in 0..MaxIds : g[MaxIds][k] => k \in DOMAIN auths
    BY <2>1, <2>2, <2>4, WalkTurn
  <2>5. ASSUME auths[e].owner = auths[i].owner
        PROVE  (e = p \/ Walk(e, p)) <=> e \in Above[i]
    <3>1. CASE p \notin DOMAIN auths
      <4>1. ~g[MaxIds][p]
        <5>. HIDE DEF p
        <5>1. g[MaxIds][p] => p \in DOMAIN auths
          BY <2>1, <2>7
        <5>. QED
          BY <3>1, <5>1
      <4>2. Above[p] = {}
        BY <2>1, <3>1, AboveNone
      <4>3. Above[i] = {}
        BY <3>1, <4>2, AboveIs
      <4>. QED
        BY <2>2, <3>1, <4>1, <4>3
    <3>2. CASE p \in DOMAIN auths /\ auths[i].name = "owner"
      <4>1. p = 0 /\ Above[i] = {} /\ auths[0].parent = 0
        BY <3>2, Older, AboveIs
      <4>2. e # 0
        BY <2>5, <3>2, FirstIsOwner
      <4>3. ~g[MaxIds][p]
        BY <2>1, <2>4, <2>6, <4>1, <4>2
      <4>. QED
        BY <2>2, <4>1, <4>2, <4>3
    <3>3. CASE p \in DOMAIN auths /\ auths[i].name # "owner"
      <4>1. auths[p].owner = auths[e].owner
        BY <2>5, <3>3 DEF Kin
      <4>2. MaxIds > p
        BY <3>3, Older
      <4>3. g[MaxIds][p] <=> e \in Above[p] \/ (p = 0 /\ e = 0)
        <5>. HIDE DEF p
        <5>. QED
          BY <2>2, <2>4, <3>3, <4>1, <4>2, WalkExact
      <4>4. Above[i] = ({p} \cap DOMAIN auths) \cup Above[p]
        BY <3>3, AboveIs
      <4>. QED
        BY <2>2, <4>3, <4>4
    <3>. QED
      BY <3>1, <3>2, <3>3
  <2>. QED
    BY <2>3, <2>5 DEF ParentPermissionValid
<1>. QED
  BY <1>1, KinAlways, PTL

-----------------------------------------------------------------------------
(* What auth_checker lets pass.                                            *)

Entries == [auth : Declared, weight : Nat]

\* Weights are added up.
LEMMA TotalLoop ==
  ASSUME NEW es, NEW c, Len(es) \in Nat
  PROVE  \E g : Loop(g, "total", <<es, c>>, 0, Len(es)) /\ Total(es, c) = g[Len(es)]
<1>. DEFINE P(g) == g = [i \in 0..Len(es) |->
                     IF i = 0 THEN 0
                     ELSE IF i \in c THEN g[i - 1] + es[i].weight ELSE g[i - 1]]
            f == CHOOSE g : P(g)
<1>1. \E g : P(g)
  <2>1. PICK g : Loop(g, "total", <<es, c>>, 0, Len(es))
    BY LoopExists
  <2>2. P(g)
    BY <2>1 DEF Loop, Turn
  <2>. QED
    BY <2>2
<1>2. P(f)
  <2>. HIDE DEF P
  <2>. QED
    BY <1>1
<1>3. Loop(f, "total", <<es, c>>, 0, Len(es))
  <2>. HIDE DEF f
  <2>. QED
    BY <1>2 DEF Loop, Turn
<1>4. Total(es, c) = f[Len(es)]
  BY DEF Total
<1>. QED
  BY <1>3, <1>4

\* g has the weights of the first entries, of those that are counted.
Sums(g, es, c) ==
  /\ g[0] = 0
  /\ \A i \in 1..Len(es) : g[i] = IF i \in c THEN g[i - 1] + es[i].weight ELSE g[i - 1]

LEMMA TotalSums ==
  ASSUME NEW es, NEW c, Len(es) \in Nat
  PROVE  \E g : Sums(g, es, c) /\ Total(es, c) = g[Len(es)]
<1>1. PICK g : Loop(g, "total", <<es, c>>, 0, Len(es)) /\ Total(es, c) = g[Len(es)]
  BY TotalLoop
<1>. DEFINE p == <<es, c>>
<1>2. Loop(g, "total", p, 0, Len(es)) /\ p[1] = es /\ p[2] = c
  BY <1>1
<1>. HIDE DEF p
<1>3. g[0] = 0 /\ \A i \in 1..Len(es) : g[i] = Turn("total", p, g[i - 1], i)
  BY ONLY <1>2, Len(es) \in Nat, LoopTurns
<1>4. Sums(g, es, c)
  BY <1>2, <1>3 DEF Turn, Sums
<1>. QED
  BY <1>1, <1>4

\* The sums of numbers are numbers, and two that count the same are equal.
LEMMA SumsAgree ==
  ASSUME NEW es, Len(es) \in Nat, \A i \in 1..Len(es) : es[i].weight \in Nat,
         NEW g, NEW c, Sums(g, es, c), NEW h, NEW d, Sums(h, es, d),
         \A i \in 1..Len(es) : i \in c <=> i \in d
  PROVE  \A i \in 0..Len(es) : g[i] \in Nat /\ g[i] = h[i]
<1>. DEFINE Bad == {i \in Nat : i <= Len(es) /\ ~(g[i] \in Nat /\ g[i] = h[i])}
<1>1. ASSUME Bad # {} PROVE FALSE
  <2>1. PICK i \in Bad : \A j \in Bad : ~(j < i)
    BY <1>1, Least
  <2>2. i # 0
    BY <2>1 DEF Sums
  <2>3. i \in 1..Len(es) /\ i - 1 \in Nat /\ i - 1 < i /\ i - 1 <= Len(es)
    BY <2>1, <2>2
  <2>4. g[i - 1] \in Nat /\ g[i - 1] = h[i - 1]
    BY <2>1, <2>3
  <2>5. /\ g[i] = IF i \in c THEN g[i - 1] + es[i].weight ELSE g[i - 1]
        /\ h[i] = IF i \in d THEN h[i - 1] + es[i].weight ELSE h[i - 1]
        /\ es[i].weight \in Nat /\ (i \in c <=> i \in d)
    BY <2>3 DEF Sums
  <2>6. g[i] \in Nat /\ g[i] = h[i]
    BY <2>4, <2>5
  <2>. QED
    BY <2>1, <2>6
<1>. QED
  BY <1>1

LEMMA TotalsAgree ==
  ASSUME NEW es, Len(es) \in Nat, \A i \in 1..Len(es) : es[i].weight \in Nat,
         NEW c, NEW d, \A i \in 1..Len(es) : i \in c <=> i \in d
  PROVE  Total(es, c) \in Nat /\ Total(es, c) = Total(es, d)
<1>1. PICK g : Sums(g, es, c) /\ Total(es, c) = g[Len(es)]
  BY TotalSums
<1>2. PICK h : Sums(h, es, d) /\ Total(es, d) = h[Len(es)]
  BY TotalSums
<1>3. \A i \in 0..Len(es) : g[i] \in Nat /\ g[i] = h[i]
  BY ONLY <1>1, <1>2, Len(es) \in Nat, \A i \in 1..Len(es) : es[i].weight \in Nat,
     \A i \in 1..Len(es) : i \in c <=> i \in d, SumsAgree
<1>. QED
  BY <1>1, <1>2, <1>3

\* S has the authority that is named; and all those of a cache.
Passed(S, au) == Ids(au) \cap S # {}
Fine(S, cache) == \A au \in cache : Passed(S, au)

\* What a check of au may answer when it starts with a cache.
Answer(S, r, au, cache) ==
  /\ r.ok \in BOOLEAN /\ r.cache \subseteq Declared
  /\ r.ok /\ Fine(S, cache) => Passed(S, au) /\ Fine(S, r.cache)

\* A check whose answers are right.
Sure(S, check) ==
  \A au \in Declared : \A cache \in SUBSET Declared : Answer(S, check[au][cache], au, cache)

\* The loop over the accounts of an authority, after n of them; weight is that of
\* the accounts.
Seen(S, r, ws, n, first, weight) ==
  /\ r.ok \in BOOLEAN /\ r.cache \subseteq Declared
  /\ r.ok /\ Fine(S, first.cache)
       => /\ Fine(S, r.cache)
          /\ \A k \in 1..n : Passed(S, ws[k].auth)
          /\ r.weight = first.weight + weight

\* Once an account has passed or failed, so has the loop.
LEMMA VisitAnswers ==
  ASSUME NEW S, NEW deeper, Sure(S, deeper), NEW w, w.auth \in Declared,
         NEW run, run.ok \in BOOLEAN, run.cache \subseteq Declared,
         NEW r, r = Visit(deeper, w, run)
  PROVE  /\ r.ok \in BOOLEAN /\ r.cache \subseteq Declared
         /\ r.ok => run.ok
         /\ r.ok /\ Fine(S, run.cache)
              => Fine(S, r.cache) /\ Passed(S, w.auth) /\ r.weight = run.weight + w.weight
<1>1. CASE ~run.ok
  <2>1. r = run
    BY <1>1 DEF Visit
  <2>. QED
    BY <1>1, <2>1
<1>2. CASE run.ok /\ w.auth \in run.cache
  <2>1. r = [ok |-> run.ok, cache |-> run.cache \cup {w.auth}, weight |-> run.weight + w.weight]
    BY <1>2 DEF Visit
  <2>2. r.ok = run.ok /\ r.cache = run.cache \cup {w.auth} /\ r.weight = run.weight + w.weight
    BY <2>1
  <2>. QED
    BY <1>2, <2>2 DEF Fine
<1>3. CASE run.ok /\ w.auth \notin run.cache
  <2>. DEFINE below == deeper[w.auth][run.cache]
  <2>1. r = [ok |-> below.ok, cache |-> below.cache \cup {w.auth}, weight |-> run.weight + w.weight]
    BY <1>3 DEF Visit
  <2>2. r.ok = below.ok /\ r.cache = below.cache \cup {w.auth} /\ r.weight = run.weight + w.weight
    BY <2>1
  <2>3. Answer(S, below, w.auth, run.cache)
    BY DEF Sure
  <2>. HIDE DEF below
  <2>. QED
    BY <1>3, <2>2, <2>3 DEF Answer, Fine
<1>. QED
  BY <1>1, <1>2, <1>3

LEMMA VisitAllLoop ==
  ASSUME NEW deeper, NEW ws, NEW first, Len(ws) \in Nat
  PROVE  \E g : /\ g[0] = first
                /\ \A i \in 1..Len(ws) : g[i] = Visit(deeper, ws[i], g[i - 1])
                /\ VisitAll(deeper, ws, first) = g[Len(ws)]
<1>. DEFINE P(g) == g = [i \in 0..Len(ws) |->
                     IF i = 0 THEN first ELSE Visit(deeper, ws[i], g[i - 1])]
            f == CHOOSE g : P(g)
            p == <<deeper, ws>>
<1>1. p[1] = deeper /\ p[2] = ws
  OBVIOUS
<1>2. \E g : P(g)
  <2>. HIDE DEF p
  <2>1. PICK g : Loop(g, "visit", p, first, Len(ws))
    BY LoopExists
  <2>2. P(g)
    BY <1>1, <2>1 DEF Loop, Turn
  <2>. QED
    BY <2>2
<1>3. P(f)
  <2>. HIDE DEF P
  <2>. QED
    BY <1>2
<1>4. VisitAll(deeper, ws, first) = f[Len(ws)]
  BY DEF VisitAll
<1>. HIDE DEF f
<1>5. f[0] = first
  BY <1>3
<1>6. \A i \in 1..Len(ws) : f[i] = Visit(deeper, ws[i], f[i - 1])
  BY <1>3
<1>. QED
  BY <1>4, <1>5, <1>6

\* Accounts that pass are in S, and their weights count.
LEMMA VisitAllAnswers ==
  ASSUME NEW S, NEW deeper, Sure(S, deeper), NEW ws \in Seq(Entries),
         NEW first, first.ok = TRUE, first.cache \subseteq Declared,
         first.weight \in Nat
  PROVE  Seen(S, VisitAll(deeper, ws, first), ws, Len(ws), first, Total(ws, 1..Len(ws)))
<1>. DEFINE n == Len(ws)
<1>1. n \in Nat /\ \A i \in 1..n : ws[i] \in Entries
  BY ONLY ws \in Seq(Entries)
<1>2. \A i \in 1..n : ws[i].auth \in Declared /\ ws[i].weight \in Nat
  BY <1>1 DEF Entries
<1>3. PICK g : /\ g[0] = first
               /\ \A i \in 1..n : g[i] = Visit(deeper, ws[i], g[i - 1])
               /\ VisitAll(deeper, ws, first) = g[n]
  BY <1>1, VisitAllLoop
<1>4. PICK h : Sums(h, ws, 1..n) /\ Total(ws, 1..n) = h[n]
  BY <1>1, TotalSums
<1>5. \A i \in 0..n : h[i] \in Nat
  BY ONLY <1>1, <1>2, <1>4, SumsAgree
<1>6. h[0] = 0 /\ \A i \in 1..n : h[i] = h[i - 1] + ws[i].weight
  BY <1>4 DEF Sums
<1>. HIDE DEF n
<1>. DEFINE Right(i) == Seen(S, g[i], ws, i, first, h[i])
            Bad == {i \in Nat : i <= n /\ ~Right(i)}
<1>7. ASSUME Bad # {} PROVE FALSE
  <2>. HIDE DEF Right
  <2>1. PICK i \in Bad : \A j \in Bad : ~(j < i)
    BY <1>7, Least
  <2>2. i \in Nat /\ i <= n /\ ~Right(i)
    BY <2>1
  <2>3. CASE i = 0
    <3>1. Right(0)
      <4>1. g[0] = first /\ first.weight = first.weight + h[0]
        BY <1>3, <1>6
      <4>2. \A k \in 1..0 : Passed(S, ws[k].auth)
        OBVIOUS
      <4>3. first.ok \in BOOLEAN
        OBVIOUS
      <4>4. Seen(S, first, ws, 0, first, h[0])
        BY <4>1, <4>2, <4>3, Zenon DEF Seen
      <4>. QED
        BY <4>1, <4>4 DEF Right
    <3>. QED
      BY <2>2, <2>3, <3>1
  <2>4. CASE i # 0
    <3>1. i - 1 \in Nat /\ i - 1 < i /\ i - 1 <= n /\ i \in 1..n /\ i - 1 \in 0..n
      BY <1>1, <2>2, <2>4
    <3>2. Right(i - 1)
      BY <2>1, <3>1
    <3>. DEFINE run == g[i - 1]
                r == g[i]
                w == ws[i]
    <3>3. Seen(S, run, ws, i - 1, first, h[i - 1])
      BY <3>2 DEF Right
    <3>4. /\ r = Visit(deeper, w, run) /\ w.auth \in Declared /\ w.weight \in Nat
          /\ h[i] = h[i - 1] + w.weight /\ h[i - 1] \in Nat
      BY <1>2, <1>3, <1>5, <1>6, <3>1
    <3>5. run.ok \in BOOLEAN /\ run.cache \subseteq Declared
      BY <3>3, Zenon DEF Seen
    <3>. HIDE DEF run, r, w
    <3>6. /\ r.ok \in BOOLEAN /\ r.cache \subseteq Declared
          /\ r.ok => run.ok
          /\ r.ok /\ Fine(S, run.cache)
               => Fine(S, r.cache) /\ Passed(S, w.auth) /\ r.weight = run.weight + w.weight
      BY ONLY Sure(S, deeper), <3>4, <3>5, VisitAnswers
    <3>7. ASSUME r.ok, Fine(S, first.cache)
          PROVE  /\ Fine(S, r.cache)
                 /\ \A k \in 1..i : Passed(S, ws[k].auth)
                 /\ r.weight = first.weight + h[i]
      <4>1. /\ Fine(S, run.cache) /\ \A k \in 1..(i - 1) : Passed(S, ws[k].auth)
            /\ run.weight = first.weight + h[i - 1]
        BY <3>3, <3>6, <3>7, Zenon DEF Seen
      <4>2. Fine(S, r.cache) /\ Passed(S, ws[i].auth) /\ r.weight = run.weight + w.weight
        BY <3>6, <3>7, <4>1 DEF w
      <4>3. \A k \in 1..i : k \in 1..(i - 1) \/ k = i
        BY <2>2
      <4>4. r.weight = first.weight + h[i]
        BY <3>4, <4>1, <4>2
      <4>. QED
        BY <4>1, <4>2, <4>3, <4>4
    <3>8. Seen(S, r, ws, i, first, h[i])
      BY <3>6, <3>7 DEF Seen
    <3>9. Right(i)
      BY <3>8 DEF Right, r
    <3>. QED
      BY <2>2, <3>9
  <2>. QED
    BY <2>3, <2>4
<1>8. Right(n)
  <2>. HIDE DEF Right
  <2>. QED
    BY <1>1, <1>7
<1>. QED
  BY <1>3, <1>4, <1>8 DEF n

\* check_impl answers right when the checks one deeper do.
LEMMA CheckOneAnswers ==
  ASSUME Inv, Kin(auths), NEW keys, NEW S, Reached(keys, S) \subseteq S,
         NEW deeper, Sure(S, deeper), NEW au \in Declared, NEW cache \in SUBSET Declared
  PROVE  Answer(S, CheckOne(keys, deeper, au, cache), au, cache)
<1>. DEFINE x == IdOf(au)
            auth == auths[x].auth
            first == [ok |-> TRUE, cache |-> cache, weight |-> KeyWeight(auth, keys)]
            run == VisitAll(deeper, auth.accounts, first)
            r == CheckOne(keys, deeper, au, cache)
<1>1. CASE ~Exists(au)
  <2>1. r = [ok |-> FALSE, cache |-> cache]
    BY <1>1 DEF CheckOne
  <2>2. r.ok = FALSE /\ r.cache = cache
    BY <2>1
  <2>. HIDE DEF r
  <2>3. Answer(S, r, au, cache)
    BY <2>2 DEF Answer
  <2>. QED
    BY <2>3 DEF r
<1>2. CASE Exists(au)
  <2>1. x \in DOMAIN auths /\ x \in Ids(au)
    BY <1>2, Found DEF Ids
  <2>2. r = [ok |-> run.ok /\ run.weight >= AsInt(auth.threshold), cache |-> run.cache]
    BY <1>2 DEF CheckOne
  <2>3. auth \in Authorities
    BY <2>1 DEF Kin, Objects
  <2>. HIDE DEF x
  <2>4. auth.accounts \in Seq(Entries)
    BY <2>3, Zenon DEF Authorities, Entries
  <2>. DEFINE K == [key : Keys, weight : Nat]
  <2>5. auth.keys \in Seq(K)
    BY <2>3, Zenon DEF Authorities
  <2>. HIDE DEF auth, K
  <2>6. /\ Len(auth.keys) \in Nat /\ \A i \in 1..Len(auth.keys) : auth.keys[i] \in K
        /\ Len(auth.accounts) \in Nat /\ \A i \in 1..Len(auth.accounts) : auth.accounts[i] \in Entries
        /\ DOMAIN auth.accounts = 1..Len(auth.accounts)
    BY <2>4, <2>5
  <2>7. /\ \A i \in 1..Len(auth.keys) : auth.keys[i].weight \in Nat
        /\ \A i \in 1..Len(auth.accounts) : auth.accounts[i].weight \in Nat
    BY <2>6 DEF K, Entries
  <2>8. KeyWeight(auth, keys) \in Nat
    BY <2>6, <2>7, TotalsAgree DEF KeyWeight
  <2>9. first.ok = TRUE /\ first.cache = cache /\ first.weight = KeyWeight(auth, keys)
    OBVIOUS
  <2>. HIDE DEF first
  <2>10. Seen(S, run, auth.accounts, Len(auth.accounts), first,
              Total(auth.accounts, 1..Len(auth.accounts)))
    BY <2>4, <2>8, <2>9, VisitAllAnswers
  <2>. HIDE DEF run
  <2>11. run.ok \in BOOLEAN /\ run.cache \subseteq Declared
    BY <2>10, Zenon DEF Seen
  <2>12. r.ok = (run.ok /\ run.weight >= AsInt(auth.threshold)) /\ r.cache = run.cache
    BY <2>2
  <2>. HIDE DEF r
  <2>13. ASSUME r.ok, Fine(S, cache) PROVE Passed(S, au) /\ Fine(S, r.cache)
    <3>1. run.ok /\ run.weight >= AsInt(auth.threshold)
      BY <2>12, <2>13
    <3>2. /\ Fine(S, run.cache)
          /\ \A k \in 1..Len(auth.accounts) : Passed(S, auth.accounts[k].auth)
          /\ run.weight = KeyWeight(auth, keys) + Total(auth.accounts, 1..Len(auth.accounts))
      BY <2>9, <2>10, <2>13, <3>1 DEF Seen
    <3>. DEFINE c == {k \in DOMAIN auth.accounts : Ids(auth.accounts[k].auth) \cap S # {}}
    <3>3. \A k \in 1..Len(auth.accounts) : k \in c <=> k \in 1..Len(auth.accounts)
      BY <2>6, <3>2 DEF Passed
    <3>. HIDE DEF c
    <3>4. Total(auth.accounts, c) = Total(auth.accounts, 1..Len(auth.accounts))
      BY <2>6, <2>7, <3>3, TotalsAgree
    <3>5. KeyWeight(auth, keys) + Total(auth.accounts, c) >= AsInt(auth.threshold)
      BY <3>1, <3>2, <3>4
    <3>6. x \in Reached(keys, S)
      BY <2>1, <3>5 DEF Reached, auth, c
    <3>. QED
      BY <2>1, <2>12, <3>2, <3>6 DEF Passed
  <2>14. Answer(S, r, au, cache)
    BY <2>11, <2>12, <2>13 DEF Answer
  <2>. QED
    BY <2>14 DEF r
<1>. QED
  BY <1>1, <1>2

\* check_with_depth at the depth limit, where it throws.
TooDeep == [au \in Declared |-> [cache \in SUBSET Declared |-> [ok |-> FALSE, cache |-> cache]]]

LEMMA CheckLoop ==
  ASSUME NEW keys
  PROVE  Loop(CheckImpl(keys), "check", keys, TooDeep, MaxDepth)
<1>. DEFINE P(g) == g = [left \in 0..MaxDepth |->
              IF left = 0 THEN TooDeep
              ELSE [au \in Declared |-> [cache \in SUBSET Declared |->
                      CheckOne(keys, g[left - 1], au, cache)]]]
            f == CHOOSE g : P(g)
<1>1. \E g : P(g)
  <2>1. PICK g : Loop(g, "check", keys, TooDeep, MaxDepth)
    BY LoopExists, AuthorityAssumption
  <2>2. P(g)
    BY <2>1, Zenon DEF Loop, Turn
  <2>. QED
    BY <2>2
<1>2. P(f)
  <2>. HIDE DEF P
  <2>. QED
    BY <1>1
<1>3. Loop(f, "check", keys, TooDeep, MaxDepth)
  <2>. HIDE DEF f
  <2>. QED
    BY <1>2, Zenon DEF Loop, Turn
<1>4. CheckImpl(keys) = f
  BY Zenon DEF CheckImpl, TooDeep
<1>. QED
  BY <1>3, <1>4

LEMMA CheckTurns ==
  ASSUME NEW keys
  PROVE  /\ CheckImpl(keys)[0] = TooDeep
         /\ \A left \in 1..MaxDepth :
              \A au \in Declared : \A cache \in SUBSET Declared :
                CheckImpl(keys)[left][au][cache]
                  = CheckOne(keys, CheckImpl(keys)[left - 1], au, cache)
<1>. DEFINE g == CheckImpl(keys)
<1>1. Loop(g, "check", keys, TooDeep, MaxDepth) /\ MaxDepth \in Nat
  BY CheckLoop, AuthorityAssumption
<1>. HIDE DEF g
<1>2. g[0] = TooDeep /\ \A left \in 1..MaxDepth : g[left] = Turn("check", keys, g[left - 1], left)
  BY ONLY <1>1, LoopTurns
<1>3. ASSUME NEW left \in 1..MaxDepth, NEW au \in Declared, NEW cache \in SUBSET Declared
      PROVE  g[left][au][cache] = CheckOne(keys, g[left - 1], au, cache)
  <2>1. g[left] = [x \in Declared |-> [c \in SUBSET Declared |-> CheckOne(keys, g[left - 1], x, c)]]
    BY <1>2, Zenon DEF Turn
  <2>. QED
    BY <2>1
<1>. QED
  BY <1>2, <1>3 DEF g

\* The answers are right at every depth.
LEMMA CheckAnswers ==
  ASSUME Inv, Kin(auths), NEW keys, NEW S, Reached(keys, S) \subseteq S
  PROVE  Sure(S, CheckImpl(keys)[MaxDepth])
<1>. DEFINE g == CheckImpl(keys)
            Bad == {n \in Nat : n <= MaxDepth /\ ~Sure(S, g[n])}
<1>1. /\ g[0] = TooDeep /\ MaxDepth \in Nat
      /\ \A left \in 1..MaxDepth :
           \A au \in Declared : \A cache \in SUBSET Declared :
             g[left][au][cache] = CheckOne(keys, g[left - 1], au, cache)
  BY CheckTurns, AuthorityAssumption
<1>. HIDE DEF g
<1>2. ASSUME Bad # {} PROVE FALSE
  <2>1. PICK n \in Bad : \A m \in Bad : ~(m < n)
    BY <1>2, Least
  <2>2. n \in Nat /\ n <= MaxDepth /\ ~Sure(S, g[n])
    BY <2>1
  <2>3. CASE n = 0
    <3>1. ASSUME NEW au \in Declared, NEW cache \in SUBSET Declared
          PROVE  Answer(S, g[0][au][cache], au, cache)
      <4>. DEFINE r == g[0][au][cache]
      <4>1. r = [ok |-> FALSE, cache |-> cache]
        BY <1>1 DEF TooDeep
      <4>2. r.ok = FALSE /\ r.cache = cache
        BY <4>1
      <4>. HIDE DEF r
      <4>3. Answer(S, r, au, cache)
        BY <4>2 DEF Answer
      <4>. QED
        BY <4>3 DEF r
    <3>2. Sure(S, g[0])
      BY <3>1 DEF Sure
    <3>. QED
      BY <2>2, <2>3, <3>2
  <2>4. CASE n # 0
    <3>1. n - 1 \in Nat /\ n - 1 < n /\ n - 1 <= MaxDepth /\ n \in 1..MaxDepth
      BY <1>1, <2>2, <2>4
    <3>2. Sure(S, g[n - 1])
      BY <2>1, <3>1
    <3>3. ASSUME NEW au \in Declared, NEW cache \in SUBSET Declared
          PROVE  Answer(S, g[n][au][cache], au, cache)
      <4>1. Answer(S, CheckOne(keys, g[n - 1], au, cache), au, cache)
        BY <3>2, CheckOneAnswers
      <4>2. g[n][au][cache] = CheckOne(keys, g[n - 1], au, cache)
        BY <1>1, <3>1
      <4>. QED
        BY <4>1, <4>2
    <3>4. Sure(S, g[n])
      BY <3>3 DEF Sure
    <3>. QED
      BY <2>2, <3>4
  <2>. QED
    BY <2>3, <2>4
<1>. QED
  BY <1>1, <1>2 DEF g

\* auth_checker on two authorizations.
LEMMA CheckedTwo ==
  ASSUME NEW u, NEW v, NEW keys, Checked(<<u, v>>, keys)
  PROVE  LET r == CheckImpl(keys)[MaxDepth][u][{}]
         IN  r.ok /\ CheckImpl(keys)[MaxDepth][v][r.cache].ok
<1>. DEFINE aus == <<u, v>>
            b == [ok |-> TRUE, cache |-> {}]
            c == CheckImpl(keys)[MaxDepth]
            P(g) == g = [i \in 0..Len(aus) |->
                     IF i = 0 THEN b
                     ELSE IF g[i - 1].ok THEN CheckImpl(keys)[MaxDepth][aus[i]][g[i - 1].cache]
                     ELSE g[i - 1]]
            f == CHOOSE g : P(g)
            p == <<aus, keys>>
<1>1. Len(aus) = 2 /\ aus[1] = u /\ aus[2] = v /\ p[1] = aus /\ p[2] = keys
  OBVIOUS
<1>2. b.ok = TRUE /\ b.cache = {}
  OBVIOUS
<1>3. Checked(aus, keys) = f[Len(aus)].ok
  BY Zenon DEF Checked
<1>. HIDE DEF p, aus, b
<1>4. \E g : P(g)
  <2>1. PICK g : Loop(g, "checked", p, b, Len(aus))
    BY <1>1, LoopExists
  <2>2. P(g)
    BY <1>1, <2>1 DEF Loop, Turn
  <2>. QED
    BY <2>2, SMTT(60)
<1>5. P(f)
  <2>. HIDE DEF P
  <2>. QED
    BY <1>4
<1>. HIDE DEF f
<1>6. f[0] = b
  BY <1>1, <1>5
<1>7. f[1] = IF f[0].ok THEN c[u][f[0].cache] ELSE f[0]
  BY <1>1, <1>5
<1>8. f[2] = IF f[1].ok THEN c[v][f[1].cache] ELSE f[1]
  BY <1>1, <1>5
<1>9. f[2].ok
  BY <1>1, <1>3 DEF aus
<1>. HIDE DEF c
<1>10. f[1] = c[u][{}]
  BY <1>2, <1>6, <1>7
<1>11. f[1].ok
  BY <1>8, <1>9
<1>12. f[2] = c[v][f[1].cache]
  BY <1>8, <1>11
<1>. QED
  BY <1>9, <1>10, <1>11, <1>12 DEF c

\* Whatever the authorities of accounts name, themselves and each other in circles
\* included, auth_checker lets an authorization pass only when the keys that signed
\* reach its threshold, as an int, with accounts that they reach in turn; so does a
\* second authorization, which finds the cache of the first.
THEOREM CheckedAreSatisfied == Spec => []ChecksSound
<1>1. Inv /\ Kin(auths) => ChecksSound
  <2>. SUFFICES ASSUME Inv, Kin(auths), NEW keys \in SUBSET Keys,
                       NEW x \in DOMAIN auths, NEW y \in DOMAIN auths,
                       Checked(<<[account |-> auths[x].owner, authority |-> auths[x].name],
                                 [account |-> auths[y].owner, authority |-> auths[y].name]>>, keys),
                       NEW S \in SUBSET DOMAIN auths, Reached(keys, S) \subseteq S
       PROVE  x \in S /\ y \in S
    BY Zenon DEF ChecksSound, Satisfied
  <2>. DEFINE u == [account |-> auths[x].owner, authority |-> auths[x].name]
              v == [account |-> auths[y].owner, authority |-> auths[y].name]
              c == CheckImpl(keys)[MaxDepth]
              r == c[u][{}]
              s == c[v][r.cache]
  <2>1. u \in Declared /\ v \in Declared
    <3>1. auths[x] \in Objects /\ auths[y] \in Objects
      BY DEF Kin
    <3>. QED
      BY <3>1 DEF Declared, Objects
  <2>2. \A i, j \in DOMAIN auths : auths[i].owner = auths[j].owner /\ auths[i].name = auths[j].name => i = j
    BY SoundMeans, Zenon DEF Inv
  <2>3. (\A i \in Ids(u) : i = x) /\ (\A i \in Ids(v) : i = y)
    BY <2>2 DEF Ids
  <2>4. Checked(<<u, v>>, keys)
    OBVIOUS
  <2>. HIDE DEF u, v
  <2>5. r.ok /\ s.ok
    BY <2>4, CheckedTwo
  <2>6. Sure(S, c)
    BY CheckAnswers
  <2>. HIDE DEF c
  <2>7. {} \in SUBSET Declared /\ Fine(S, {})
    BY DEF Fine
  <2>8. Answer(S, r, u, {})
    BY <2>1, <2>6, <2>7 DEF Sure
  <2>. HIDE DEF r
  <2>9. Passed(S, u) /\ Fine(S, r.cache) /\ r.cache \in SUBSET Declared
    BY <2>5, <2>7, <2>8 DEF Answer
  <2>10. Answer(S, s, v, r.cache)
    BY <2>1, <2>6, <2>9 DEF Sure
  <2>. HIDE DEF s
  <2>11. Passed(S, v)
    BY <2>5, <2>9, <2>10 DEF Answer
  <2>. QED
    BY <2>3, <2>9, <2>11 DEF Passed
<1>. QED
  BY <1>1, KinAlways, PTL
=============================================================================
