----------------------------- MODULE VaultProofs -----------------------------
(***************************************************************************)
(* Proofs about Vault.tla, for any number of tabs, attempts, people, blobs *)
(* and presses, in both builds: who the saved session belongs to, when the *)
(* sign-in form is locked, and what becomes of the blobs.                  *)
(***************************************************************************)
EXTENDS Vault, WellFoundedInduction, TLAPS

----------------------------------------------------------------------------
\* Lists of blobs.

\* A set of numbers has a least one.
LEMMA LeastIs ==
    ASSUME NEW T \in SUBSET Nat, T # {}
    PROVE  Min(T) \in T /\ \A y \in T : Min(T) <= y
<1> DEFINE R == OpToRel(<, Nat)
<1>1. R = {s \in Nat \X Nat : s[1] < s[2]}
  BY DEF OpToRel
<1>2. IsWellFoundedOn(R, Nat)
  BY NatLessThanWellFounded
<1> HIDE DEF R
<1>3. PICK x \in T : \A y \in T : ~ (<<y, x>> \in R)
  BY <1>2, WFMin, Zenon
<1>4. ASSUME NEW y \in T PROVE x <= y
  <2>1. x \in Nat /\ y \in Nat
    OBVIOUS
  <2>2. <<y, x>> \in Nat \X Nat /\ <<y, x>>[1] = y /\ <<y, x>>[2] = x
    BY <2>1
  <2>3. ~ (<<y, x>> \in R)
    BY <1>3
  <2>4. ~ (y < x)
    BY <1>1, <2>2, <2>3
  <2> QED
    BY <2>1, <2>4
<1> QED
  BY <1>4 DEF Min

\* What holds of 0, and of n + 1 when it holds of n, holds of every number.
LEMMA CountingUp ==
    ASSUME NEW N \in Nat, NEW T, 0 \in T, \A n \in 0 .. N : n \in T /\ n < N => n + 1 \in T
    PROVE  \A n \in 0 .. N : n \in T
<1> DEFINE Not == {n \in 0 .. N : n \notin T}
<1>1. SUFFICES ASSUME Not # {} PROVE FALSE
  OBVIOUS
<1>2. Not \in SUBSET Nat
  OBVIOUS
<1> DEFINE m == Min(Not)
<1>3. m \in Not /\ \A n \in Not : m <= n
  <2> HIDE DEF Not
  <2> QED
    BY <1>1, <1>2, LeastIs
<1> HIDE DEF m
<1>4. m \in Nat /\ m # 0 /\ m \notin T /\ m \in 0 .. N
  BY <1>3
<1>5. m - 1 \in 0 .. N /\ m - 1 \notin Not /\ m - 1 < N /\ (m - 1) + 1 = m
  BY <1>3, <1>4
<1>6. m - 1 \in T
  BY <1>5
<1> QED
  BY <1>4, <1>5, <1>6

\* Appending adds one element.
LEMMA AppendIs ==
    ASSUME NEW S, NEW s \in Seq(S), NEW e
    PROVE  ToSet(Append(s, e)) = ToSet(s) \cup {e}
<1> DEFINE more == Append(s, e)
<1>1. DOMAIN s = 1 .. Len(s) /\ Len(s) \in Nat
  OBVIOUS
<1>2. /\ DOMAIN more = DOMAIN s \cup {Len(s) + 1}
      /\ more[Len(s) + 1] = e /\ \A i \in DOMAIN s : more[i] = s[i]
  BY <1>1
<1> HIDE DEF more
<1>3. ToSet(more) = ToSet(s) \cup {e}
  BY <1>2 DEF ToSet
<1> QED
  BY <1>3 DEF more

\* Merging a list of records, one after the other.
Merging(users, incoming, g) ==
    g = [n \in 0 .. Len(incoming) |->
            IF n = 0 THEN users ELSE MergeRecord(g[n - 1], incoming[n])]

LEMMA MergingExists ==
    ASSUME NEW S, NEW incoming \in Seq(S), NEW users
    PROVE  \E g : Merging(users, incoming, g) /\ MergeRecords(users, incoming) = g[Len(incoming)]
<1> DEFINE N == Len(incoming)
           P(g, n) == g = [i \in 0 .. n |->
                              IF i = 0 THEN users ELSE MergeRecord(g[i - 1], incoming[i])]
           T == {n \in 0 .. N : \E g : P(g, n)}
<1>1. N \in Nat
  OBVIOUS
<1>2. 0 \in T
  <2>1. P([i \in 0 .. 0 |-> users], 0)
    OBVIOUS
  <2> HIDE DEF P
  <2> QED
    BY <1>1, <2>1
<1>3. ASSUME NEW n \in 0 .. N, n \in T, n < N PROVE n + 1 \in T
  <2>1. PICK g : P(g, n)
    BY <1>3
  <2> DEFINE h == [i \in 0 .. n + 1 |->
                      IF i <= n THEN g[i] ELSE MergeRecord(g[n], incoming[n + 1])]
  <2>2. n + 1 \in 0 .. N /\ n \in Nat
    BY <1>1, <1>3
  <2>3. \A i \in 0 .. n : h[i] = g[i]
    BY <2>2
  <2>4. \A i \in 0 .. n + 1 :
            h[i] = IF i = 0 THEN users ELSE MergeRecord(h[i - 1], incoming[i])
    <3>1. ASSUME NEW i \in 0 .. n
          PROVE  h[i] = IF i = 0 THEN users ELSE MergeRecord(h[i - 1], incoming[i])
      <4>1. g[i] = IF i = 0 THEN users ELSE MergeRecord(g[i - 1], incoming[i])
        BY <2>1
      <4>2. i # 0 => i - 1 \in 0 .. n
        BY <2>2
      <4> HIDE DEF h
      <4> QED
        BY <2>3, <4>1, <4>2
    <3>2. h[n + 1] = MergeRecord(h[n], incoming[n + 1])
      BY <2>2
    <3>3. \A i \in 0 .. n + 1 : i \in 0 .. n \/ (i = n + 1 /\ i # 0 /\ i - 1 = n)
      BY <2>2
    <3> HIDE DEF h
    <3> QED
      BY <3>1, <3>2, <3>3
  <2>5. h = [i \in 0 .. n + 1 |-> h[i]]
    OBVIOUS
  <2> HIDE DEF h
  <2>6. P(h, n + 1)
    BY <2>4, <2>5
  <2> HIDE DEF P
  <2> QED
    BY <2>2, <2>6
<1>4. N \in T
  <2> HIDE DEF T
  <2>1. \A n \in 0 .. N : n \in T
    BY <1>1, <1>2, <1>3, CountingUp
  <2> QED
    BY <1>1, <2>1
<1>5. \E g : Merging(users, incoming, g)
  BY <1>4 DEF Merging
<1>6. Merging(users, incoming, CHOOSE g : Merging(users, incoming, g))
  BY <1>5, Zenon
<1>7. MergeRecords(users, incoming) = (CHOOSE g : Merging(users, incoming, g))[N]
  BY DEF MergeRecords, Merging
<1> QED
  BY <1>6, <1>7

\* One record takes the place of the one with its id, is there already, or is
\* added: no id is lost, and nothing but the record comes in.
LEMMA MergeOne ==
    ASSUME NEW users \in Seq(Blob), NEW rec \in Blob
    PROVE  /\ MergeRecord(users, rec) \in Seq(Blob)
           /\ Ids(users) \subseteq Ids(MergeRecord(users, rec))
           /\ ToSet(MergeRecord(users, rec)) \subseteq ToSet(users) \cup {rec}
<1> DEFINE put == [i \in DOMAIN users |-> IF users[i].id = rec.id THEN rec ELSE users[i]]
<1>1. DOMAIN users = 1 .. Len(users) /\ Len(users) \in Nat
  OBVIOUS
<1>2. CASE MergeRecord(users, rec) = put
  <2>1. put \in Seq(Blob)
    BY <1>1
  <2>2. \A i \in DOMAIN users : put[i].id = users[i].id /\ put[i] \in {users[i], rec}
    OBVIOUS
  <2>3. DOMAIN put = DOMAIN users
    OBVIOUS
  <2> HIDE DEF put
  <2> QED
    BY <1>2, <2>1, <2>2, <2>3 DEF Ids, ToSet
<1>3. CASE MergeRecord(users, rec) = users
  BY <1>3
<1>4. CASE MergeRecord(users, rec) = Append(users, rec)
  <2> DEFINE more == Append(users, rec)
  <2>1. /\ more \in Seq(Blob) /\ DOMAIN more = DOMAIN users \cup {Len(users) + 1}
        /\ more[Len(users) + 1] = rec /\ \A i \in DOMAIN users : more[i] = users[i]
    BY <1>1
  <2> HIDE DEF more
  <2> QED
    BY <1>4, <2>1 DEF Ids, ToSet, more
<1> QED
  BY <1>2, <1>3, <1>4 DEF MergeRecord

\* The same for a list of records.
LEMMA MergeRecordsIs ==
    ASSUME NEW users \in Seq(Blob), NEW incoming \in Seq(Blob)
    PROVE  /\ MergeRecords(users, incoming) \in Seq(Blob)
           /\ Ids(users) \subseteq Ids(MergeRecords(users, incoming))
           /\ ToSet(MergeRecords(users, incoming)) \subseteq ToSet(users) \cup ToSet(incoming)
<1> DEFINE N == Len(incoming)
           Fine(m) == /\ m \in Seq(Blob) /\ Ids(users) \subseteq Ids(m)
                      /\ ToSet(m) \subseteq ToSet(users) \cup ToSet(incoming)
<1>0. N \in Nat /\ DOMAIN incoming = 1 .. N
  OBVIOUS
<1>1. PICK g : Merging(users, incoming, g) /\ MergeRecords(users, incoming) = g[N]
  BY MergingExists
<1> DEFINE T == {n \in 0 .. N : Fine(g[n])}
<1>2. \A n \in 0 .. N : g[n] = IF n = 0 THEN users ELSE MergeRecord(g[n - 1], incoming[n])
  BY <1>1 DEF Merging
<1>3. 0 \in T
  BY <1>0, <1>2
<1>4. ASSUME NEW n \in 0 .. N, n \in T, n < N PROVE n + 1 \in T
  <2>1. /\ n + 1 \in 0 .. N /\ n + 1 # 0 /\ (n + 1) - 1 = n
        /\ n + 1 \in DOMAIN incoming
    BY <1>0, <1>4
  <2>2. g[n + 1] = MergeRecord(g[n], incoming[n + 1])
    BY <1>2, <2>1
  <2>3. incoming[n + 1] \in Blob /\ incoming[n + 1] \in ToSet(incoming)
    BY <2>1 DEF ToSet
  <2>4. Fine(g[n])
    BY <1>4
  <2>5. /\ g[n + 1] \in Seq(Blob) /\ Ids(g[n]) \subseteq Ids(g[n + 1])
        /\ ToSet(g[n + 1]) \subseteq ToSet(g[n]) \cup {incoming[n + 1]}
    <3>1. g[n] \in Seq(Blob)
      BY <2>4
    <3>2. /\ MergeRecord(g[n], incoming[n + 1]) \in Seq(Blob)
          /\ Ids(g[n]) \subseteq Ids(MergeRecord(g[n], incoming[n + 1]))
          /\ ToSet(MergeRecord(g[n], incoming[n + 1])) \subseteq
                 ToSet(g[n]) \cup {incoming[n + 1]}
      BY <2>3, <3>1, MergeOne
    <3> QED
      BY <2>2, <3>2
  <2> QED
    BY <2>1, <2>3, <2>4, <2>5
<1>5. N \in T
  <2> HIDE DEF T
  <2>1. \A n \in 0 .. N : n \in T
    BY <1>0, <1>3, <1>4, CountingUp
  <2> QED
    BY <1>0, <2>1
<1> QED
  BY <1>1, <1>5

\* Leaving out an id, blob after blob.
Keeping(users, id, g) ==
    g = [n \in 0 .. Len(users) |->
            IF n = 0 THEN <<>>
            ELSE IF users[n].id = id THEN g[n - 1]
            ELSE Append(g[n - 1], users[n])]

LEMMA KeepingExists ==
    ASSUME NEW users \in Seq(Blob), NEW id
    PROVE  \E g : Keeping(users, id, g) /\ Without(users, id) = g[Len(users)]
<1> DEFINE N == Len(users)
           Step(k, i) == IF users[i].id = id THEN k ELSE Append(k, users[i])
           P(g, n) == g = [i \in 0 .. n |-> IF i = 0 THEN <<>> ELSE Step(g[i - 1], i)]
           T == {n \in 0 .. N : \E g : P(g, n)}
<1>1. N \in Nat
  OBVIOUS
<1>2. 0 \in T
  <2>1. P([i \in 0 .. 0 |-> <<>>], 0)
    OBVIOUS
  <2> HIDE DEF P
  <2> QED
    BY <1>1, <2>1
<1>3. ASSUME NEW n \in 0 .. N, n \in T, n < N PROVE n + 1 \in T
  <2> HIDE DEF Step
  <2>1. PICK g : P(g, n)
    BY <1>3
  <2> DEFINE h == [i \in 0 .. n + 1 |-> IF i <= n THEN g[i] ELSE Step(g[n], n + 1)]
  <2>2. n + 1 \in 0 .. N /\ n \in Nat
    BY <1>1, <1>3
  <2>3. \A i \in 0 .. n : h[i] = g[i]
    BY <2>2
  <2>4. \A i \in 0 .. n + 1 : h[i] = IF i = 0 THEN <<>> ELSE Step(h[i - 1], i)
    <3>1. ASSUME NEW i \in 0 .. n
          PROVE  h[i] = IF i = 0 THEN <<>> ELSE Step(h[i - 1], i)
      <4>1. g[i] = IF i = 0 THEN <<>> ELSE Step(g[i - 1], i)
        BY <2>1
      <4>2. i # 0 => i - 1 \in 0 .. n
        BY <2>2
      <4> HIDE DEF h
      <4> QED
        BY <2>3, <4>1, <4>2
    <3>2. h[n + 1] = Step(h[n], n + 1)
      BY <2>2
    <3>3. \A i \in 0 .. n + 1 : i \in 0 .. n \/ (i = n + 1 /\ i # 0 /\ i - 1 = n)
      BY <2>2
    <3> HIDE DEF h
    <3> QED
      BY <3>1, <3>2, <3>3
  <2>5. h = [i \in 0 .. n + 1 |-> h[i]]
    OBVIOUS
  <2> HIDE DEF h
  <2>6. P(h, n + 1)
    BY <2>4, <2>5
  <2> HIDE DEF P
  <2> QED
    BY <2>2, <2>6
<1>4. N \in T
  <2> HIDE DEF T
  <2>1. \A n \in 0 .. N : n \in T
    BY <1>1, <1>2, <1>3, CountingUp
  <2> QED
    BY <1>1, <2>1
<1>5. \E g : Keeping(users, id, g)
  BY <1>4 DEF Keeping
<1>6. Keeping(users, id, CHOOSE g : Keeping(users, id, g))
  BY <1>5, Zenon
<1>7. Without(users, id) = (CHOOSE g : Keeping(users, id, g))[N]
  BY DEF Without, Keeping
<1> QED
  BY <1>6, <1>7

\* What is left are the blobs with another id, all of them.
LEMMA WithoutIs ==
    ASSUME NEW users \in Seq(Blob), NEW id
    PROVE  /\ Without(users, id) \in Seq(Blob)
           /\ ToSet(Without(users, id)) = {rec \in ToSet(users) : rec.id # id}
<1> DEFINE N == Len(users)
<1>0. N \in Nat /\ DOMAIN users = 1 .. N
  OBVIOUS
<1>1. PICK g : Keeping(users, id, g) /\ Without(users, id) = g[N]
  BY KeepingExists
<1> DEFINE Seen(n) == {users[i] : i \in 1 .. n}
           Fine(k, n) == k \in Seq(Blob) /\ ToSet(k) = {rec \in Seen(n) : rec.id # id}
           T == {n \in 0 .. N : Fine(g[n], n)}
<1>2. \A n \in 0 .. N : g[n] = IF n = 0 THEN <<>>
                               ELSE IF users[n].id = id THEN g[n - 1]
                               ELSE Append(g[n - 1], users[n])
  BY <1>1 DEF Keeping
<1>3. 0 \in T
  <2>1. g[0] = <<>>
    BY <1>0, <1>2
  <2>2. Fine(<<>>, 0)
    BY DEF ToSet
  <2> HIDE DEF Fine
  <2> QED
    BY <1>0, <2>1, <2>2
<1>4. ASSUME NEW n \in 0 .. N, n \in T, n < N PROVE n + 1 \in T
  <2>1. /\ n + 1 \in 0 .. N /\ n + 1 # 0 /\ (n + 1) - 1 = n
        /\ n + 1 \in DOMAIN users
    BY <1>0, <1>4
  <2>2. g[n + 1] = IF users[n + 1].id = id THEN g[n] ELSE Append(g[n], users[n + 1])
    BY <1>2, <2>1
  <2>3. users[n + 1] \in Blob
    BY <2>1
  <2>4. g[n] \in Seq(Blob) /\ ToSet(g[n]) = {rec \in Seen(n) : rec.id # id}
    BY <1>4
  <2>5. Seen(n + 1) = Seen(n) \cup {users[n + 1]}
    BY <1>4
  <2>6. ToSet(Append(g[n], users[n + 1])) = ToSet(g[n]) \cup {users[n + 1]}
    BY <2>4, AppendIs
  <2>7. Append(g[n], users[n + 1]) \in Seq(Blob)
    BY <2>3, <2>4
  <2> HIDE DEF Seen
  <2>8. Fine(g[n + 1], n + 1)
    BY <2>2, <2>4, <2>5, <2>6, <2>7
  <2> HIDE DEF Fine
  <2> QED
    BY <2>1, <2>8
<1>5. N \in T
  <2> HIDE DEF T
  <2>1. \A n \in 0 .. N : n \in T
    BY <1>0, <1>3, <1>4, CountingUp
  <2> QED
    BY <1>0, <2>1
<1>6. Seen(N) = ToSet(users)
  BY <1>0 DEF ToSet
<1> QED
  BY <1>1, <1>5, <1>6

----------------------------------------------------------------------------
\* What the variables hold.

\* A search that finds somebody returns a blob of the list it looked at.
LEMMA FindUserIs ==
    ASSUME NEW users \in Seq(Blob), NEW c, FindUser(users, c) > 0
    PROVE  users[FindUser(users, c)] \in Blob
<1> DEFINE I == {i \in 1 .. Len(users) : Fits(users[i], c)}
<1>1. FindUser(users, c) = IF I # {} THEN Min(I) ELSE 0
  BY DEF FindUser, SelectInSeq
<1>2. I \in SUBSET Nat
  OBVIOUS
<1>3. I # {}
  BY <1>1
<1> HIDE DEF I
<1>4. FindUser(users, c) \in I
  BY <1>1, <1>2, <1>3, LeastIs
<1> QED
  BY <1>4 DEF I

LEMMA FindByIdIs ==
    ASSUME NEW users \in Seq(Blob), NEW id \in Ids(users)
    PROVE  FindUserById(users, id) \in Blob
<1> DEFINE I == {i \in 1 .. Len(users) : users[i].id = id}
           first == SelectInSeq(users, LAMBDA rec : rec.id = id)
<1>1. first = IF I # {} THEN Min(I) ELSE 0
  BY DEF SelectInSeq
<1>2. I \in SUBSET Nat
  OBVIOUS
<1>3. I # {}
  BY DEF Ids
<1> HIDE DEF I
<1>4. first \in I
  BY <1>1, <1>2, <1>3, LeastIs
<1>5. FindUserById(users, id) = users[first]
  BY DEF FindUserById
<1> HIDE DEF first
<1> QED
  BY <1>4, <1>5 DEF I

\* An attempt that unlocks holds the blob it is to unlock.
Fit(a) == a \in Attempt \cup {Idle} /\ (a.stage = "unlock" => a.rec \in Blob)

VaultInv == TypeOK /\ \A t \in Tab, k \in Slot : Fit(run[t][k])

LEMMA BlobIs ==
    ASSUME NEW rec \in Blob
    PROVE  rec.id \in Id /\ Identity(rec) \in Ident
BY DEF Blob, Identity, Ident

\* The slots after one of them changed.
LEMMA RunTypes ==
    ASSUME VaultInv, NEW t \in Tab, NEW k \in Slot, NEW a, Fit(a),
           run' = [run EXCEPT ![t][k] = a]
    PROVE  /\ run' \in [Tab -> [Slot -> Attempt \cup {Idle}]]
           /\ \A u \in Tab, j \in Slot : Fit(run'[u][j])
<1>1. run \in [Tab -> [Slot -> Attempt \cup {Idle}]] /\ a \in Attempt \cup {Idle}
  BY DEF VaultInv, TypeOK, Fit
<1>2. run' \in [Tab -> [Slot -> Attempt \cup {Idle}]]
  BY <1>1
<1>3. \A u \in Tab, j \in Slot : run'[u][j] = run[u][j] \/ run'[u][j] = a
  BY <1>1
<1> QED
  BY <1>2, <1>3 DEF VaultInv

LEMMA IdleFits == Fit(Idle)
BY DEF Fit, Idle

LEMMA StoreFits ==
    ASSUME NEW s \in BOOLEAN
    PROVE  Fit([stage |-> "store", silent |-> s])
BY DEF Fit, Attempt, Storing

LEMMA DerivingFits ==
    ASSUME NEW stage \in {"yield", "search", "unlock", "create"}, NEW s \in BOOLEAN,
           NEW c \in Cred, NEW id \in Id \cup {NoId}, NEW list \in Seq(Blob),
           NEW rec \in Blob \cup {None}, stage = "unlock" => rec \in Blob
    PROVE  Fit(NewAttempt(stage, s, c, id, list, rec))
<1> DEFINE a == NewAttempt(stage, s, c, id, list, rec)
<1>1. a \in Deriving /\ a.stage = stage /\ a.rec = rec
  BY DEF NewAttempt, Deriving
<1> HIDE DEF a
<1> QED
  BY <1>1 DEF Fit, Attempt, a

\* What an attempt that derives keys holds.
LEMMA DerivingIs ==
    ASSUME VaultInv, NEW t \in Tab, NEW k \in Slot,
           run[t][k].stage \in {"yield", "search", "unlock", "create"}
    PROVE  /\ run[t][k] \in Deriving
           /\ run[t][k].cred \in Cred /\ run[t][k].target \in Id \cup {NoId}
           /\ run[t][k].list \in Seq(Blob) /\ run[t][k].silent \in BOOLEAN
           /\ run[t][k].stage = "unlock" => run[t][k].rec \in Blob
<1>1. run[t][k] \in Attempt \cup {Idle}
  BY DEF VaultInv, TypeOK
<1>2. run[t][k] \in Deriving
  BY <1>1 DEF Attempt, Storing, Idle
<1> QED
  BY <1>2 DEF VaultInv, Fit, Deriving

\* What is signed in with is a new blob of the attempt's person.
LEMMA NewRecordIs ==
    ASSUME NEW c \in Cred, FreshId \ used # {}
    PROVE  NewRecord(c) \in Blob /\ NewRecord(c).id \notin used
<1> DEFINE id == CHOOSE id \in FreshId \ used : TRUE
<1>1. id \in FreshId \ used
  OBVIOUS
<1>2. NewRecord(c) = [id |-> id, salt |-> id, name |-> c.name, pw |-> c.pw]
  BY DEF NewRecord
<1> HIDE DEF id
<1> QED
  BY <1>1, <1>2 DEF Blob, Id, Name

\* Signing in keeps the types of who is signed in.
LEMMA SignedInTypes ==
    ASSUME VaultInv, NEW t \in Tab, NEW k \in Slot, NEW rec \in Blob, SignedIn(t, k, rec),
           run[t][k].silent \in BOOLEAN,
           vault' \in Seq(Blob), used' \subseteq Id, UNCHANGED <<build, prefill, presses>>
    PROVE  VaultInv'
<1> DEFINE a == [stage |-> "store", silent |-> run[t][k].silent]
<1>1. run' = [run EXCEPT ![t][k] = a] /\ Fit(a)
  BY StoreFits DEF SignedIn
<1> HIDE DEF a
<1>2. /\ run' \in [Tab -> [Slot -> Attempt \cup {Idle}]]
      /\ \A u \in Tab, j \in Slot : Fit(run'[u][j])
  BY <1>1, RunTypes
<1>3. /\ who' \in [Tab -> Ident \cup {Nobody}] /\ session' \in Ident \cup {Nobody}
  BY BlobIs DEF SignedIn, VaultInv, TypeOK
<1>4. open' \in [Tab -> BOOLEAN]
  BY DEF SignedIn, VaultInv, TypeOK
<1> QED
  BY <1>2, <1>3, <1>4 DEF SignedIn, VaultInv, TypeOK

\* An attempt that ends without a word.
LEMMA EndRunTypes ==
    ASSUME VaultInv, NEW t \in Tab, NEW k \in Slot, EndRun(t, k)
    PROVE  /\ run' \in [Tab -> [Slot -> Attempt \cup {Idle}]]
           /\ \A u \in Tab, j \in Slot : Fit(run'[u][j])
           /\ busy' \in [Tab -> BOOLEAN]
<1>1. busy' \in [Tab -> BOOLEAN]
  BY DEF EndRun, VaultInv, TypeOK
<1> QED
  BY <1>1, IdleFits, RunTypes DEF EndRun

LEMMA SignOutTypes ==
    ASSUME VaultInv, NEW t \in Tab, SignOutLocal(t)
    PROVE  /\ who' \in [Tab -> Ident \cup {Nobody}] /\ session' \in Ident \cup {Nobody}
           /\ open' \in [Tab -> BOOLEAN]
<1>1. who' \in [Tab -> Ident \cup {Nobody}] /\ session' \in Ident \cup {Nobody}
  BY DEF SignOutLocal, VaultInv, TypeOK
<1>2. open' \in [Tab -> BOOLEAN]
  BY DEF SignOutLocal, VaultInv, TypeOK
<1> QED
  BY <1>1, <1>2

LEMMA ViewTypes ==
    ASSUME VaultInv, NEW t \in Tab, NEW v \in {"main", "signin"}, ShowView(t, v)
    PROVE  view' \in [Tab -> {"main", "signin"}]
BY DEF ShowView, VaultInv, TypeOK

\* The slot moves on to another await.
LEMMA StageTypes ==
    ASSUME VaultInv, NEW t \in Tab, NEW k \in Slot, NEW a, Fit(a),
           run' = [run EXCEPT ![t][k] = a],
           UNCHANGED <<build, stored, who, open, view, busy, target, prefill, presses>>
    PROVE  VaultInv' /\ vault' = vault
BY RunTypes DEF stored, VaultInv, TypeOK

\* A step of an attempt keeps the types; what it does to the vault is nothing,
\* or to add a blob nobody had before, if no other tab was faster.
LEMMA ContinueTypes ==
    ASSUME VaultInv, NEW t \in Tab, NEW k \in Slot, Continue(t, k)
    PROVE  /\ VaultInv'
           /\ \/ vault' = vault
              \/ \E rec \in Blob : rec.id \notin used /\ vault' = Append(vault, rec)
              \/ Overtaken
<1> DEFINE Added == \/ vault' = vault
                    \/ \E rec \in Blob : rec.id \notin used /\ vault' = Append(vault, rec)
                    \/ Overtaken
           a == run[t][k]
<1>0. UNCHANGED <<build, prefill, presses>> /\ vault \in Seq(Blob) /\ used \subseteq Id
  BY DEF Continue, VaultInv, TypeOK
<1>1. ASSUME NEW rec \in Blob, Hit(t, k, rec), a.silent \in BOOLEAN
      PROVE  VaultInv' /\ Added
  BY <1>0, <1>1, SignedInTypes DEF Hit
<1>2. ASSUME AddCreated(t, k), a.cred \in Cred, a.silent \in BOOLEAN,
             a.list \in Seq(Blob), CreateEnds(t, k)
      PROVE  VaultInv' /\ Added
  <2> DEFINE rec == NewRecord(a.cred)
             users == IF build = "wasm" THEN a.list ELSE vault
  <2>1. rec \in Blob /\ rec.id \notin used /\ rec.id \in Id
    BY <1>2, NewRecordIs, BlobIs DEF AddCreated
  <2>2. /\ used' = used \cup {rec.id} /\ vault' \in {vault, Append(users, rec)}
        /\ SignedIn(t, k, rec)
    BY <1>2 DEF AddCreated
  <2>5. users \in Seq(Blob) /\ (users = vault \/ Overtaken)
    BY <1>0, <1>2 DEF Overtaken, CreateEnds
  <2> HIDE DEF rec, users
  <2>3. vault' \in Seq(Blob) /\ used' \subseteq Id
    BY <1>0, <2>1, <2>2, <2>5
  <2>4. VaultInv'
    BY <1>0, <1>2, <2>1, <2>2, <2>3, SignedInTypes
  <2> QED
    BY <2>1, <2>2, <2>4, <2>5
<1>3. ASSUME Fail(t, k) PROVE VaultInv' /\ Added
  <2>1. UNCHANGED <<stored, who, open, view, target>> /\ EndRun(t, k)
    BY <1>3 DEF Fail
  <2> QED
    BY <1>0, <2>1, EndRunTypes DEF stored, VaultInv, TypeOK
<1>4. CASE SearchEnds(t, k)
  <2>1. a \in Deriving /\ a.list \in Seq(Blob) /\ a.silent \in BOOLEAN
    BY <1>4, DerivingIs DEF SearchEnds
  <2>2. ASSUME FindUser(a.list, a.cred) > 0, Hit(t, k, a.list[FindUser(a.list, a.cred)])
        PROVE  VaultInv' /\ Added
    BY <1>1, <2>1, <2>2, FindUserIs
  <2> DEFINE c == [a EXCEPT !.stage = "create",
                              !.list = IF build = "wasm" THEN vault ELSE a.list]
  <2>3. ASSUME run' = [run EXCEPT ![t][k] = c],
               UNCHANGED <<stored, who, open, view, busy, target>>
        PROVE  VaultInv' /\ Added
    <3>1. c \in Deriving /\ c.stage = "create"
      BY <1>0, <2>1 DEF Deriving
    <3> HIDE DEF c
    <3>2. Fit(c)
      BY <3>1 DEF Fit, Attempt
    <3> QED
      BY <1>0, <2>3, <3>2, StageTypes
  <2> QED
    BY <1>3, <1>4, <2>2, <2>3 DEF SearchEnds
<1>5. CASE UnlockEnds(t, k)
  <2>1. a.rec \in Blob /\ a.silent \in BOOLEAN
    BY <1>5, DerivingIs DEF UnlockEnds
  <2> QED
    BY <1>1, <1>3, <1>5, <2>1 DEF UnlockEnds
<1>6. CASE CreateEnds(t, k)
  <2>1. a.cred \in Cred /\ a.silent \in BOOLEAN /\ a.list \in Seq(Blob)
    BY <1>6, DerivingIs DEF CreateEnds
  <2> QED
    BY <1>2, <1>3, <1>6, <2>1 DEF CreateEnds
<1>7. CASE StoreEnds(t, k)
  <2>1. EndRun(t, k) /\ ShowView(t, "main") /\ UNCHANGED <<stored, who, open>>
    BY <1>7 DEF StoreEnds
  <2>2. target' \in [Tab -> Id \cup {NoId}]
    BY <1>7 DEF StoreEnds, VaultInv, TypeOK
  <2>3. view' \in [Tab -> {"main", "signin"}]
    BY <2>1, ViewTypes
  <2> QED
    BY <1>0, <2>1, <2>2, <2>3, EndRunTypes DEF stored, VaultInv, TypeOK
<1>8. CASE InlineUnlock(t, k)
  <2>1. a \in Deriving
    BY <1>8, DerivingIs DEF InlineUnlock
  <2>2. ASSUME Gone(t), EndRun(t, k), UNCHANGED <<vault, used, target>>
        PROVE  VaultInv' /\ Added
    <3>1. SignOutLocal(t) /\ ShowView(t, "main")
      BY <2>2 DEF Gone
    <3>2. view' \in [Tab -> {"main", "signin"}]
      BY <3>1, ViewTypes
    <3> QED
      BY <1>0, <2>2, <3>1, <3>2, EndRunTypes, SignOutTypes DEF VaultInv, TypeOK
  <2> DEFINE rec == FindUserById(vault, a.target)
             c == [a EXCEPT !.stage = "unlock", !.rec = rec]
  <2>3. ASSUME a.target \in Ids(vault), run' = [run EXCEPT ![t][k] = c],
               UNCHANGED <<stored, who, open, view, busy, target>>
        PROVE  VaultInv' /\ Added
    <3>1. rec \in Blob
      BY <1>0, <2>3, FindByIdIs
    <3> HIDE DEF rec
    <3>2. c \in Deriving /\ c.rec \in Blob
      BY <2>1, <3>1 DEF Deriving
    <3> HIDE DEF c
    <3>3. Fit(c)
      BY <3>2 DEF Fit, Attempt
    <3> QED
      BY <1>0, <2>3, <3>3, StageTypes
  <2> QED
    BY <1>8, <2>2, <2>3 DEF InlineUnlock
<1>9. CASE InlineSignIn(t, k)
  <2> DEFINE c == [a EXCEPT !.stage = "search", !.list = vault]
  <2>1. a \in Deriving
    BY <1>9, DerivingIs DEF InlineSignIn
  <2>2. c \in Deriving /\ c.stage = "search"
    BY <1>0, <2>1 DEF Deriving
  <2>3. run' = [run EXCEPT ![t][k] = c] /\ UNCHANGED <<stored, who, open, view, busy, target>>
    BY <1>9 DEF InlineSignIn
  <2> HIDE DEF c
  <2>4. Fit(c)
    BY <2>2 DEF Fit, Attempt
  <2> QED
    BY <1>0, <2>3, <2>4, StageTypes
<1> QED
  BY <1>4, <1>5, <1>6, <1>7, <1>8, <1>9 DEF Continue

\* A new attempt of any kind.
LEMMA BeginTypes ==
    ASSUME VaultInv, NEW t \in Tab, NEW s \in BOOLEAN, NEW c \in Cred, NEW id \in Id \cup {NoId},
           Begin(t, s, c, id), build = "webcrypto" /\ id # NoId => id \in Ids(vault)
    PROVE  /\ run' \in [Tab -> [Slot -> Attempt \cup {Idle}]]
           /\ \A u \in Tab, j \in Slot : Fit(run'[u][j])
           /\ busy' \in [Tab -> BOOLEAN]
<1>0. vault \in Seq(Blob) /\ <<>> \in Seq(Blob) /\ build \in {"webcrypto", "wasm"}
  BY BuildAssumption DEF VaultInv, TypeOK
<1>1. ASSUME NEW a, Fit(a), StartRun(t, a)
      PROVE  /\ run' \in [Tab -> [Slot -> Attempt \cup {Idle}]]
             /\ \A u \in Tab, j \in Slot : Fit(run'[u][j])
             /\ busy' \in [Tab -> BOOLEAN]
  <2>1. PICK k \in Slot : run' = [run EXCEPT ![t][k] = a]
    BY <1>1 DEF StartRun
  <2>2. busy' \in [Tab -> BOOLEAN]
    BY <1>1 DEF StartRun, VaultInv, TypeOK
  <2> QED
    BY <1>1, <2>1, <2>2, RunTypes
<1>2. CASE build = "wasm"
  <2>1. Fit(NewAttempt("yield", s, c, id, <<>>, None))
    BY <1>0, DerivingFits
  <2> QED
    BY <1>1, <1>2, <2>1 DEF Begin
<1>3. CASE build = "webcrypto" /\ id = NoId
  <2>1. Fit(NewAttempt("search", s, c, id, vault, None))
    BY <1>0, DerivingFits
  <2> QED
    BY <1>1, <1>3, <2>1 DEF Begin
<1>4. CASE build = "webcrypto" /\ id # NoId
  <2>1. FindUserById(vault, id) \in Blob
    BY <1>0, <1>4, FindByIdIs
  <2>2. Fit(NewAttempt("unlock", s, c, id, <<>>, FindUserById(vault, id)))
    BY <1>0, <2>1, DerivingFits
  <2> QED
    BY <1>1, <1>4, <2>2 DEF Begin
<1> QED
  BY <1>0, <1>2, <1>3, <1>4

LEMMA CredentialTypes ==
    ASSUME VaultInv, NEW t \in Tab, CredentialArrives(t)
    PROVE  VaultInv' /\ vault' = vault
<1>1. /\ UNCHANGED <<build, stored, who, open, view, target, presses>>
      /\ prefill' = [prefill EXCEPT ![t] = FALSE]
  BY DEF CredentialArrives
<1>2. prefill' \in [Tab -> BOOLEAN]
  BY <1>1 DEF VaultInv, TypeOK
<1>3. CASE UNCHANGED <<busy, run>>
  BY <1>1, <1>2, <1>3 DEF stored, VaultInv, TypeOK
<1>4. CASE \E c \in Cred : Begin(t, TRUE, c, NoId)
  <2>1. /\ run' \in [Tab -> [Slot -> Attempt \cup {Idle}]]
        /\ \A u \in Tab, j \in Slot : Fit(run'[u][j])
        /\ busy' \in [Tab -> BOOLEAN]
    BY <1>4, BeginTypes
  <2> QED
    BY <1>1, <1>2, <2>1 DEF stored, VaultInv, TypeOK
<1> QED
  BY <1>3, <1>4 DEF CredentialArrives

LEMMA SubmitTypes ==
    ASSUME VaultInv, NEW t \in Tab, NEW c \in Cred, Submit(t, c), presses' \in Nat
    PROVE  VaultInv' /\ vault' = vault
<1>1. UNCHANGED <<build, vault, used, target, prefill>>
  BY DEF Submit
<1>2. CASE Gone(t) /\ UNCHANGED <<busy, run>>
  <2>1. SignOutLocal(t) /\ ShowView(t, "main")
    BY <1>2 DEF Gone
  <2>2. view' \in [Tab -> {"main", "signin"}]
    BY <2>1, ViewTypes
  <2> QED
    BY <1>1, <1>2, <2>1, <2>2, SignOutTypes DEF VaultInv, TypeOK
<1>3. CASE /\ Begin(t, FALSE, c, target[t]) /\ UNCHANGED <<session, who, open, view>>
           /\ build = "webcrypto" /\ target[t] # NoId => target[t] \in Ids(vault)
  <2>1. target[t] \in Id \cup {NoId}
    BY DEF VaultInv, TypeOK
  <2>2. /\ run' \in [Tab -> [Slot -> Attempt \cup {Idle}]]
        /\ \A u \in Tab, j \in Slot : Fit(run'[u][j])
        /\ busy' \in [Tab -> BOOLEAN]
    BY <1>3, <2>1, BeginTypes
  <2> QED
    BY <1>1, <1>3, <2>2 DEF VaultInv, TypeOK
<1> QED
  BY <1>2, <1>3 DEF Submit

LEMMA LoadTypes ==
    ASSUME VaultInv, NEW t \in Tab, Load(t), presses' \in Nat
    PROVE  VaultInv' /\ vault' = vault
<1>1. UNCHANGED <<build, vault, used>>
  BY DEF Load
<1>2. who' \in [Tab -> Ident \cup {Nobody}] /\ session' \in Ident \cup {Nobody}
  BY DEF Load, RestoreSession, VaultInv, TypeOK
<1>3. /\ open' \in [Tab -> BOOLEAN] /\ busy' \in [Tab -> BOOLEAN]
      /\ prefill' \in [Tab -> BOOLEAN]
  BY DEF Load, VaultInv, TypeOK
<1>4. view' \in [Tab -> {"main", "signin"}] /\ target' \in [Tab -> Id \cup {NoId}]
  BY DEF Load, ShowView, VaultInv, TypeOK
<1> DEFINE none == [k \in Slot |-> Idle]
<1>5. run' = [run EXCEPT ![t] = none] /\ run \in [Tab -> [Slot -> Attempt \cup {Idle}]]
  BY DEF Load, VaultInv, TypeOK
<1>6. none \in [Slot -> Attempt \cup {Idle}] /\ \A k \in Slot : Fit(none[k])
  BY IdleFits
<1> HIDE DEF none
<1>7. /\ run' \in [Tab -> [Slot -> Attempt \cup {Idle}]]
      /\ \A u \in Tab : run'[u] = run[u] \/ run'[u] = none
  BY <1>5, <1>6
<1>8. \A u \in Tab, j \in Slot : Fit(run'[u][j])
  BY <1>6, <1>7 DEF VaultInv
<1> QED
  BY <1>1, <1>2, <1>3, <1>4, <1>7, <1>8 DEF VaultInv, TypeOK

\* What a press does to the vault.
Edited(t) ==
    \/ vault' = vault
    \/ DeleteAll(t)
    \/ DeleteUser(t)
    \/ \E incoming \in Pasted : vault' = MergeRecords(vault, incoming)

LEMMA UserTypes ==
    ASSUME VaultInv, NEW t \in Tab, User(t)
    PROVE  VaultInv' /\ Edited(t)
<1>0. presses' \in Nat
  BY DEF User, VaultInv, TypeOK
<1>1. ASSUME Cancel(t) PROVE VaultInv' /\ Edited(t)
  <2>1. target' \in [Tab -> Id \cup {NoId}] /\ view' \in [Tab -> {"main", "signin"}]
    BY <1>1 DEF Cancel, ShowView, VaultInv, TypeOK
  <2> QED
    BY <1>0, <1>1, <2>1 DEF Cancel, stored, VaultInv, TypeOK, Edited
<1>2. ASSUME Account(t) PROVE VaultInv' /\ Edited(t)
  <2>1. UNCHANGED <<build, vault, used, busy, prefill, run>>
    BY <1>2 DEF Account
  <2>2. CASE SignOutLocal(t) /\ UNCHANGED <<target, view>>
    BY <1>0, <2>1, <2>2, SignOutTypes DEF VaultInv, TypeOK, Edited
  <2>3. CASE /\ target' = [target EXCEPT ![t] = NoId] /\ ShowView(t, "signin")
             /\ UNCHANGED <<session, who, open>>
    <3>1. target' \in [Tab -> Id \cup {NoId}] /\ view' \in [Tab -> {"main", "signin"}]
      BY <2>3 DEF ShowView, VaultInv, TypeOK
    <3> QED
      BY <1>0, <2>1, <2>3, <3>1 DEF VaultInv, TypeOK, Edited
  <2> QED
    BY <1>2, <2>2, <2>3 DEF Account
<1>3. ASSUME PlainUnlock(t) PROVE VaultInv' /\ Edited(t)
  <2>1. who[t] \in Ident
    BY <1>3 DEF PlainUnlock, VaultInv, TypeOK
  <2>2. who[t].id \in Id
    BY <2>1 DEF Ident
  <2>3. target' \in [Tab -> Id \cup {NoId}] /\ view' \in [Tab -> {"main", "signin"}]
    BY <1>3, <2>2 DEF PlainUnlock, ShowView, VaultInv, TypeOK
  <2> QED
    BY <1>0, <1>3, <2>3 DEF PlainUnlock, stored, VaultInv, TypeOK, Edited
<1>4. ASSUME DeleteUser(t) PROVE VaultInv' /\ Edited(t)
  <2>1. vault \in Seq(Blob) /\ vault' = Without(vault, who[t].id)
    BY <1>4 DEF DeleteUser, VaultInv, TypeOK
  <2>2. vault' \in Seq(Blob)
    BY <2>1, WithoutIs
  <2>3. /\ UNCHANGED <<build, used, view, busy, target, prefill, run>>
        /\ SignOutLocal(t)
    BY <1>4 DEF DeleteUser
  <2> QED
    BY <1>0, <1>4, <2>2, <2>3, SignOutTypes DEF VaultInv, TypeOK, Edited
<1>5. ASSUME DeleteAll(t) PROVE VaultInv' /\ Edited(t)
  <2>1. /\ UNCHANGED <<build, used, view, busy, target, prefill, run>>
        /\ SignOutLocal(t) /\ vault' \in Seq(Blob)
    BY <1>5 DEF DeleteAll
  <2> QED
    BY <1>0, <1>5, <2>1, SignOutTypes DEF VaultInv, TypeOK, Edited
<1>6. ASSUME NEW incoming \in Pasted, PasteRecords(t, incoming) PROVE VaultInv' /\ Edited(t)
  <2>1. incoming \in Seq(Blob) /\ vault \in Seq(Blob)
    BY PastedAssumption DEF VaultInv, TypeOK
  <2>2. Ids(incoming) \subseteq Id
    BY <2>1, BlobIs DEF Ids
  <2>3. vault' \in Seq(Blob) /\ used' \subseteq Id
    BY <1>6, <2>1, <2>2, MergeRecordsIs DEF PasteRecords, VaultInv, TypeOK
  <2>4. vault' = vault \/ vault' = MergeRecords(vault, incoming)
    BY <1>6 DEF PasteRecords
  <2>5. UNCHANGED <<build, session, who, open, view, busy, target, prefill, run>>
    BY <1>6 DEF PasteRecords
  <2> QED
    BY <1>0, <2>3, <2>4, <2>5 DEF VaultInv, TypeOK, Edited
<1>7. ASSUME NEW c \in Cred, Submit(t, c) PROVE VaultInv' /\ Edited(t)
  BY <1>0, <1>7, SubmitTypes DEF Edited
<1>8. ASSUME Load(t) PROVE VaultInv' /\ Edited(t)
  BY <1>0, <1>8, LoadTypes DEF Edited
<1> QED
  BY <1>1, <1>2, <1>3, <1>4, <1>5, <1>6, <1>7, <1>8 DEF User

LEMMA VaultInvariant == Spec => []VaultInv
<1>1. Init => VaultInv
  <2> SUFFICES ASSUME Init PROVE VaultInv
    OBVIOUS
  <2>1. /\ run = [t \in Tab |-> [k \in Slot |-> Idle]]
        /\ \A t \in Tab, k \in Slot : Fit(run[t][k])
    BY IdleFits DEF Init
  <2>2. /\ build \in Build /\ vault \in Seq(Blob) /\ used \subseteq Id /\ presses \in Nat
        /\ session \in Ident \cup {Nobody} /\ who \in [Tab -> Ident \cup {Nobody}]
    BY DEF Init
  <2>3. open \in [Tab -> BOOLEAN] /\ busy \in [Tab -> BOOLEAN] /\ prefill \in [Tab -> BOOLEAN]
    BY DEF Init
  <2>4. view \in [Tab -> {"main", "signin"}] /\ target \in [Tab -> Id \cup {NoId}]
    BY DEF Init
  <2> QED
    BY <2>1, <2>2, <2>3, <2>4 DEF VaultInv, TypeOK
<1>2. VaultInv /\ [Next]_vars => VaultInv'
  <2>1. ASSUME VaultInv, UNCHANGED vars PROVE VaultInv'
    BY <2>1 DEF vars, stored, VaultInv, TypeOK
  <2> QED
    BY <2>1, UserTypes, CredentialTypes, ContinueTypes DEF Next
<1> QED
  BY <1>1, <1>2, PTL DEF Spec

\* Every variable of the accounts keeps its type, in both builds, for any tabs,
\* attempts, people and pasted records: in particular an attempt that unlocks
\* has a blob to unlock (app.js 412-472).
THEOREM VaultTypeCorrect == Spec => []TypeOK
<1>1. VaultInv => TypeOK
  BY DEF VaultInv
<1> QED
  BY <1>1, VaultInvariant, PTL

\* What a press may do to the vault is what the delete buttons and pasting may.
LEMMA EditedIs ==
    ASSUME VaultInv, NEW t \in Tab, Edited(t)
    PROVE  VaultEdit
<1>0. vault \in Seq(Blob)
  BY DEF VaultInv, TypeOK
<1>1. CASE vault' = vault
  BY <1>1 DEF VaultEdit
<1>2. CASE DeleteAll(t)
  <2>1. ToSet(vault') = {}
    BY <1>2 DEF DeleteAll, ToSet
  <2> QED
    BY <1>2, <2>1 DEF VaultEdit
<1>3. CASE DeleteUser(t)
  <2>1. ToSet(vault') = {rec \in ToSet(vault) : rec.id # who[t].id}
    BY <1>0, <1>3, WithoutIs DEF DeleteUser
  <2> QED
    BY <1>3, <2>1 DEF VaultEdit
<1>4. ASSUME NEW incoming \in Pasted, vault' = MergeRecords(vault, incoming) PROVE VaultEdit
  <2>1. incoming \in Seq(Blob)
    BY PastedAssumption
  <2>2. /\ Ids(vault) \subseteq Ids(vault')
        /\ ToSet(vault') \subseteq ToSet(vault) \cup ToSet(incoming)
    BY <1>0, <1>4, <2>1, MergeRecordsIs
  <2>3. \A rec \in ToSet(vault) : rec.id \in Ids(vault)
    BY DEF ToSet, Ids
  <2> QED
    BY <2>2, <2>3 DEF VaultEdit
<1> QED
  BY <1>1, <1>2, <1>3, <1>4 DEF Edited

\* No blob is lost or brought back behind the user's back, for any number of
\* tabs that write one vault while attempts of other tabs still derive keys: in
\* the WebCrypto build (app.js 412-472, 995-1013) always, in the WebAssembly build
\* but for an attempt that another tab overtook.
THEOREM NothingLostHolds == Spec => NothingLost
<1>1. VaultInv /\ [Next]_vars => [Overtaken \/ VaultEdit]_vars
  <2> SUFFICES ASSUME VaultInv, Next PROVE Overtaken \/ VaultEdit
    OBVIOUS
  <2>1. CASE vault' = vault
    BY <2>1 DEF VaultEdit
  <2>2. ASSUME NEW rec \in Blob, rec.id \notin used, vault' = Append(vault, rec)
        PROVE  VaultEdit
    <3>1. ToSet(vault') = ToSet(vault) \cup {rec}
      BY <2>2, AppendIs DEF VaultInv, TypeOK
    <3> QED
      BY <2>2, <3>1 DEF VaultEdit
  <2> QED
    BY <2>1, <2>2, UserTypes, CredentialTypes, ContinueTypes, EditedIs DEF Next
<1> QED
  BY <1>1, VaultInvariant, PTL DEF Spec, NothingLost

----------------------------------------------------------------------------
\* The session.

OwnerInv == DOMAIN who = Tab /\ SessionHasOwner

\* Signing out takes the session along, whoever's it is.
LEMMA SignOutOwner ==
    ASSUME OwnerInv, NEW t \in Tab, SignOutLocal(t)
    PROVE  OwnerInv'
BY DEF OwnerInv, SessionHasOwner, SignOutLocal

\* A hit makes the tab and the session the same person.
LEMMA SignedInOwner ==
    ASSUME OwnerInv, NEW t \in Tab, NEW k, NEW rec, SignedIn(t, k, rec)
    PROVE  OwnerInv'
<1>1. who' = [who EXCEPT ![t] = Identity(rec)] /\ session' = Identity(rec)
  BY DEF SignedIn
<1>2. DOMAIN who' = Tab /\ who'[t] = session'
  BY <1>1 DEF OwnerInv
<1> QED
  BY <1>2 DEF OwnerInv, SessionHasOwner

LEMMA SameOwner ==
    ASSUME OwnerInv, UNCHANGED <<who, session>>
    PROVE  OwnerInv'
BY DEF OwnerInv, SessionHasOwner

LEMMA LoadOwner ==
    ASSUME OwnerInv, NEW t \in Tab, Load(t)
    PROVE  OwnerInv'
<1>1. CASE session' = Nobody
  BY <1>1 DEF OwnerInv, SessionHasOwner, Load, RestoreSession
<1>2. CASE session' # Nobody
  <2>1. who' = [who EXCEPT ![t] = session] /\ session' = session
    BY <1>2 DEF Load, RestoreSession
  <2>2. DOMAIN who' = Tab /\ who'[t] = session'
    BY <2>1 DEF OwnerInv
  <2> QED
    BY <2>2 DEF OwnerInv, SessionHasOwner
<1> QED
  BY <1>1, <1>2

LEMMA ContinueOwner ==
    ASSUME OwnerInv, NEW t \in Tab, NEW k \in Slot, Continue(t, k)
    PROVE  OwnerInv'
<1>1. ASSUME NEW rec, Hit(t, k, rec) PROVE OwnerInv'
  BY <1>1, SignedInOwner DEF Hit
<1>2. CASE AddCreated(t, k)
  BY <1>2, SignedInOwner DEF AddCreated
<1>3. CASE Fail(t, k)
  BY <1>3, SameOwner DEF Fail, stored
<1>4. CASE SearchEnds(t, k)
  <2>1. \/ \E rec : Hit(t, k, rec)
        \/ Fail(t, k)
        \/ UNCHANGED <<who, session>>
    BY <1>4 DEF SearchEnds, stored
  <2> QED
    BY <1>1, <1>3, <2>1, SameOwner
<1>5. CASE UnlockEnds(t, k)
  BY <1>1, <1>3, <1>5 DEF UnlockEnds
<1>6. CASE CreateEnds(t, k)
  BY <1>2, <1>3, <1>6 DEF CreateEnds
<1>7. CASE StoreEnds(t, k)
  BY <1>7, SameOwner DEF StoreEnds, stored
<1>8. CASE InlineUnlock(t, k)
  <2>1. SignOutLocal(t) \/ UNCHANGED <<who, session>>
    BY <1>8 DEF InlineUnlock, Gone, stored
  <2> QED
    BY <2>1, SignOutOwner, SameOwner
<1>9. CASE InlineSignIn(t, k)
  BY <1>9, SameOwner DEF InlineSignIn, stored
<1> QED
  BY <1>4, <1>5, <1>6, <1>7, <1>8, <1>9 DEF Continue

LEMMA UserOwner ==
    ASSUME OwnerInv, NEW t \in Tab, User(t)
    PROVE  OwnerInv'
<1>1. CASE Cancel(t) \/ PlainUnlock(t)
  BY <1>1, SameOwner DEF Cancel, PlainUnlock, stored
<1>2. CASE Account(t)
  <2>1. SignOutLocal(t) \/ UNCHANGED <<who, session>>
    BY <1>2 DEF Account
  <2> QED
    BY <2>1, SignOutOwner, SameOwner
<1>3. CASE DeleteUser(t) \/ DeleteAll(t)
  BY <1>3, SignOutOwner DEF DeleteUser, DeleteAll
<1>4. ASSUME NEW c, Submit(t, c) PROVE OwnerInv'
  <2>1. SignOutLocal(t) \/ UNCHANGED <<who, session>>
    BY <1>4 DEF Submit, Gone
  <2> QED
    BY <2>1, SignOutOwner, SameOwner
<1>5. ASSUME NEW incoming, PasteRecords(t, incoming) PROVE OwnerInv'
  BY <1>5, SameOwner DEF PasteRecords
<1> QED
  BY <1>1, <1>2, <1>3, <1>4, <1>5, LoadOwner DEF User

\* The saved session is always that of a tab that is signed in: no order of
\* sign-outs, late sign-ins, deletions and reloads leaves one behind that would
\* sign somebody in at the next load (app.js 314-333, 397-403, 457-461,
\* 526-537).
THEOREM SessionHasOwnerHolds == Spec => []SessionHasOwner
<1>1. Init => OwnerInv
  BY DEF Init, OwnerInv, SessionHasOwner
<1>2. OwnerInv /\ [Next]_vars => OwnerInv'
  <2> SUFFICES ASSUME OwnerInv, [Next]_vars PROVE OwnerInv'
    OBVIOUS
  <2>1. ASSUME NEW t \in Tab, CredentialArrives(t) PROVE OwnerInv'
    BY <2>1, SameOwner DEF CredentialArrives, stored
  <2>2. CASE UNCHANGED vars
    BY <2>2, SameOwner DEF vars, stored
  <2> QED
    BY <2>1, <2>2, UserOwner, ContinueOwner DEF Next
<1>3. OwnerInv => SessionHasOwner
  BY DEF OwnerInv
<1> QED
  BY <1>1, <1>2, <1>3, PTL DEF Spec

----------------------------------------------------------------------------
\* The form.

\* Every tab has its slots, and every slot a stage.
Slots ==
    /\ DOMAIN busy = Tab /\ DOMAIN run = Tab
    /\ \A t \in Tab : DOMAIN run[t] = Slot
    /\ \A t \in Tab, k \in Slot : "stage" \in DOMAIN run[t][k]

LockInv == Slots /\ LockedMeansRunning

LEMMA SameLock ==
    ASSUME LockInv, UNCHANGED <<busy, run>>
    PROVE  LockInv'
BY DEF LockInv, Slots, LockedMeansRunning

\* One slot of a tab changes: to a stage of an attempt, or to none and the
\* form is unlocked.
LEMMA SlotChanges ==
    ASSUME LockInv, NEW t \in Tab, NEW k \in Slot, NEW a, "stage" \in DOMAIN a,
           run' = [run EXCEPT ![t][k] = a],
           \/ a.stage # "idle" /\ (busy' = busy \/ \E b : busy' = [busy EXCEPT ![t] = b])
           \/ busy' = [busy EXCEPT ![t] = FALSE]
    PROVE  LockInv'
<1>1. /\ DOMAIN run' = Tab /\ DOMAIN busy' = Tab
      /\ DOMAIN run'[t] = Slot /\ run'[t][k] = a
      /\ \A j \in Slot : j # k => run'[t][j] = run[t][j]
      /\ \A u \in Tab : u # t => run'[u] = run[u] /\ busy'[u] = busy[u]
  BY DEF LockInv, Slots
<1>2. Slots'
  BY <1>1 DEF LockInv, Slots
<1>3. ASSUME NEW u \in Tab, busy'[u] PROVE \E j \in Slot : run'[u][j] # Idle
  <2>1. CASE u # t
    BY <1>1, <1>3, <2>1 DEF LockInv, LockedMeansRunning
  <2>2. CASE u = t
    <3>1. a.stage # "idle"
      BY <1>3, <2>2 DEF LockInv, Slots
    <3>2. a # Idle
      BY <3>1 DEF Idle
    <3> QED
      BY <1>1, <2>2, <3>2
  <2> QED
    BY <2>1, <2>2
<1> QED
  BY <1>2, <1>3 DEF LockInv, LockedMeansRunning

LEMMA EndRunLock ==
    ASSUME LockInv, NEW t \in Tab, NEW k \in Slot, EndRun(t, k)
    PROVE  LockInv'
<1>1. "stage" \in DOMAIN Idle
  BY DEF Idle
<1>2. run' = [run EXCEPT ![t][k] = Idle] /\ busy' = [busy EXCEPT ![t] = FALSE]
  BY DEF EndRun
<1> QED
  BY <1>1, <1>2, SlotChanges

LEMMA SignedInLock ==
    ASSUME LockInv, NEW t \in Tab, NEW k \in Slot, NEW rec, SignedIn(t, k, rec)
    PROVE  LockInv'
<1> DEFINE a == [stage |-> "store", silent |-> run[t][k].silent]
<1>1. run' = [run EXCEPT ![t][k] = a] /\ busy' = busy
  BY DEF SignedIn
<1>2. "stage" \in DOMAIN a /\ a.stage # "idle"
  OBVIOUS
<1> HIDE DEF a
<1> QED
  BY <1>1, <1>2, SlotChanges

LEMMA StartRunLock ==
    ASSUME LockInv, NEW t \in Tab, NEW a, "stage" \in DOMAIN a, a.stage # "idle", StartRun(t, a)
    PROVE  LockInv'
<1>1. PICK k \in Slot : run' = [run EXCEPT ![t][k] = a]
  BY DEF StartRun
<1> QED
  BY <1>1, SlotChanges DEF StartRun

LEMMA BeginLock ==
    ASSUME LockInv, NEW t \in Tab, NEW silent, NEW c, NEW id, Begin(t, silent, c, id)
    PROVE  LockInv'
<1>1. ASSUME NEW stage \in {"yield", "search", "unlock"}, NEW list, NEW rec,
             StartRun(t, NewAttempt(stage, silent, c, id, list, rec))
      PROVE  LockInv'
  <2> DEFINE a == NewAttempt(stage, silent, c, id, list, rec)
  <2>1. "stage" \in DOMAIN a /\ a.stage # "idle" /\ StartRun(t, a)
    BY <1>1 DEF NewAttempt
  <2> HIDE DEF a
  <2> QED
    BY <2>1, StartRunLock
<1>2. CASE build = "wasm"
  BY <1>1, <1>2 DEF Begin
<1>3. CASE build # "wasm" /\ id = NoId
  BY <1>1, <1>3 DEF Begin
<1>4. CASE build # "wasm" /\ id # NoId
  BY <1>1, <1>4 DEF Begin
<1> QED
  BY <1>2, <1>3, <1>4

LEMMA LoadLock ==
    ASSUME LockInv, NEW t \in Tab, Load(t)
    PROVE  LockInv'
<1> DEFINE none == [k \in Slot |-> Idle]
<1>1. run' = [run EXCEPT ![t] = none] /\ busy' = [busy EXCEPT ![t] = FALSE]
  BY DEF Load
<1>2. DOMAIN none = Slot /\ \A k \in Slot : "stage" \in DOMAIN none[k]
  BY DEF Idle
<1> HIDE DEF none
<1>3. Slots'
  BY <1>1, <1>2 DEF LockInv, Slots
<1>4. \A u \in Tab : busy'[u] => u # t /\ busy[u] /\ run'[u] = run[u]
  BY <1>1 DEF LockInv, Slots
<1> QED
  BY <1>3, <1>4 DEF LockInv, LockedMeansRunning

LEMMA ContinueLock ==
    ASSUME LockInv, NEW t \in Tab, NEW k \in Slot, Continue(t, k)
    PROVE  LockInv'
<1>1. ASSUME NEW rec, Hit(t, k, rec) PROVE LockInv'
  BY <1>1, SignedInLock DEF Hit
<1>2. CASE AddCreated(t, k)
  BY <1>2, SignedInLock DEF AddCreated
<1>3. CASE EndRun(t, k)
  BY <1>3, EndRunLock
<1>4. Fail(t, k) => EndRun(t, k)
  BY DEF Fail
<1>5. CASE SearchEnds(t, k)
  <2>1. \/ \E rec : Hit(t, k, rec)
        \/ Fail(t, k)
        \/ run' = [run EXCEPT ![t][k] =
                     [run[t][k] EXCEPT !.stage = "create",
                        !.list = IF build = "wasm" THEN vault ELSE run[t][k].list]]
           /\ busy' = busy
    BY <1>5 DEF SearchEnds, stored
  <2>2. CASE run' = [run EXCEPT ![t][k] =
                       [run[t][k] EXCEPT !.stage = "create",
                          !.list = IF build = "wasm" THEN vault ELSE run[t][k].list]]
             /\ busy' = busy
    <3> DEFINE list == IF build = "wasm" THEN vault ELSE run[t][k].list
               a == [run[t][k] EXCEPT !.stage = "create", !.list = list]
    <3>1. run' = [run EXCEPT ![t][k] = a]
      BY <2>2, Zenon
    <3> HIDE DEF list
    <3>2. "stage" \in DOMAIN a /\ a.stage # "idle"
      BY DEF LockInv, Slots
    <3> HIDE DEF a
    <3> QED
      BY <2>2, <3>1, <3>2, SlotChanges
  <2> QED
    BY <1>1, <1>3, <1>4, <2>1, <2>2
<1>6. CASE UnlockEnds(t, k)
  BY <1>1, <1>3, <1>4, <1>6 DEF UnlockEnds
<1>7. CASE CreateEnds(t, k)
  BY <1>2, <1>3, <1>4, <1>7 DEF CreateEnds
<1>8. CASE StoreEnds(t, k)
  BY <1>3, <1>8 DEF StoreEnds
<1>9. CASE InlineUnlock(t, k)
  <2> DEFINE rec == FindUserById(vault, run[t][k].target)
             a == [run[t][k] EXCEPT !.stage = "unlock", !.rec = rec]
  <2>1. EndRun(t, k) \/ (run' = [run EXCEPT ![t][k] = a] /\ busy' = busy)
    BY <1>9 DEF InlineUnlock
  <2> HIDE DEF rec
  <2>2. "stage" \in DOMAIN a /\ a.stage # "idle"
    BY DEF LockInv, Slots
  <2> HIDE DEF a
  <2> QED
    BY <1>3, <2>1, <2>2, SlotChanges
<1>10. CASE InlineSignIn(t, k)
  <2> DEFINE a == [run[t][k] EXCEPT !.stage = "search", !.list = vault]
  <2>1. run' = [run EXCEPT ![t][k] = a] /\ busy' = busy
    BY <1>10 DEF InlineSignIn
  <2>2. "stage" \in DOMAIN a /\ a.stage # "idle"
    BY DEF LockInv, Slots
  <2> HIDE DEF a
  <2> QED
    BY <2>1, <2>2, SlotChanges
<1> QED
  BY <1>5, <1>6, <1>7, <1>8, <1>9, <1>10 DEF Continue

LEMMA UserLock ==
    ASSUME LockInv, NEW t \in Tab, User(t)
    PROVE  LockInv'
<1>1. ASSUME NEW c, Submit(t, c) PROVE LockInv'
  <2>1. Begin(t, FALSE, c, target[t]) \/ UNCHANGED <<busy, run>>
    BY <1>1 DEF Submit
  <2> QED
    BY <2>1, BeginLock, SameLock
<1>2. ASSUME NEW incoming, PasteRecords(t, incoming) PROVE LockInv'
  BY <1>2, SameLock DEF PasteRecords
<1>3. CASE Cancel(t) \/ Account(t) \/ PlainUnlock(t) \/ DeleteUser(t) \/ DeleteAll(t)
  BY <1>3, SameLock DEF Cancel, Account, PlainUnlock, DeleteUser, DeleteAll
<1> QED
  BY <1>1, <1>2, <1>3, LoadLock DEF User

\* A locked form is one whose attempt still runs and will unlock it, whatever
\* way the attempts take and however they overlap (app.js 386-393, 412-472).
THEOREM LockedMeansRunningHolds == Spec => []LockedMeansRunning
<1>1. Init => LockInv
  BY DEF Init, LockInv, Slots, LockedMeansRunning, Idle
<1>2. LockInv /\ [Next]_vars => LockInv'
  <2> SUFFICES ASSUME LockInv, [Next]_vars PROVE LockInv'
    OBVIOUS
  <2>1. ASSUME NEW t \in Tab, CredentialArrives(t) PROVE LockInv'
    <3>1. (\E c : Begin(t, TRUE, c, NoId)) \/ UNCHANGED <<busy, run>>
      BY <2>1 DEF CredentialArrives
    <3> QED
      BY <3>1, BeginLock, SameLock
  <2>2. CASE UNCHANGED vars
    BY <2>2, SameLock DEF vars
  <2> QED
    BY <2>1, <2>2, UserLock, ContinueLock DEF Next
<1>3. LockInv => LockedMeansRunning
  BY DEF LockInv
<1> QED
  BY <1>1, <1>2, <1>3, PTL DEF Spec

=============================================================================
