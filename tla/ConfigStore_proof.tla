-------------------------- MODULE ConfigStore_proof --------------------------
(***************************************************************************)
(* Proofs about ConfigStore: the merge of two lists of sites, the types,   *)
(* and what the lock and the revisions of one process protect.             *)
(***************************************************************************)
EXTENDS ConfigStore, WellFoundedInduction, TLAPS

-----------------------------------------------------------------------------
(* merge_sites.                                                            *)

LEMMA LeastNat ==
  ASSUME NEW S \in SUBSET Nat, S # {}
  PROVE  \E n \in S : \A m \in S : n <= m
<1>. DEFINE R == {ss \in Nat \X Nat : ss[1] < ss[2]}
<1>1. IsWellFoundedOn(R, Nat)
  BY NatLessThanWellFounded DEF OpToRel
<1>2. PICK n \in S : \A m \in S : ~ (<<m, n>> \in R)
  <2>. HIDE DEF R
  <2>. QED BY <1>1, WFMin, Zenon
<1>3. ASSUME NEW m \in S PROVE n <= m
  <2>1. n \in Nat /\ m \in Nat OBVIOUS
  <2>2. <<m, n>> \in Nat \X Nat /\ <<m, n>>[1] = m /\ <<m, n>>[2] = n BY <2>1
  <2>3. ~(m < n) BY <1>2, <2>2
  <2>. QED BY <2>1, <2>3
<1>. QED BY <1>3

\* A set of numbers that has zero, and the successor of each of its members below
\* the bound, has all numbers up to the bound.
LEMMA UpTo ==
  ASSUME NEW N \in Nat, NEW S, 0 \in S, \A n \in 0..N : n # 0 /\ n - 1 \in S => n \in S
  PROVE  0..N \subseteq S
<1>. SUFFICES ASSUME 0..N \ S # {} PROVE FALSE
  OBVIOUS
<1>1. PICK n \in 0..N \ S : \A m \in 0..N \ S : n <= m
  <2>1. 0..N \ S \in SUBSET Nat OBVIOUS
  <2>. QED BY <2>1, LeastNat
<1>2. n # 0 /\ n - 1 \in 0..N
  BY <1>1
<1>3. n - 1 \in S
  BY <1>1, <1>2
<1>. QED BY <1>1, <1>2, <1>3

LEMMA FirstsIs ==
  ASSUME NEW all \in Seq(Address)
  PROVE  Firsts(all) =
           [n \in 0..Len(all) |->
              IF n = 0 THEN <<>> ELSE WithSite(Firsts(all)[n - 1], all[n])]
<1>. DEFINE Defined(k, f) ==
       f = [n \in 0..k |-> IF n = 0 THEN <<>> ELSE WithSite(f[n - 1], all[n])]
     S == {k \in 0..Len(all) : \E f : Defined(k, f)}
<1>0. Len(all) \in Nat
  OBVIOUS
<1>1. 0 \in S
  <2>1. Defined(0, [n \in 0..0 |-> <<>>])
    OBVIOUS
  <2>. HIDE DEF Defined
  <2>. QED BY <1>0, <2>1
<1>2. ASSUME NEW k \in 0..Len(all), k # 0, k - 1 \in S PROVE k \in S
  <2>1. PICK f : Defined(k - 1, f)
    BY <1>2
  <2>. DEFINE g == [n \in 0..k |-> IF n = k THEN WithSite(f[k - 1], all[k]) ELSE f[n]]
  <2>2. ASSUME NEW n \in 0..k
        PROVE  g[n] = IF n = 0 THEN <<>> ELSE WithSite(g[n - 1], all[n])
    <3>1. CASE n = k
      <4>1. g[n] = WithSite(f[k - 1], all[k]) /\ g[n - 1] = f[k - 1]
        BY <1>2, <3>1
      <4>. QED BY <1>2, <3>1, <4>1
    <3>2. CASE n # k
      <4>1. n \in 0..(k - 1) /\ g[n] = f[n]
        BY <3>2
      <4>2. n # 0 => g[n - 1] = f[n - 1]
        BY <3>2
      <4>. QED BY <2>1, <4>1, <4>2
    <3>. QED BY <3>1, <3>2
  <2>3. Defined(k, g)
    BY <2>2
  <2>. QED BY <2>3
<1>3. Len(all) \in S
  <2>. HIDE DEF S
  <2>1. 0..Len(all) \subseteq S BY <1>0, <1>1, <1>2, UpTo
  <2>. QED BY <1>0, <2>1
<1>4. \E f : Defined(Len(all), f)
  BY <1>3
<1>. QED BY <1>4 DEF Firsts

\* No address is in a list twice.
Apart(sites) == \A i, j \in DOMAIN sites : sites[i] = sites[j] => i = j

NoTwins == "twice" \notin Disturbances /\ Apart(FirstSites)

\* The rows of the first list are rows of the second.
Leads(first, second) ==
  /\ DOMAIN first \subseteq DOMAIN second
  /\ \A i \in DOMAIN first : second[i] = first[i]

LEMMA LeadsOn ==
  ASSUME NEW a, NEW b, NEW c, Leads(a, b), Leads(b, c) PROVE Leads(a, c)
BY DEF Leads

LEMMA WithSiteIs ==
  ASSUME NEW sites \in Seq(Address), NEW s \in Address
  PROVE  /\ WithSite(sites, s) \in Seq(Address)
         /\ ToSet(WithSite(sites, s)) = ToSet(sites) \cup {s}
         /\ Apart(sites) => Apart(WithSite(sites, s))
         /\ Leads(sites, WithSite(sites, s))
<1>1. CASE s \in ToSet(sites)
  BY <1>1 DEF WithSite, Leads
<1>2. CASE s \notin ToSet(sites)
  <2>. DEFINE new == Append(sites, s)
  <2>1. /\ WithSite(sites, s) = new
        /\ new \in Seq(Address) /\ Len(sites) \in Nat /\ Len(new) = Len(sites) + 1
        /\ DOMAIN new = 1..Len(new) /\ DOMAIN sites = 1..Len(sites)
        /\ \A i \in 1..Len(sites) : new[i] = sites[i]
        /\ new[Len(new)] = s
    BY <1>2 DEF WithSite
  <2>. HIDE DEF new
  <2>2. ToSet(new) = ToSet(sites) \cup {s}
    <3>1. ASSUME NEW i \in DOMAIN new PROVE new[i] \in ToSet(sites) \cup {s}
      <4>1. i \in 1..Len(sites) \/ i = Len(new) BY <2>1
      <4>. QED BY <2>1, <4>1 DEF ToSet
    <3>2. ASSUME NEW i \in DOMAIN sites PROVE sites[i] \in ToSet(new)
      <4>1. i \in DOMAIN new /\ new[i] = sites[i] BY <2>1
      <4>. QED BY <4>1 DEF ToSet
    <3>3. s \in ToSet(new)
      <4>1. Len(new) \in DOMAIN new BY <2>1
      <4>. QED BY <2>1, <4>1 DEF ToSet
    <3>. QED BY <3>1, <3>2, <3>3 DEF ToSet
  <2>3. ASSUME Apart(sites) PROVE Apart(new)
    <3>. SUFFICES ASSUME NEW i \in DOMAIN new, NEW j \in DOMAIN new, new[i] = new[j]
                  PROVE  i = j
      BY DEF Apart
    <3>1. \A k \in 1..Len(sites) : sites[k] # s
      BY <1>2, <2>1 DEF ToSet
    <3>. QED BY <2>1, <2>3, <3>1 DEF Apart
  <2>4. Leads(sites, new)
    BY <2>1 DEF Leads
  <2>. QED BY <2>1, <2>2, <2>3, <2>4
<1>. QED BY <1>1, <1>2

\* The first n of a list, each address once and in the order of the list.
LEMMA FirstsAre ==
  ASSUME NEW all \in Seq(Address), NEW m \in 0..Len(all)
  PROVE  \A n \in m..Len(all) :
           /\ Firsts(all)[n] \in Seq(Address)
           /\ ToSet(Firsts(all)[n]) = {all[i] : i \in 1..n}
           /\ Apart(Firsts(all)[n])
           /\ Leads(Firsts(all)[m], Firsts(all)[n])
<1>. DEFINE f == Firsts(all)
     Good(n) == /\ f[n] \in Seq(Address)
                /\ ToSet(f[n]) = {all[i] : i \in 1..n}
                /\ Apart(f[n])
                /\ m <= n => Leads(f[m], f[n])
     S == {n \in 0..Len(all) : Good(n)}
<1>0. Len(all) \in Nat /\ m \in Nat
  OBVIOUS
<1>a. /\ f[0] = <<>>
      /\ \A n \in 1..Len(all) : f[n] = WithSite(f[n - 1], all[n])
  <2>1. f = [n \in 0..Len(all) |-> IF n = 0 THEN <<>> ELSE WithSite(f[n - 1], all[n])]
    BY FirstsIs
  <2>. HIDE DEF f
  <2>. QED BY <1>0, <2>1
<1>. HIDE DEF f
<1>1. 0 \in S
  <2>1. ToSet(<<>>) = {} /\ Apart(<<>>) /\ Leads(<<>>, <<>>) /\ <<>> \in Seq(Address)
    BY DEF ToSet, Apart, Leads
  <2>2. {all[i] : i \in 1..0} = {}
    OBVIOUS
  <2>3. m <= 0 => f[m] = <<>>
    BY <1>0, <1>a
  <2>4. /\ f[0] \in Seq(Address) /\ Apart(f[0])
        /\ m <= 0 => Leads(f[m], f[0])
    BY <1>a, <2>1, <2>3
  <2>5. ToSet(f[0]) = {all[i] : i \in 1..0}
    BY <1>a, <2>1, <2>2
  <2>6. 0 \in 0..Len(all)
    BY <1>0
  <2>. QED BY <2>4, <2>5, <2>6
<1>2. ASSUME NEW n \in 0..Len(all), n # 0, n - 1 \in S PROVE n \in S
  <2>1. /\ n \in 1..Len(all) /\ n - 1 \in 0..Len(all) /\ all[n] \in Address
        /\ f[n] = WithSite(f[n - 1], all[n])
    BY <1>0, <1>2, <1>a
  <2>2. Good(n - 1)
    BY <1>2
  <2>3. /\ f[n] \in Seq(Address) /\ Apart(f[n]) /\ Leads(f[n - 1], f[n])
        /\ ToSet(f[n]) = ToSet(f[n - 1]) \cup {all[n]}
    BY <2>1, <2>2, WithSiteIs
  <2>4. {all[i] : i \in 1..n} = {all[i] : i \in 1..(n - 1)} \cup {all[n]}
    <3>1. 1..n = 1..(n - 1) \cup {n} BY <2>1
    <3>. QED BY <3>1
  <2>5. m <= n => Leads(f[m], f[n])
    <3>1. CASE m <= n - 1 BY <2>2, <2>3, <3>1, LeadsOn
    <3>2. CASE m = n BY <3>2 DEF Leads
    <3>. QED BY <1>0, <2>1, <3>1, <3>2
  <2>. QED BY <2>1, <2>2, <2>3, <2>4, <2>5
<1>3. 0..Len(all) \subseteq S
  <2>. HIDE DEF S
  <2>. QED BY <1>0, <1>1, <1>2, UpTo
<1>4. \A n \in m..Len(all) : n \in 0..Len(all) /\ m <= n
  BY <1>0
<1>. QED BY <1>3, <1>4 DEF f

\* As long as no address comes twice nothing is left out.
LEMMA FirstsAll ==
  ASSUME NEW all \in Seq(Address), NEW m \in 0..Len(all),
         \A i, j \in 1..m : all[i] = all[j] => i = j
  PROVE  /\ DOMAIN Firsts(all)[m] = 1..m
         /\ \A i \in 1..m : Firsts(all)[m][i] = all[i]
<1>. DEFINE f == Firsts(all)
     Good(n) == n <= m => /\ f[n] \in Seq(Address) /\ Len(f[n]) = n
                          /\ \A i \in 1..n : f[n][i] = all[i]
     S == {n \in 0..Len(all) : Good(n)}
<1>0. Len(all) \in Nat /\ m \in Nat
  OBVIOUS
<1>a. /\ f[0] = <<>>
      /\ \A n \in 1..Len(all) : f[n] = WithSite(f[n - 1], all[n])
  <2>1. f = [n \in 0..Len(all) |-> IF n = 0 THEN <<>> ELSE WithSite(f[n - 1], all[n])]
    BY FirstsIs
  <2>. HIDE DEF f
  <2>. QED BY <1>0, <2>1
<1>. HIDE DEF f
<1>1. 0 \in S
  <2>1. <<>> \in Seq(Address) /\ Len(<<>>) = 0 /\ 1..0 = {} /\ 0 \in 0..Len(all)
    BY <1>0
  <2>2. Good(0) BY <1>a, <2>1
  <2>. QED BY <2>1, <2>2
<1>2. ASSUME NEW n \in 0..Len(all), n # 0, n - 1 \in S PROVE n \in S
  <2>. SUFFICES ASSUME n <= m
                PROVE  /\ f[n] \in Seq(Address) /\ Len(f[n]) = n
                       /\ \A i \in 1..n : f[n][i] = all[i]
    OBVIOUS
  <2>1. /\ n \in 1..Len(all) /\ n - 1 \in Nat /\ all[n] \in Address
        /\ f[n] = WithSite(f[n - 1], all[n])
    BY <1>0, <1>2, <1>a
  <2>2. /\ f[n - 1] \in Seq(Address) /\ Len(f[n - 1]) = n - 1
        /\ \A i \in 1..(n - 1) : f[n - 1][i] = all[i]
    BY <1>0, <1>2, <2>1
  <2>3. all[n] \notin ToSet(f[n - 1])
    <3>1. ASSUME NEW i \in 1..(n - 1) PROVE f[n - 1][i] # all[n]
      <4>1. i \in 1..m /\ n \in 1..m /\ i # n BY <1>0, <2>1
      <4>2. f[n - 1][i] = all[i] BY <2>2
      <4>. QED BY <4>1, <4>2
    <3>. QED BY <2>2, <3>1 DEF ToSet
  <2>4. f[n] = Append(f[n - 1], all[n])
    BY <2>1, <2>3 DEF WithSite
  <2>. QED BY <2>1, <2>2, <2>4
<1>3. m \in S
  <2>. HIDE DEF S
  <2>1. 0..Len(all) \subseteq S BY <1>0, <1>1, <1>2, UpTo
  <2>. QED BY <2>1
<1>4. f[m] \in Seq(Address) /\ Len(f[m]) = m /\ \A i \in 1..m : f[m][i] = all[i]
  BY <1>0, <1>3
<1>. QED BY <1>4 DEF f

\* merge_sites loses no site of either list, invents none, and leaves the rows of
\* the first list where they are unless an address is in it twice.
THEOREM MergeIs ==
  ASSUME NEW local \in Seq(Address), NEW remote \in Seq(Address)
  PROVE  /\ Merge(local, remote) \in Seq(Address)
         /\ ToSet(Merge(local, remote)) = ToSet(local) \cup ToSet(remote)
         /\ Apart(Merge(local, remote))
         /\ Apart(local) => Leads(local, Merge(local, remote))
<1>. DEFINE all == local \o remote
<1>1. /\ all \in Seq(Address) /\ Len(all) = Len(local) + Len(remote)
      /\ Len(local) \in Nat /\ Len(remote) \in Nat
      /\ \A i \in 1..Len(local) : all[i] = local[i]
      /\ \A i \in 1..Len(remote) : all[Len(local) + i] = remote[i]
      /\ DOMAIN local = 1..Len(local) /\ DOMAIN remote = 1..Len(remote)
  OBVIOUS
<1>2. Merge(local, remote) = Firsts(all)[Len(all)]
  BY DEF Merge
<1>. HIDE DEF all
<1>3. /\ Len(local) \in 0..Len(all) /\ Len(all) \in Len(local)..Len(all)
  BY <1>1
<1>4. /\ Firsts(all)[Len(all)] \in Seq(Address)
      /\ ToSet(Firsts(all)[Len(all)]) = {all[i] : i \in 1..Len(all)}
      /\ Apart(Firsts(all)[Len(all)])
      /\ Leads(Firsts(all)[Len(local)], Firsts(all)[Len(all)])
  BY <1>1, <1>3, FirstsAre
<1>5. {all[i] : i \in 1..Len(all)} = ToSet(local) \cup ToSet(remote)
  <2>1. ASSUME NEW i \in 1..Len(all) PROVE all[i] \in ToSet(local) \cup ToSet(remote)
    <3>1. CASE i \in 1..Len(local) BY <1>1, <3>1 DEF ToSet
    <3>2. CASE i \notin 1..Len(local)
      <4>1. i - Len(local) \in 1..Len(remote) /\ i = Len(local) + (i - Len(local))
        BY <1>1, <3>2
      <4>2. all[i] = remote[i - Len(local)]
        BY <1>1, <4>1
      <4>. QED BY <1>1, <4>1, <4>2 DEF ToSet
    <3>. QED BY <3>1, <3>2
  <2>2. ASSUME NEW i \in 1..Len(local) PROVE local[i] \in {all[j] : j \in 1..Len(all)}
    <3>1. i \in 1..Len(all) /\ all[i] = local[i] BY <1>1
    <3>. QED BY <3>1
  <2>3. ASSUME NEW i \in 1..Len(remote) PROVE remote[i] \in {all[j] : j \in 1..Len(all)}
    <3>1. Len(local) + i \in 1..Len(all) /\ all[Len(local) + i] = remote[i] BY <1>1
    <3>. QED BY <3>1
  <2>. QED BY <1>1, <2>1, <2>2, <2>3, ZenonT(60) DEF ToSet
<1>6. ASSUME Apart(local) PROVE Leads(local, Firsts(all)[Len(all)])
  <2>1. \A i, j \in 1..Len(local) : all[i] = all[j] => i = j
    BY <1>1, <1>6 DEF Apart
  <2>2. /\ DOMAIN Firsts(all)[Len(local)] = 1..Len(local)
        /\ \A i \in 1..Len(local) : Firsts(all)[Len(local)][i] = all[i]
    BY <1>1, <1>3, <2>1, FirstsAll
  <2>3. Leads(local, Firsts(all)[Len(local)])
    BY <1>1, <2>2 DEF Leads
  <2>. QED BY <1>4, <2>3, LeadsOn
<1>. QED BY <1>2, <1>4, <1>5, <1>6

-----------------------------------------------------------------------------
(* Lists with one row less, or with another address in a row.              *)

LEMMA ConcatIs ==
  ASSUME NEW a \in Seq(Address), NEW b \in Seq(Address)
  PROVE  /\ a \o b \in Seq(Address) /\ Len(a \o b) = Len(a) + Len(b)
         /\ DOMAIN (a \o b) = 1..Len(a \o b)
         /\ \A i \in 1..Len(a) : (a \o b)[i] = a[i]
         /\ \A i \in 1..Len(b) : (a \o b)[Len(a) + i] = b[i]
OBVIOUS

LEMMA RemoveAtIs ==
  ASSUME NEW sites \in Seq(Address), NEW row \in DOMAIN sites
  PROVE  /\ RemoveAt(sites, row) \in Seq(Address)
         /\ ToSet(sites) \subseteq ToSet(RemoveAt(sites, row)) \cup {sites[row]}
         /\ Apart(sites) => /\ Apart(RemoveAt(sites, row))
                            /\ sites[row] \notin ToSet(RemoveAt(sites, row))
<1>. DEFINE left == RemoveAt(sites, row)
<1>1. /\ left \in Seq(Address) /\ Len(left) = Len(sites) - 1 /\ DOMAIN left = 1..Len(left)
      /\ \A i \in 1..(row - 1) : left[i] = sites[i]
      /\ \A i \in row..Len(left) : left[i] = sites[i + 1]
      /\ Len(sites) \in Nat /\ row \in 1..Len(sites) /\ DOMAIN sites = 1..Len(sites)
  <2>. DEFINE a == SubSeq(sites, 1, row - 1)
              b == SubSeq(sites, row + 1, Len(sites))
  <2>1. Len(sites) \in Nat /\ row \in 1..Len(sites) /\ DOMAIN sites = 1..Len(sites)
    OBVIOUS
  <2>2. /\ a \in Seq(Address) /\ Len(a) = row - 1
        /\ \A i \in 1..(row - 1) : a[i] = sites[i]
    BY <2>1
  <2>3. /\ b \in Seq(Address) /\ Len(b) = Len(sites) - row
        /\ \A i \in 1..(Len(sites) - row) : b[i] = sites[row + i]
    BY <2>1
  <2>4. left = a \o b
    BY DEF RemoveAt
  <2>. HIDE DEF a, b, left
  <2>5. /\ left \in Seq(Address) /\ Len(left) = Len(a) + Len(b)
        /\ DOMAIN left = 1..Len(left)
        /\ \A i \in 1..Len(a) : left[i] = a[i]
        /\ \A i \in 1..Len(b) : left[Len(a) + i] = b[i]
    <3>1. a \in Seq(Address) /\ b \in Seq(Address) BY <2>2, <2>3
    <3>. QED BY <3>1, <2>4, ConcatIs
  <2>6. ASSUME NEW i \in row..Len(left) PROVE left[i] = sites[i + 1]
    <3>0. /\ Len(a) = row - 1 /\ Len(b) = Len(sites) - row
          /\ Len(left) = Len(sites) - 1
      <4>1. Len(a) = row - 1 /\ Len(b) = Len(sites) - row BY <2>2, <2>3
      <4>2. Len(left) = Len(a) + Len(b) BY <2>5
      <4>. QED BY <2>1, <4>1, <4>2
    <3>1. /\ i - (row - 1) \in 1..Len(b)
          /\ i = Len(a) + (i - (row - 1)) /\ i + 1 = row + (i - (row - 1))
      <4>1. i \in row..(Len(sites) - 1) BY <3>0
      <4>. QED BY <2>1, <3>0, <4>1, SMTT(30)
    <3>2. left[i] = b[i - (row - 1)]
      BY <2>5, <3>1
    <3>3. b[i - (row - 1)] = sites[i + 1]
      BY <2>3, <3>0, <3>1
    <3>. QED BY <3>2, <3>3
  <2>. QED BY <2>1, <2>2, <2>3, <2>5, <2>6
<1>. HIDE DEF left
<1>2. ToSet(sites) \subseteq ToSet(left) \cup {sites[row]}
  <2>. SUFFICES ASSUME NEW i \in 1..Len(sites), i # row PROVE sites[i] \in ToSet(left)
    BY <1>1 DEF ToSet
  <2>1. CASE i < row
    <3>1. i \in 1..(row - 1) /\ i \in DOMAIN left BY <1>1, <2>1
    <3>. QED BY <1>1, <3>1 DEF ToSet
  <2>2. CASE i > row
    <3>1. i - 1 \in row..Len(left) /\ i - 1 \in DOMAIN left /\ (i - 1) + 1 = i
      BY <1>1, <2>2
    <3>2. left[i - 1] = sites[i] BY <1>1, <3>1
    <3>. QED BY <3>1, <3>2 DEF ToSet
  <2>. QED BY <1>1, <2>1, <2>2
<1>3. ASSUME Apart(sites) PROVE Apart(left) /\ sites[row] \notin ToSet(left)
  <2>. DEFINE old(i) == IF i < row THEN i ELSE i + 1
  <2>1. \A i \in DOMAIN left : /\ old(i) \in DOMAIN sites /\ old(i) # row
                               /\ left[i] = sites[old(i)]
    BY <1>1
  <2>2. \A i, j \in DOMAIN left : old(i) = old(j) => i = j
    BY <1>1
  <2>. HIDE DEF old
  <2>. QED BY <1>1, <1>3, <2>1, <2>2 DEF Apart, ToSet
<1>. QED BY <1>1, <1>2, <1>3 DEF left

LEMMA ReplaceAtIs ==
  ASSUME NEW sites \in Seq(Address), NEW row \in DOMAIN sites, NEW u \in Address
  PROVE  /\ ReplaceAt(sites, row, u) \in Seq(Address)
         /\ ToSet(sites) \subseteq ToSet(ReplaceAt(sites, row, u)) \cup {sites[row]}
         /\ Apart(sites) /\ u \notin ToSet(sites) =>
              /\ Apart(ReplaceAt(sites, row, u))
              /\ sites[row] \notin ToSet(ReplaceAt(sites, row, u))
<1>1. /\ ReplaceAt(sites, row, u) \in Seq(Address)
      /\ DOMAIN ReplaceAt(sites, row, u) = DOMAIN sites
      /\ \A i \in DOMAIN sites :
           ReplaceAt(sites, row, u)[i] = IF i = row THEN u ELSE sites[i]
  BY DEF ReplaceAt
<1>. QED BY <1>1 DEF Apart, ToSet

LEMMA AppendIs ==
  ASSUME NEW sites \in Seq(Address), NEW u \in Address
  PROVE  /\ Append(sites, u) \in Seq(Address)
         /\ ToSet(sites) \cup {u} \subseteq ToSet(Append(sites, u))
         /\ Apart(sites) /\ u \notin ToSet(sites) => Apart(Append(sites, u))
<1>1. CASE u \notin ToSet(sites)
  BY <1>1, WithSiteIs DEF WithSite
<1>2. CASE u \in ToSet(sites)
  <2>1. /\ Append(sites, u) \in Seq(Address)
        /\ \A i \in DOMAIN sites : i \in DOMAIN Append(sites, u) /\ Append(sites, u)[i] = sites[i]
    OBVIOUS
  <2>. QED BY <1>2, <2>1 DEF ToSet
<1>. QED BY <1>1, <1>2

-----------------------------------------------------------------------------
(* Types.                                                                  *)

USE ConfigAssumption DEF files, window, thread, vars

LEMMA Whole ==
  Half \in Config /\ Default \in Config /\ Default.whole /\ Default.sites = FirstSites
BY DEF Half, Default, Config

LEMMA BumpedIs ==
  ASSUME NEW config \in Config
  PROVE  /\ Bumped(config) \in Config /\ Bumped(config).rev = config.rev + 1
         /\ Bumped(config).sites = config.sites
         /\ Bumped(config).setting = config.setting
         /\ Bumped(config).whole = config.whole
BY DEF Bumped, Config

LEMMA SettingChanged ==
  ASSUME NEW config \in Config
  PROVE  LET changed == [config EXCEPT !.setting = @ + 1] IN
         /\ changed \in Config /\ changed.setting = config.setting + 1
         /\ changed.whole = config.whole /\ changed.rev = config.rev
         /\ changed.sites = config.sites
BY SMTT(30) DEF Config

LEMMA Changed ==
  ASSUME NEW config \in Config, NEW sites \in Seq(Address)
  PROVE  /\ [config EXCEPT !.stamp = @ + 1] \in Config
         /\ [config EXCEPT !.sites = sites] \in Config
         /\ config.sites \in Seq(Address)
BY SMTT(30) DEF Config

LEMMA MergedIs ==
  ASSUME NEW disk \in Config, NEW memory \in Config
  PROVE  /\ MergeOnConflict(disk, memory) \in Config
         /\ MergeOnConflict(disk, memory).rev = disk.rev
         /\ MergeOnConflict(disk, memory).sites = Merge(disk.sites, memory.sites)
         /\ MergeOnConflict(disk, memory).setting = memory.setting
         /\ MergeOnConflict(disk, memory).whole = memory.whole
BY MergeIs DEF MergeOnConflict, Config

\* The handlers of the window that save: each brings its own configuration.
Edited(config, kind, site) ==
  /\ config \in Config /\ config.whole = Here.whole /\ config.rev = Here.rev
  /\ config.setting = Here.setting + (IF kind = "set" THEN 1 ELSE 0)
  /\ \/ /\ kind = "add" /\ site \in Address
        /\ ToSet(Here.sites) \cup {site} \subseteq ToSet(config.sites)
        /\ NoTwins /\ Apart(Here.sites) => Apart(config.sites)
     \/ /\ kind = "set" /\ site = None /\ config.sites = Here.sites
     \/ /\ kind = "delete" /\ site \in Address
        /\ ToSet(Here.sites) \subseteq ToSet(config.sites) \cup {site}
        /\ NoTwins /\ Apart(Here.sites) =>
             Apart(config.sites) /\ site \notin ToSet(config.sites)

Handler ==
  \/ SaveSettings \/ DeleteSite
  \/ \E u \in Address : AddSite(u) \/ EditSite(u)

\* What a handler that saves does.
LEMMA HandlerSaves ==
  ASSUME TypeOK, Handler
  PROVE  /\ \E config, kind, site : Edited(config, kind, site) /\ SafeSave(config, kind, site)
         /\ pc[Window] \in {"idle", "ask"}
         /\ ops' \in [Thread -> 0..MaxOps]
         /\ chosen' = chosen \/ chosen' = [row |-> 0, site |-> None]
         /\ pc[Window] = "ask" => chosen' = [row |-> 0, site |-> None]
<1>0. Here \in Config
  BY DEF TypeOK, Here
<1>1. CASE SaveSettings
  <2>1. Edited([Here EXCEPT !.setting = @ + 1], "set", None)
    BY <1>0, SMTT(30) DEF Edited, Config
  <2>. QED BY <1>1, <2>1 DEF SaveSettings, Begun, TypeOK
<1>2. CASE DeleteSite
  <2>. DEFINE site == Here.sites[chosen.row]
              config == [Here EXCEPT !.sites = RemoveAt(@, chosen.row)]
  <2>0. Here.sites \in Seq(Address) /\ chosen.row \in DOMAIN Here.sites /\ site \in Address
    BY <1>0, <1>2 DEF DeleteSite, Config
  <2>1. /\ config \in Config /\ config.sites = RemoveAt(Here.sites, chosen.row)
        /\ config.whole = Here.whole /\ config.rev = Here.rev
        /\ config.setting = Here.setting
    BY <1>0, <2>0, RemoveAtIs DEF Config
  <2>2. Edited(config, "delete", site)
    BY <1>0, <2>0, <2>1, RemoveAtIs DEF Edited, Config
  <2>. QED BY <1>2, <2>2 DEF DeleteSite, Closed, TypeOK
<1>3. ASSUME NEW u \in Address, EditSite(u)
      PROVE  /\ \E config, kind, site : Edited(config, kind, site) /\ SafeSave(config, kind, site)
             /\ pc[Window] = "ask" /\ ops' = ops /\ chosen' = [row |-> 0, site |-> None]
  <2>. DEFINE site == Here.sites[chosen.row]
              config == [Here EXCEPT !.sites = ReplaceAt(@, chosen.row, u)]
  <2>0. /\ Here.sites \in Seq(Address) /\ chosen.row \in DOMAIN Here.sites
        /\ site \in Address /\ u \notin ToSet(Here.sites)
    BY <1>0, <1>3 DEF EditSite, Config
  <2>1. /\ config \in Config /\ config.sites = ReplaceAt(Here.sites, chosen.row, u)
        /\ config.whole = Here.whole /\ config.rev = Here.rev
        /\ config.setting = Here.setting
    BY <1>0, <2>0, ReplaceAtIs DEF Config
  <2>2. Edited(config, "delete", site)
    BY <1>0, <2>0, <2>1, ReplaceAtIs, SMTT(30) DEF Edited, Config
  <2>. QED BY <1>3, <2>2 DEF EditSite, Closed
<1>4. ASSUME NEW u \in Address, AddSite(u)
      PROVE  /\ \E config, kind, site : Edited(config, kind, site) /\ SafeSave(config, kind, site)
             /\ pc[Window] = "idle" /\ ops' \in [Thread -> 0..MaxOps] /\ chosen' = chosen
  <2>. DEFINE config == [Here EXCEPT !.sites = Append(@, u)]
  <2>0. Here.sites \in Seq(Address) /\ (NoTwins => u \notin ToSet(Here.sites))
    BY <1>0, <1>4 DEF AddSite, Config, NoTwins
  <2>1. /\ config \in Config /\ config.sites = Append(Here.sites, u)
        /\ config.whole = Here.whole /\ config.rev = Here.rev
        /\ config.setting = Here.setting
    BY <1>0, <2>0, AppendIs DEF Config
  <2>2. Edited(config, "add", u)
    BY <1>0, <2>0, <2>1, AppendIs DEF Edited, Config
  <2>. QED BY <1>4, <2>2 DEF AddSite, Begun, TypeOK
<1>. QED BY <1>1, <1>2, <1>3, <1>4 DEF Handler, TypeOK

LEMMA StepTypeOK ==
  ASSUME TypeOK, [Next]_vars PROVE TypeOK'
<1>. USE DEF TypeOK, Goes, Ends
<1>0. /\ Window \in Thread /\ Home[Window] \in Process /\ 0 \in 0..MaxRetries
      /\ None \in Address \cup {None}
      /\ \A t \in Thread : Home[t] \in Process
      /\ Default \in Config /\ NoWish \in Wish
  BY Whole DEF MaxRetries, NoWish, Wish
<1>9. file.sites \in Seq(Address)
  BY DEF Config
<1>1. CASE Handler
  <2>1. PICK config, kind, site : Edited(config, kind, site) /\ SafeSave(config, kind, site)
    BY <1>1, HandlerSaves
  <2>2. config \in Config /\ [kind |-> kind, site |-> site] \in Wish
    BY <2>1 DEF Edited, Wish
  <2>3. ops' \in [Thread -> 0..MaxOps] /\ chosen' \in [row : Nat, site : Address \cup {None}]
    BY <1>1, HandlerSaves
  <2>4. UNCHANGED <<files, lock, shown>> /\ mem' \in [Process -> Config]
    BY <1>0, <2>1, <2>2 DEF SafeSave
  <2>5. /\ pc' \in [Thread -> {"idle", "ask", "compare", "open", "dump", "replace", "reload"}]
        /\ work' \in [Thread -> Config] /\ tries' \in 0..MaxRetries
        /\ own' \in BOOLEAN /\ unsaved' \in BOOLEAN /\ wish' \in Wish
    <3>1. CASE Fatal(config)
      <4>1. pc' = [pc EXCEPT ![Window] = "idle"] /\ work' = [work EXCEPT ![Window] = Default]
        BY <2>1, <3>1 DEF SafeSave
      <4>2. unsaved' = TRUE /\ UNCHANGED <<tries, own, wish>>
        BY <2>1, <3>1 DEF SafeSave
      <4>. QED BY <1>0, <4>1, <4>2
    <3>2. CASE ~Fatal(config)
      <4>1. /\ pc' = [pc EXCEPT ![Window] = "compare"]
            /\ work' = [work EXCEPT ![Window] = config]
        BY <2>1, <3>2 DEF SafeSave
      <4>2. /\ tries' = 0 /\ own' = TRUE /\ wish' = [kind |-> kind, site |-> site]
            /\ UNCHANGED unsaved
        BY <2>1, <3>2 DEF SafeSave
      <4>. QED BY <1>0, <2>2, <4>1, <4>2
    <3>. QED BY <3>1, <3>2
  <2>. QED BY <2>3, <2>4, <2>5
<1>2. ASSUME NEW row \in DOMAIN shown, Choose(row) PROVE TypeOK'
  BY <1>2 DEF Choose, Begun
<1>3. CASE Decline
  BY <1>0, <1>3 DEF Decline, Closed
<1>4. CASE DrawList
  <2>1. Here.sites \in Seq(Address) BY <1>0 DEF Here, Config
  <2>. QED BY <1>4, <2>1 DEF DrawList
<1>5. CASE Compare
  <2>1. \A p \in Process : Bumped(mem[p]) \in Config
    BY BumpedIs
  <2>2. \A t \in Thread : Bumped(work[t]) \in Config
    BY BumpedIs
  <2>. QED BY <1>0, <1>5, <2>1, <2>2 DEF Compare, TakeLock
<1>6. CASE Conflict
  <2>1. \A disk \in Config : MergeOnConflict(disk, work[Window]) \in Config
    BY <1>0, MergedIs
  <2>2. CASE tries < MaxRetries
    <3>1. work' \in [Thread -> Config]
      BY <1>0, <1>6, <2>1, <2>2 DEF Conflict
    <3>2. tries' \in 0..MaxRetries
      BY <1>6, <2>2 DEF Conflict, MaxRetries
    <3>. QED BY <1>6, <2>2, <3>1, <3>2 DEF Conflict
  <2>3. CASE ~(tries < MaxRetries)
    <3>1. /\ pc' = [pc EXCEPT ![Window] = "idle"] /\ work' = [work EXCEPT ![Window] = Default]
          /\ tries' = 0 /\ unsaved' = (unsaved \/ own) /\ wish' = NoWish
      BY <1>6, <2>3 DEF Conflict
    <3>2. UNCHANGED <<files, lock, mem, shown, chosen, own, ops>>
      BY <1>6 DEF Conflict
    <3>. QED BY <1>0, <3>1, <3>2
  <2>. QED BY <2>2, <2>3
<1>7. CASE BlindSave
  <2>1. Bumped([Here EXCEPT !.setting = @ + 1]) \in Config
    <3>0. Here \in Config BY <1>0 DEF Here
    <3>1. [Here EXCEPT !.setting = @ + 1] \in Config BY <3>0, SettingChanged
    <3>. QED BY <3>1, BumpedIs
  <2>2. [kind |-> "blind", site |-> None] \in Wish
    BY DEF Wish
  <2>. QED BY <1>0, <1>7, <2>1, <2>2 DEF BlindSave, TakeLock, Begun
<1>8. ASSUME NEW t \in Thread, NEW config \in Config, Update(t, config),
             own' \in BOOLEAN, wish' \in Wish
      PROVE  TypeOK'
  <2>1. Bumped(config) \in Config BY BumpedIs
  <2>. QED BY <1>0, <1>8, <2>1 DEF Update, TakeLock, Begun
<1>10. ASSUME NEW u \in Address, ImportSites(u) PROVE TypeOK'
  <2>1. [file EXCEPT !.sites = WithSite(@, u)] \in Config
    BY <1>9, WithSiteIs DEF Config
  <2>2. [kind |-> "import", site |-> u] \in Wish
    BY DEF Wish
  <2>. QED BY <1>0, <1>8, <1>10, <2>1, <2>2 DEF ImportSites
<1>11. ASSUME NEW t \in Thread, NEW u \in Address, PullSite(t, u) PROVE TypeOK'
  <2>1. Merge(file.sites, <<u>>) \in Seq(Address)
    <3>1. <<u>> \in Seq(Address) OBVIOUS
    <3>. QED BY <1>9, <3>1, MergeIs
  <2>2. [file EXCEPT !.sites = Merge(@, <<u>>)] \in Config
    BY <2>1, Changed
  <2>. QED BY <1>8, <1>11, <2>2 DEF PullSite
<1>12. ASSUME NEW t \in Thread, StampPush(t) PROVE TypeOK'
  <2>1. [file EXCEPT !.stamp = @ + 1] \in Config
    BY <1>9, Changed
  <2>. QED BY <1>8, <1>12, <2>1 DEF StampPush
<1>13. ASSUME NEW t \in Thread, OpenTmp(t) PROVE TypeOK'
  BY <1>13, Whole DEF OpenTmp
<1>14. ASSUME NEW t \in Thread, DumpTmp(t) PROVE TypeOK'
  BY <1>14 DEF DumpTmp
<1>15. ASSUME NEW t \in Thread, Replace(t) PROVE TypeOK'
  <2>1. file' \in Config /\ tmp' = None BY <1>15 DEF Replace
  <2>2. lock' \in [Process -> Thread \cup {None}] BY <1>15 DEF Replace, GiveLock
  <2>3. /\ pc' \in [Thread -> {"idle", "ask", "compare", "open", "dump", "replace", "reload"}]
        /\ work' \in [Thread -> Config]
    <3>1. \/ /\ pc' = [pc EXCEPT ![t] = "idle"]
             /\ work' = [work EXCEPT ![t] = Default]
          \/ /\ pc' = [pc EXCEPT ![t] = "reload"]
             /\ work' = work
      BY <1>15 DEF Replace
    <3>2. CASE work' = work
      BY <3>1, <3>2
    <3>3. CASE work' = [work EXCEPT ![t] = Default]
      BY <1>0, <3>1, <3>3
    <3>. QED BY <3>1, <3>2, <3>3
  <2>. QED BY <1>15, <2>1, <2>2, <2>3 DEF Replace
<1>16. ASSUME NEW t \in Thread, SaveFails(t) PROVE TypeOK'
  BY <1>0, <1>16 DEF SaveFails, GiveLock
<1>17. ASSUME NEW t \in Thread, Reload(t) PROVE TypeOK'
  <2>1. mem' \in [Process -> Config]
    <3>1. mem' = mem \/ mem' = [mem EXCEPT ![Home[t]] = file] BY <1>17 DEF Reload
    <3>. QED BY <3>1
  <2>2. /\ pc' \in [Thread -> {"idle", "ask", "compare", "open", "dump", "replace", "reload"}]
        /\ work' \in [Thread -> Config]
    BY <1>0, <1>17 DEF Reload
  <2>3. /\ own' \in BOOLEAN /\ unsaved' \in BOOLEAN /\ wish' \in Wish
        /\ tries' \in 0..MaxRetries /\ shown' \in Seq(Address)
    <3>1. CASE t = Window BY <1>0, <1>9, <1>17, <3>1 DEF Reload
    <3>2. CASE t # Window BY <1>17, <3>2 DEF Reload
    <3>. QED BY <3>1, <3>2
  <2>. QED BY <1>17, <2>1, <2>2, <2>3 DEF Reload
<1>18. ASSUME NEW p \in Process, Crash(p) PROVE TypeOK'
  <2>1. mem' \in [Process -> Config] BY <1>18 DEF Crash
  <2>2. mem'[p].sites \in Seq(Address) BY <2>1 DEF Config
  <2>3. /\ shown' \in Seq(Address)
        /\ chosen' \in [row : Nat, site : Address \cup {None}]
        /\ own' \in BOOLEAN /\ unsaved' \in BOOLEAN /\ wish' \in Wish
        /\ tries' \in 0..MaxRetries
    <3>1. CASE p = Home[Window]
      <4>1. /\ shown' = mem'[p].sites /\ chosen' = [row |-> 0, site |-> None]
            /\ own' = FALSE /\ unsaved' = FALSE /\ wish' = NoWish /\ tries' = 0
        BY <1>18, <3>1 DEF Crash, Closed
      <4>. QED BY <1>0, <2>2, <4>1
    <3>2. CASE p # Home[Window] BY <1>18, <3>2 DEF Crash
    <3>. QED BY <3>1, <3>2
  <2>. QED BY <1>0, <1>18, <2>1, <2>3 DEF Crash
<1>19. CASE UNCHANGED vars
  BY <1>19
<1>. QED
  BY <1>1, <1>2, <1>3, <1>4, <1>5, <1>6, <1>7, <1>10, <1>11, <1>12, <1>13, <1>14, <1>15,
     <1>16, <1>17, <1>18, <1>19
  DEF Next, WindowStep, FileStep, WorkerStep, Handler

LEMMA InitTypeOK == ASSUME Init PROVE TypeOK
<1>1. NoWish \in Wish /\ 0 \in 0..MaxRetries /\ 0 \in 0..MaxOps
  BY DEF NoWish, Wish, MaxRetries
<1>. QED BY <1>1, Whole DEF Init, TypeOK

\* Every variable keeps its type, whatever the threads of however many processes
\* do: merged, edited and imported lists are lists of addresses.
THEOREM TypeCorrect == Spec => []TypeOK
<1>1. Init => TypeOK BY InitTypeOK
<1>2. TypeOK /\ [Next]_vars => TypeOK' BY StepTypeOK
<1>. QED BY <1>1, <1>2, PTL DEF Spec

-----------------------------------------------------------------------------
(* The lock and the temporary file. A second process would share the file  *)
(* and config.json.tmp, but not the lock.                                  *)

OneProcess == \A p, q \in Process : p = q

\* The places between the taking of the lock and its return.
Saving == {"open", "dump", "replace"}

\* The lock orders all saves: the temporary file is the saver's, and nothing that
\* is not whole is ever put in the place of config.json.
Locked ==
  /\ file.whole
  /\ \A p \in Process : mem[p].whole
  /\ \A t \in Thread :
       /\ work[t].whole
       /\ pc[t] \in Saving => lock[Home[t]] = t
       /\ pc[t] = "replace" => tmp = work[t]
       /\ pc[t] \in {"ask", "compare"} => t = Window

LEMMA OneSaver ==
  ASSUME OneProcess, Locked, NEW t \in Thread, NEW u \in Thread,
         pc[t] \in Saving, lock[Home[u]] = None \/ pc[u] \in Saving
  PROVE  t = u
<1>1. Home[t] = Home[u] BY DEF OneProcess
<1>. QED BY <1>1 DEF Locked

\* What the other threads save: the file with something added.
Grown(config) ==
  /\ config \in Config /\ config.whole = file.whole /\ config.rev = file.rev
  /\ config.setting = file.setting
  /\ ToSet(file.sites) \subseteq ToSet(config.sites)
  /\ Apart(file.sites) => Apart(config.sites) /\ Leads(file.sites, config.sites)

LEMMA WorkerSaves ==
  ASSUME TypeOK, NEW t \in Thread, WorkerStep(t)
  PROVE  /\ t # Window /\ UNCHANGED <<own, wish>>
         /\ \E config : Grown(config) /\ Update(t, config)
<1>0. file \in Config /\ file.sites \in Seq(Address)
  BY DEF TypeOK, Config
<1>1. CASE StampPush(t)
  <2>. DEFINE config == [file EXCEPT !.stamp = @ + 1]
  <2>1. /\ config \in Config /\ config.sites = file.sites
        /\ config.whole = file.whole /\ config.rev = file.rev
        /\ config.setting = file.setting
    BY <1>0 DEF Config
  <2>2. Leads(file.sites, config.sites) BY <2>1 DEF Leads
  <2>. HIDE DEF config
  <2>3. Grown(config) BY <2>1, <2>2 DEF Grown
  <2>. QED BY <1>1, <2>3 DEF StampPush, config
<1>2. ASSUME NEW u \in Address, PullSite(t, u)
      PROVE  /\ t # Window /\ UNCHANGED <<own, wish>>
             /\ \E config : Grown(config) /\ Update(t, config)
  <2>. DEFINE config == [file EXCEPT !.sites = Merge(@, <<u>>)]
  <2>1. <<u>> \in Seq(Address) OBVIOUS
  <2>2. /\ config \in Config /\ config.sites = Merge(file.sites, <<u>>)
        /\ config.whole = file.whole /\ config.rev = file.rev
        /\ config.setting = file.setting
    BY <1>0, <2>1, MergeIs DEF Config
  <2>3. Grown(config)
    BY <1>0, <2>1, <2>2, MergeIs, ZenonT(60) DEF Grown
  <2>. QED BY <1>2, <2>3 DEF PullSite
<1>. QED BY <1>1, <1>2 DEF WorkerStep

LEMMA ImportSaves ==
  ASSUME TypeOK, NEW u \in Address, ImportSites(u)
  PROVE  \E config : /\ Grown(config) /\ Update(Window, config)
                     /\ u \in ToSet(config.sites)
<1>. DEFINE config == [file EXCEPT !.sites = WithSite(@, u)]
<1>0. file \in Config /\ file.sites \in Seq(Address)
  BY DEF TypeOK, Config
<1>1. /\ config \in Config /\ config.sites = WithSite(file.sites, u)
      /\ config.whole = file.whole /\ config.rev = file.rev
      /\ config.setting = file.setting
  BY <1>0, WithSiteIs DEF Config
<1>2. Grown(config) /\ u \in ToSet(config.sites)
  BY <1>0, <1>1, WithSiteIs DEF Grown
<1>. QED BY <1>2 DEF ImportSites

LEMMA StepLocked ==
  ASSUME OneProcess, TypeOK, Locked, [Next]_vars PROVE Locked'
<1>. USE DEF Locked, Saving, Goes, Ends
<1>0. /\ Window \in Thread /\ Home[Window] \in Process /\ Default.whole
      /\ \A t \in Thread : Home[t] \in Process
      /\ pc \in [Thread -> {"idle", "ask", "compare", "open", "dump", "replace", "reload"}]
      /\ work \in [Thread -> Config] /\ mem \in [Process -> Config]
      /\ lock \in [Process -> Thread \cup {None}]
  BY Whole DEF TypeOK
\* What happens outside the lock.
<1>1. ASSUME UNCHANGED <<files, lock>>, \A p \in Process : mem'[p].whole,
             \A t \in Thread : /\ work'[t].whole
                               /\ pc'[t] \in Saving \/ pc[t] \in Saving =>
                                    pc'[t] = pc[t] /\ work'[t] = work[t]
                               /\ pc'[t] \in {"ask", "compare"} => t = Window
      PROVE  Locked'
  BY <1>1
<1>2. CASE Handler
  <2>1. PICK config, kind, site : Edited(config, kind, site) /\ SafeSave(config, kind, site)
    BY <1>2, HandlerSaves
  <2>2. config.whole /\ pc[Window] \in {"idle", "ask"}
    BY <1>0, <1>2, <2>1, HandlerSaves DEF Edited, Here
  <2>3. UNCHANGED <<files, lock>> /\ \A p \in Process : mem'[p].whole
    BY <1>0, <2>1, <2>2 DEF SafeSave
  <2>4. \A t \in Thread : /\ work'[t].whole
                          /\ t # Window => pc'[t] = pc[t] /\ work'[t] = work[t]
                          /\ pc'[Window] \in {"idle", "compare"}
    <3>1. CASE Fatal(config) BY <1>0, <2>1, <2>2, <3>1 DEF SafeSave
    <3>2. CASE ~Fatal(config) BY <1>0, <2>1, <2>2, <3>2 DEF SafeSave
    <3>. QED BY <3>1, <3>2
  <2>. QED BY <1>1, <2>2, <2>3, <2>4
<1>3. CASE \/ (\E row \in DOMAIN shown : Choose(row)) \/ Decline \/ DrawList
  BY <1>0, <1>1, <1>3 DEF Choose, Decline, DrawList, Begun
<1>4. CASE Conflict
  <2>1. \A disk \in Config : MergeOnConflict(disk, work[Window]).whole
    BY <1>0, MergedIs
  <2>2. CASE tries < MaxRetries
    <3>1. work'[Window].whole /\ \A t \in Thread : t # Window => work'[t] = work[t]
      BY <1>0, <1>4, <2>1, <2>2, Whole DEF Conflict, TypeOK
    <3>. QED BY <1>1, <1>4, <2>2, <3>1 DEF Conflict
  <2>3. CASE ~(tries < MaxRetries)
    BY <1>0, <1>1, <1>4, <2>3 DEF Conflict
  <2>. QED BY <2>2, <2>3
\* What happens under the lock.
<1>5. ASSUME NEW t \in Thread, TakeLock(t), UNCHANGED files, pc' = [pc EXCEPT ![t] = "open"],
             NEW config \in Config, config.whole, work' = [work EXCEPT ![t] = config],
             \A p \in Process : mem'[p].whole
      PROVE  Locked'
  <2>1. \A u \in Thread : pc[u] \notin Saving
    BY <1>0, <1>5, OneSaver DEF TakeLock, OneProcess
  <2>. QED BY <1>0, <1>5, <2>1 DEF TakeLock
<1>6. CASE Compare
  <2>1. \A copy \in Config : Bumped(copy) \in Config /\ (Bumped(copy).whole <=> copy.whole)
    BY BumpedIs
  <2>2. \A p \in Process : mem'[p].whole
    BY <1>0, <1>6, <2>1 DEF Compare
  <2>. QED BY <1>0, <1>5, <1>6, <2>1, <2>2 DEF Compare
<1>7. CASE BlindSave
  <2>. DEFINE config == [Here EXCEPT !.setting = @ + 1]
  <2>1. config \in Config /\ config.whole
    <3>1. Here \in Config /\ Here.whole BY <1>0 DEF Here
    <3>. QED BY <3>1, SettingChanged
  <2>2. Bumped(config) \in Config /\ Bumped(config).whole
    BY <2>1, BumpedIs
  <2>. HIDE DEF config
  <2>3. \A p \in Process : mem'[p].whole
    BY <1>0, <1>7, <2>2 DEF BlindSave, config
  <2>. QED BY <1>0, <1>5, <1>7, <2>2, <2>3 DEF BlindSave, config
<1>8. ASSUME NEW t \in Thread, NEW config, Grown(config), Update(t, config) PROVE Locked'
  <2>1. Bumped(config) \in Config /\ Bumped(config).whole
    BY <1>8, BumpedIs DEF Grown
  <2>. QED BY <1>5, <1>8, <2>1 DEF Update
<1>9. ASSUME NEW u \in Address, ImportSites(u) PROVE Locked'
  BY <1>0, <1>8, <1>9, ImportSaves
<1>10. ASSUME NEW t \in Thread, WorkerStep(t) PROVE Locked'
  BY <1>8, <1>10, WorkerSaves
<1>11. ASSUME NEW t \in Thread, FileStep(t), ~Reload(t) PROVE Locked'
  <2>1. pc[t] \in Saving
    BY <1>11 DEF FileStep, OpenTmp, DumpTmp, Replace, SaveFails
  <2>2. \A u \in Thread : pc[u] \in Saving => u = t
    BY <2>1, OneSaver
  <2>3. CASE OpenTmp(t) BY <1>0, <2>2, <2>3 DEF OpenTmp
  <2>4. CASE DumpTmp(t) BY <1>0, <2>2, <2>4 DEF DumpTmp
  <2>5. CASE Replace(t)
    <3>1. file'.whole BY <2>5 DEF Replace
    <3>2. \A u \in Thread : /\ work'[u].whole
                            /\ u # t => pc'[u] = pc[u]
                            /\ pc'[t] \in {"idle", "reload"}
      BY <1>0, <2>5 DEF Replace
    <3>. QED BY <2>2, <2>5, <3>1, <3>2 DEF Replace
  <2>6. CASE SaveFails(t)
    <3>1. \A u \in Thread : /\ work'[u].whole
                            /\ u # t => pc'[u] = pc[u]
                            /\ pc'[t] = "idle"
      BY <1>0, <2>6 DEF SaveFails
    <3>. QED BY <2>2, <2>6, <3>1 DEF SaveFails
  <2>. QED BY <1>11, <2>3, <2>4, <2>5, <2>6 DEF FileStep
<1>12. ASSUME NEW t \in Thread, Reload(t) PROVE Locked'
  BY <1>0, <1>1, <1>12 DEF Reload
<1>13. ASSUME NEW p \in Process, Crash(p) PROVE Locked'
  <2>1. \A t \in Thread : pc'[t] = "idle" /\ work'[t].whole
    BY <1>0, <1>13 DEF Crash, OneProcess
  <2>. QED BY <1>0, <1>13, <2>1 DEF Crash
<1>14. CASE UNCHANGED vars
  BY <1>14
<1>. QED
  BY <1>2, <1>3, <1>4, <1>6, <1>7, <1>9, <1>10, <1>11, <1>12, <1>13, <1>14
  DEF Next, WindowStep, Handler

LEMMA InitLocked == ASSUME Init PROVE Locked
BY Whole DEF Init, Locked, Saving

\* With one process: config.json is whole in the middle of a save, after a failed
\* one and after a crash (_save_config_unlocked).
THEOREM AlwaysWhole == ASSUME OneProcess PROVE Spec => []FileWhole
<1>1. Init => TypeOK /\ Locked BY InitTypeOK, InitLocked
<1>2. TypeOK /\ Locked /\ [Next]_vars => TypeOK' /\ Locked' BY StepTypeOK, StepLocked
<1>3. Locked => FileWhole BY DEF Locked, FileWhole
<1>. QED BY <1>1, <1>2, <1>3, PTL DEF Spec

-----------------------------------------------------------------------------
(* What a step of one process does to the file, to the copy in memory and  *)
(* to the copies that are about to be saved.                               *)

OthersStay == \A t \in Thread \ {Window} : pc'[t] = pc[t] /\ work'[t] = work[t]
WindowStays == /\ pc'[Window] = pc[Window] /\ work'[Window] = work[Window]
               /\ UNCHANGED <<shown, chosen, unsaved, wish, tries>>
NobodySaves == \A t \in Thread : pc[t] \notin Saving

Edits(config, kind, site) ==
  /\ Edited(config, kind, site) /\ pc[Window] \in {"idle", "ask"}
  /\ Here' = config /\ OthersStay /\ UNCHANGED <<file, shown>>
  /\ \/ /\ pc'[Window] = "idle" /\ work'[Window] = Default
        /\ unsaved' = TRUE /\ UNCHANGED <<tries, own, wish>>
     \/ /\ pc'[Window] = "compare" /\ work'[Window] = config
        /\ tries' = 0 /\ own' = TRUE /\ wish' = [kind |-> kind, site |-> site]
        /\ UNCHANGED unsaved

Looks ==
  /\ UNCHANGED <<file, Here, work, tries, own, unsaved, wish>> /\ OthersStay
  /\ \/ /\ pc[Window] = "idle" /\ pc'[Window] = "ask" /\ UNCHANGED shown
        /\ \E row \in DOMAIN shown : chosen' = [row |-> row, site |-> shown[row]]
     \/ pc[Window] = "ask" /\ pc'[Window] = "idle" /\ UNCHANGED shown
     \/ /\ pc[Window] \in {"idle", "ask"} /\ pc'[Window] = pc[Window]
        /\ shown' = Here.sites /\ UNCHANGED chosen

Compares ==
  /\ pc[Window] = "compare" /\ pc'[Window] = "open" /\ NobodySaves
  /\ file.rev = work[Window].rev
  /\ work'[Window] = Bumped(work[Window])
  /\ Here' = IF own /\ tries = 0 THEN Bumped(Here) ELSE Here
  /\ OthersStay /\ UNCHANGED <<file, shown, chosen, own, unsaved, wish, tries>>

Merges ==
  /\ pc[Window] = "compare" /\ pc'[Window] = "compare"
  /\ tries' = tries + 1 /\ work'[Window] = MergeOnConflict(file, work[Window])
  /\ OthersStay /\ UNCHANGED <<file, Here, shown, chosen, own, unsaved, wish>>

GivesUp ==
  /\ pc[Window] = "compare" /\ pc'[Window] = "idle" /\ work'[Window] = Default
  /\ tries' = 0 /\ unsaved' = (unsaved \/ own) /\ wish' = NoWish
  /\ OthersStay /\ UNCHANGED <<file, Here, shown, chosen, own>>

SavesBlindly ==
  /\ "blind" \in Disturbances
  /\ pc[Window] = "idle" /\ pc'[Window] = "open" /\ NobodySaves
  /\ Here'.sites = Here.sites /\ Here'.setting = Here.setting + 1
  /\ work'[Window] = Here' /\ wish' = [kind |-> "blind", site |-> None] /\ own' = TRUE
  /\ OthersStay /\ UNCHANGED <<file, shown, chosen, unsaved, tries>>

Imports(config, u) ==
  /\ Grown(config) /\ u \in ToSet(config.sites)
  /\ pc[Window] = "idle" /\ pc'[Window] = "open" /\ NobodySaves
  /\ work'[Window] = Bumped(config)
  /\ wish' = [kind |-> "import", site |-> u] /\ own' = FALSE
  /\ OthersStay /\ UNCHANGED <<file, Here, shown, chosen, unsaved, tries>>

Adds(t, config) ==
  /\ t # Window /\ Grown(config)
  /\ pc' = [pc EXCEPT ![t] = "open"] /\ work' = [work EXCEPT ![t] = Bumped(config)]
  /\ NobodySaves /\ WindowStays /\ UNCHANGED <<file, Here, own>>

Writes(t, from, to) ==
  /\ {from, to} \subseteq Saving /\ pc[t] = from /\ pc' = [pc EXCEPT ![t] = to]
  /\ UNCHANGED <<file, Here, work, shown, chosen, own, unsaved, wish, tries>>

Replaces(t) ==
  /\ pc[t] = "replace" /\ (\A u \in Thread : pc[u] \in Saving => u = t)
  /\ file' = work[t]
  /\ \A u \in Thread \ {t} : pc'[u] = pc[u] /\ work'[u] = work[u]
  /\ IF t = Window /\ wish.kind = "blind"
     THEN pc'[t] = "idle" /\ work'[t] = Default
     ELSE pc'[t] = "reload" /\ work'[t] = work[t]
  /\ UNCHANGED <<Here, shown, chosen, own, unsaved, wish, tries>>

Fails(t) ==
  /\ pc[t] \in Saving /\ pc'[t] = "idle" /\ work'[t] = Default
  /\ \A u \in Thread \ {t} : pc'[u] = pc[u] /\ work'[u] = work[u]
  /\ IF t = Window
     THEN wish' = NoWish /\ tries' = 0 /\ unsaved' = (unsaved \/ own)
     ELSE UNCHANGED <<wish, tries, unsaved>>
  /\ UNCHANGED <<file, Here, shown, chosen, own>>

Reloads(t) ==
  /\ pc[t] = "reload" /\ pc'[t] = "idle" /\ work'[t] = Default /\ NobodySaves
  /\ \A u \in Thread \ {t} : pc'[u] = pc[u] /\ work'[u] = work[u]
  /\ Here' = file
  /\ IF t = Window
     THEN /\ wish' = NoWish /\ tries' = 0 /\ UNCHANGED own
          /\ IF wish.kind # "set" THEN shown' = file.sites /\ unsaved' = FALSE
             ELSE UNCHANGED <<shown, unsaved>>
     ELSE own' = FALSE /\ UNCHANGED <<shown, unsaved, wish, tries>>
  /\ UNCHANGED <<file, chosen>>

StartsAnew ==
  /\ \A t \in Thread : pc'[t] = "idle" /\ work'[t] = Default
  /\ Here' = file /\ shown' = file.sites /\ UNCHANGED file
  /\ own' = FALSE /\ unsaved' = FALSE /\ wish' = NoWish /\ tries' = 0

Effect ==
  \/ (\E config, kind, site : Edits(config, kind, site)) \/ Looks
  \/ Compares \/ Merges \/ GivesUp \/ SavesBlindly
  \/ (\E config, u : Imports(config, u))
  \/ (\E t \in Thread : \/ \E config : Adds(t, config)
                        \/ \E from, to : Writes(t, from, to)
                        \/ Replaces(t) \/ Fails(t) \/ Reloads(t))
  \/ StartsAnew
  \/ UNCHANGED <<file, Here, pc, work, shown, chosen, own, unsaved, wish, tries>>

LEMMA StepHasEffect ==
  ASSUME OneProcess, TypeOK, Locked, [Next]_vars PROVE Effect
<1>. USE DEF Goes, Ends
<1>0. /\ Window \in Thread /\ Home[Window] \in Process
      /\ \A t \in Thread : Home[t] = Home[Window]
      /\ pc \in [Thread -> {"idle", "ask", "compare", "open", "dump", "replace", "reload"}]
      /\ work \in [Thread -> Config] /\ mem \in [Process -> Config]
      /\ file.whole /\ file \in Config
  BY DEF TypeOK, OneProcess, Locked
<1>a. ASSUME lock[Home[Window]] = None PROVE NobodySaves
  BY <1>0, <1>a DEF Locked, NobodySaves
<1>1. CASE Handler
  <2>1. PICK config, kind, site : Edited(config, kind, site) /\ SafeSave(config, kind, site)
    BY <1>1, HandlerSaves
  <2>2. Here' = config /\ UNCHANGED <<file, shown>> /\ pc[Window] \in {"idle", "ask"}
    BY <1>0, <1>1, <2>1, HandlerSaves DEF SafeSave, Here
  <2>3. CASE Fatal(config)
    BY <1>0, <2>1, <2>2, <2>3 DEF SafeSave, Edits, OthersStay, Effect
  <2>4. CASE ~Fatal(config)
    BY <1>0, <2>1, <2>2, <2>4, ZenonT(60) DEF SafeSave, Edits, OthersStay, Effect
  <2>. QED BY <2>3, <2>4
<1>2. CASE (\E row \in DOMAIN shown : Choose(row)) \/ Decline \/ DrawList
  <2>1. Looks
    BY <1>0, <1>2 DEF Choose, Decline, DrawList, Begun, Looks, OthersStay, Here
  <2>. QED BY <2>1 DEF Effect
<1>3. CASE Compare
  <2>1. NobodySaves BY <1>3, <1>a DEF Compare, TakeLock
  <2>2. Compares BY <1>0, <1>3, <2>1 DEF Compare, Compares, OthersStay, Here
  <2>. QED BY <2>2 DEF Effect
<1>4. CASE Conflict
  <2>1. CASE tries < MaxRetries
    BY <1>0, <1>4, <2>1 DEF Conflict, Merges, OthersStay, Here, Effect
  <2>2. CASE ~(tries < MaxRetries)
    BY <1>0, <1>4, <2>2 DEF Conflict, GivesUp, OthersStay, Here, Effect
  <2>. QED BY <2>1, <2>2
<1>5. CASE BlindSave
  <2>1. NobodySaves BY <1>5, <1>a DEF BlindSave, TakeLock
  <2>. DEFINE edited == [Here EXCEPT !.setting = @ + 1]
              config == Bumped(edited)
  <2>2. Here \in Config BY <1>0 DEF Here
  <2>3. /\ edited \in Config /\ edited.sites = Here.sites
        /\ edited.setting = Here.setting + 1
    BY <2>2, SettingChanged
  <2>4. config.sites = Here.sites /\ config.setting = Here.setting + 1
    BY <2>3, BumpedIs
  <2>5. mem' = [mem EXCEPT ![Home[Window]] = config] /\ work' = [work EXCEPT ![Window] = config]
    BY <1>5 DEF BlindSave
  <2>. HIDE DEF config
  <2>6. Here' = config /\ work'[Window] = config /\ OthersStay
    BY <1>0, <1>5, <2>5 DEF Here, OthersStay, BlindSave
  <2>. QED BY <1>0, <1>5, <2>1, <2>4, <2>6 DEF BlindSave, Begun, SavesBlindly, Effect
<1>6. ASSUME NEW u \in Address, ImportSites(u) PROVE Effect
  <2>1. PICK config : Grown(config) /\ Update(Window, config) /\ u \in ToSet(config.sites)
    BY <1>6, ImportSaves
  <2>2. NobodySaves BY <2>1, <1>a DEF Update, TakeLock
  <2>3. Imports(config, u)
    BY <1>0, <1>6, <2>1, <2>2 DEF ImportSites, Update, Begun, Imports, OthersStay, Here
  <2>. QED BY <2>3 DEF Effect
<1>7. ASSUME NEW t \in Thread, WorkerStep(t) PROVE Effect
  <2>1. PICK config : Grown(config) /\ Update(t, config)
    BY <1>7, WorkerSaves
  <2>2. NobodySaves BY <1>0, <2>1, <1>a DEF Update, TakeLock
  <2>3. Adds(t, config)
    BY <1>0, <1>7, <2>1, <2>2, WorkerSaves DEF Update, Begun, Adds, WindowStays, Here
  <2>. QED BY <2>3 DEF Effect
<1>8. ASSUME NEW t \in Thread, OpenTmp(t) PROVE Effect
  <2>1. Writes(t, "open", "dump") BY <1>8 DEF OpenTmp, Writes, Saving, Here
  <2>. QED BY <2>1 DEF Effect
<1>9. ASSUME NEW t \in Thread, DumpTmp(t) PROVE Effect
  <2>1. Writes(t, "dump", "replace") BY <1>9 DEF DumpTmp, Writes, Saving, Here
  <2>. QED BY <2>1 DEF Effect
<1>10. ASSUME NEW t \in Thread, Replace(t) PROVE Effect
  <2>1. \A u \in Thread : pc[u] \in Saving => u = t
    BY <1>10, OneSaver DEF Replace, Saving
  <2>2. file' = work[t] BY <1>10 DEF Replace, Locked
  <2>3. Replaces(t)
    BY <1>0, <1>10, <2>1, <2>2 DEF Replace, Replaces, Here
  <2>. QED BY <2>3 DEF Effect
<1>11. ASSUME NEW t \in Thread, SaveFails(t) PROVE Effect
  <2>1. Fails(t)
    BY <1>0, <1>11 DEF SaveFails, Fails, Saving, Here
  <2>. QED BY <2>1 DEF Effect
<1>12. ASSUME NEW t \in Thread, Reload(t) PROVE Effect
  <2>1. NobodySaves BY <1>0, <1>12, <1>a DEF Reload
  <2>2. Reloads(t)
    BY <1>0, <1>12, <2>1 DEF Reload, Reloads, Here
  <2>. QED BY <2>2 DEF Effect
<1>13. ASSUME NEW p \in Process, Crash(p) PROVE Effect
  <2>1. p = Home[Window] BY <1>0 DEF OneProcess
  <2>2. mem'[p] = file BY <1>0, <1>13 DEF Crash
  <2>3. StartsAnew
    BY <1>0, <1>13, <2>1, <2>2 DEF Crash, StartsAnew, Here
  <2>. QED BY <2>3 DEF Effect
<1>14. CASE UNCHANGED vars
  BY <1>14 DEF Effect, Here
<1>. QED
  BY <1>1, <1>2, <1>3, <1>4, <1>5, <1>6, <1>7, <1>8, <1>9, <1>10, <1>11, <1>12, <1>13, <1>14
  DEF Next, WindowStep, FileStep, Handler

-----------------------------------------------------------------------------
(* The revisions: no save but a blind one loses a site of somebody else.   *)

\* What the window wants to be rid of.
Unwanted == IF wish.kind = "delete" THEN {wish.site} ELSE {}

\* A copy of the file: when it is as new as the file, it has all its sites but
\* those that were given up.
UpToDate(copy, lost) ==
  /\ copy.rev <= file.rev
  /\ copy.rev = file.rev => ToSet(file.sites) \subseteq ToSet(copy.sites) \cup lost

\* The other threads save the file they have read under the lock, and more.
WorkersCarry ==
  \A t \in Thread \ {Window} :
    pc[t] \in Saving =>
      /\ work[t].rev = file.rev + 1
      /\ work[t].setting = file.setting
      /\ ToSet(file.sites) \subseteq ToSet(work[t].sites)

\* What the window saves is service.config itself until a reload or a merge.
WishHeld ==
  /\ pc[Window] \in {"idle", "ask"} => wish.kind \in {"none", "blind"} /\ tries = 0
  /\ pc[Window] = "compare" => wish.kind # "blind"
  /\ pc[Window] \in Saving /\ wish.kind = "blind" => own /\ tries = 0
  /\ pc[Window] \in {"compare"} \cup Saving /\ own /\ tries = 0 => Here = work[Window]

SitesCarried ==
  \/ unsaved
  \/ /\ pc[Window] = "compare" => UpToDate(work[Window], Unwanted)
     /\ pc[Window] \in Saving /\ wish.kind # "blind" =>
          /\ work[Window].rev = file.rev + 1
          /\ ToSet(file.sites) \subseteq ToSet(work[Window].sites) \cup Unwanted
     /\ \/ UpToDate(Here, IF own THEN Unwanted ELSE {})
        \/ pc[Window] \in Saving /\ own /\ tries = 0

LEMMA Numbers ==
  ASSUME TypeOK
  PROVE  /\ Window \in Thread /\ tries \in Nat
         /\ file \in Config /\ file.rev \in Nat /\ file.setting \in Nat
         /\ file.sites \in Seq(Address)
         /\ Here \in Config /\ Here.rev \in Nat /\ Here.setting \in Nat
         /\ Here.sites \in Seq(Address)
         /\ \A t \in Thread : /\ work[t] \in Config
                              /\ work[t].rev \in Nat /\ work[t].setting \in Nat
                              /\ work[t].sites \in Seq(Address)
         /\ pc \in [Thread -> {"idle", "ask", "compare", "open", "dump", "replace",
                               "reload"}]
         /\ work \in [Thread -> Config]
<1>1. Here \in Config /\ Window \in Thread /\ tries \in Nat
  BY DEF TypeOK, Here, MaxRetries
<1>. QED BY <1>1 DEF TypeOK, Config

LEMMA StepWorkersCarry ==
  ASSUME TypeOK, Locked, WorkersCarry, Effect PROVE WorkersCarry'
<1>. USE DEF WorkersCarry
<1>0. /\ pc \in [Thread -> {"idle", "ask", "compare", "open", "dump", "replace", "reload"}]
      /\ work \in [Thread -> Config]
  BY Numbers
<1>1. ASSUME UNCHANGED file,
             \A t \in Thread \ {Window} :
               \/ pc'[t] = pc[t] /\ work'[t] = work[t]
               \/ pc'[t] \notin Saving
      PROVE  WorkersCarry'
  BY <1>1
<1>2. ASSUME NEW t \in Thread, NEW config, Adds(t, config) PROVE WorkersCarry'
  <2>1. /\ Bumped(config).rev = file.rev + 1 /\ Bumped(config).setting = file.setting
        /\ Bumped(config).sites = config.sites
        /\ ToSet(file.sites) \subseteq ToSet(config.sites)
    BY <1>2, BumpedIs DEF Adds, Grown
  <2>. QED BY <1>0, <1>2, <2>1 DEF Adds, NobodySaves
<1>3. ASSUME NEW t \in Thread, NEW from, NEW to, Writes(t, from, to) PROVE WorkersCarry'
  BY <1>0, <1>3 DEF Writes
<1>4. ASSUME NEW t \in Thread, Replaces(t) PROVE WorkersCarry'
  BY <1>4 DEF Replaces, Saving
<1>5. ASSUME NEW t \in Thread, Fails(t) \/ Reloads(t) PROVE WorkersCarry'
  BY <1>1, <1>5 DEF Fails, Reloads, Saving
<1>6. CASE StartsAnew
  BY <1>1, <1>6 DEF StartsAnew, Saving
<1>7. ASSUME UNCHANGED file, OthersStay \/ UNCHANGED <<pc, work>> PROVE WorkersCarry'
  BY <1>1, <1>7 DEF OthersStay
<1>. QED
  BY <1>2, <1>3, <1>4, <1>5, <1>6, <1>7
  DEF Effect, Edits, Looks, Compares, Merges, GivesUp, SavesBlindly, Imports

LEMMA StepWishHeld ==
  ASSUME TypeOK, Locked, WishHeld, Effect PROVE WishHeld'
<1>. USE DEF WishHeld, Saving
<1>0. /\ Window \in Thread /\ tries \in Nat
      /\ pc \in [Thread -> {"idle", "ask", "compare", "open", "dump", "replace", "reload"}]
  BY Numbers
<1>1. ASSUME NEW config, NEW kind, NEW site, Edits(config, kind, site) PROVE WishHeld'
  BY <1>1 DEF Edits, Edited
<1>2. CASE Looks
  BY <1>2 DEF Looks
<1>3. CASE Compares
  BY <1>3 DEF Compares
<1>4. CASE Merges
  BY <1>0, <1>4 DEF Merges
<1>5. CASE GivesUp
  BY <1>5 DEF GivesUp, NoWish
<1>6. CASE SavesBlindly
  BY <1>6 DEF SavesBlindly
<1>7. ASSUME NEW config, NEW u, Imports(config, u) PROVE WishHeld'
  BY <1>7 DEF Imports
<1>8. ASSUME NEW t \in Thread, NEW config, Adds(t, config) PROVE WishHeld'
  BY <1>8 DEF Adds, WindowStays
<1>9. ASSUME NEW t \in Thread, NEW from, NEW to, Writes(t, from, to) PROVE WishHeld'
  BY <1>0, <1>9 DEF Writes
<1>10. ASSUME NEW t \in Thread, Replaces(t) PROVE WishHeld'
  BY <1>0, <1>10 DEF Replaces
<1>11. ASSUME NEW t \in Thread, Fails(t) PROVE WishHeld'
  BY <1>0, <1>11 DEF Fails, NoWish
<1>12. ASSUME NEW t \in Thread, Reloads(t) PROVE WishHeld'
  BY <1>0, <1>12 DEF Reloads, NobodySaves, NoWish
<1>13. CASE StartsAnew
  BY <1>0, <1>13 DEF StartsAnew, NoWish
<1>14. CASE UNCHANGED <<file, Here, pc, work, shown, chosen, own, unsaved, wish, tries>>
  BY <1>14
<1>. QED
  BY <1>1, <1>2, <1>3, <1>4, <1>5, <1>6, <1>7, <1>8, <1>9, <1>10, <1>11, <1>12, <1>13,
     <1>14 DEF Effect

LEMMA StepSitesCarried ==
  ASSUME TypeOK, Locked, WorkersCarry, WishHeld, SitesCarried, Effect PROVE SitesCarried'
<1>. USE DEF SitesCarried, Unwanted, UpToDate, Saving
<1>0. /\ Window \in Thread /\ tries \in Nat
      /\ file.rev \in Nat /\ Here.rev \in Nat /\ work[Window].rev \in Nat
      /\ pc \in [Thread -> {"idle", "ask", "compare", "open", "dump", "replace", "reload"}]
  BY Numbers
<1>1. ASSUME NEW config, NEW kind, NEW site, Edits(config, kind, site) PROVE SitesCarried'
  <2>1. CASE unsaved' = TRUE BY <2>1
  <2>2. CASE ~unsaved /\ pc'[Window] = "compare"
    <3>1. UpToDate(Here, {}) BY <1>1, <2>2 DEF Edits, WishHeld
    <3>2. /\ Here' = config /\ work'[Window] = config /\ file' = file
          /\ wish' = [kind |-> kind, site |-> site] /\ own' = TRUE
      BY <1>1, <2>2 DEF Edits
    <3>3. /\ config.rev = Here.rev
          /\ ToSet(Here.sites) \subseteq
               ToSet(config.sites) \cup (IF kind = "delete" THEN {site} ELSE {})
      BY <1>1 DEF Edits, Edited
    <3>4. UpToDate(config, Unwanted)' BY <1>0, <3>1, <3>2, <3>3
    <3>. QED BY <2>2, <3>2, <3>4
  <2>. QED BY <1>1, <2>1, <2>2 DEF Edits
<1>2. CASE Looks
  BY <1>2 DEF Looks
<1>3. CASE Compares
  <2>1. work'[Window].rev = file.rev + 1 /\ work'[Window].sites = work[Window].sites
    BY <1>3, BumpedIs, Numbers DEF Compares
  <2>. QED BY <1>0, <1>3, <2>1 DEF Compares, WishHeld
<1>4. CASE Merges
  <2>1. /\ work'[Window].rev = file.rev
        /\ ToSet(file.sites) \subseteq ToSet(work'[Window].sites)
    BY <1>4, MergedIs, MergeIs, Numbers DEF Merges
  <2>. QED BY <1>0, <1>4, <2>1 DEF Merges
<1>5. CASE GivesUp
  BY <1>5 DEF GivesUp
<1>6. CASE SavesBlindly
  BY <1>6 DEF SavesBlindly, WishHeld
<1>7. ASSUME NEW config, NEW u, Imports(config, u) PROVE SitesCarried'
  <2>1. /\ work'[Window].rev = file.rev + 1
        /\ ToSet(file.sites) \subseteq ToSet(work'[Window].sites)
    BY <1>7, BumpedIs DEF Imports, Grown
  <2>. QED BY <1>7, <2>1 DEF Imports, WishHeld
<1>8. ASSUME NEW t \in Thread, NEW config, Adds(t, config) PROVE SitesCarried'
  BY <1>8 DEF Adds, WindowStays
<1>9. ASSUME NEW t \in Thread, NEW from, NEW to, Writes(t, from, to) PROVE SitesCarried'
  BY <1>0, <1>9 DEF Writes
<1>10. ASSUME NEW t \in Thread, Replaces(t) PROVE SitesCarried'
  <2>1. CASE t # Window
    <3>1. file'.rev = file.rev + 1 /\ pc[Window] \notin Saving
      BY <1>0, <1>10, <2>1 DEF Replaces, WorkersCarry
    <3>. QED BY <1>0, <1>10, <2>1, <3>1 DEF Replaces
  <2>2. CASE t = Window
    <3>1. pc'[Window] \in {"idle", "reload"} BY <1>10, <2>2 DEF Replaces
    <3>2. CASE own /\ tries = 0
      <4>1. file' = Here' BY <1>10, <2>2, <3>2 DEF Replaces, WishHeld
      <4>. QED BY <1>0, <1>10, <3>1, <4>1 DEF Replaces
    <3>3. CASE ~(own /\ tries = 0)
      BY <1>0, <1>10, <2>2, <3>1, <3>3 DEF Replaces, WishHeld
    <3>. QED BY <3>2, <3>3
  <2>. QED BY <2>1, <2>2
<1>11. ASSUME NEW t \in Thread, Fails(t) PROVE SitesCarried'
  BY <1>0, <1>11 DEF Fails
<1>12. ASSUME NEW t \in Thread, Reloads(t) PROVE SitesCarried'
  BY <1>0, <1>12 DEF Reloads, NobodySaves
<1>13. CASE StartsAnew
  BY <1>0, <1>13 DEF StartsAnew
<1>14. CASE UNCHANGED <<file, Here, pc, work, shown, chosen, own, unsaved, wish, tries>>
  BY <1>14
<1>. QED
  BY <1>1, <1>2, <1>3, <1>4, <1>5, <1>6, <1>7, <1>8, <1>9, <1>10, <1>11, <1>12, <1>13,
     <1>14 DEF Effect

\* What the window is about to save follows what is in the file, unless it is blind.
VersionHeld ==
  /\ wish.kind = "blind" => "blind" \in Disturbances
  /\ pc[Window] \in Saving /\ wish.kind # "blind" => work[Window].rev = file.rev + 1

LEMMA StepVersionHeld ==
  ASSUME TypeOK, Locked, WorkersCarry, WishHeld, VersionHeld, Effect PROVE VersionHeld'
<1>. USE DEF VersionHeld, Saving
<1>0. /\ Window \in Thread
      /\ pc \in [Thread -> {"idle", "ask", "compare", "open", "dump", "replace", "reload"}]
  BY Numbers
<1>1. ASSUME NEW config, NEW kind, NEW site, Edits(config, kind, site) PROVE VersionHeld'
  BY <1>1 DEF Edits, Edited
<1>2. CASE Looks \/ Merges \/ GivesUp \/ StartsAnew
  BY <1>0, <1>2 DEF Looks, Merges, GivesUp, StartsAnew, NoWish
<1>3. CASE Compares
  <2>1. work'[Window].rev = file.rev + 1 BY <1>3, BumpedIs, Numbers DEF Compares
  <2>. QED BY <1>3, <2>1 DEF Compares
<1>4. CASE SavesBlindly
  BY <1>4 DEF SavesBlindly
<1>5. ASSUME NEW config, NEW u, Imports(config, u) PROVE VersionHeld'
  <2>1. work'[Window].rev = file.rev + 1 BY <1>5, BumpedIs DEF Imports, Grown
  <2>. QED BY <1>5, <2>1 DEF Imports
<1>6. ASSUME NEW t \in Thread, NEW config, Adds(t, config) PROVE VersionHeld'
  BY <1>6 DEF Adds, WindowStays
<1>7. ASSUME NEW t \in Thread, NEW from, NEW to, Writes(t, from, to) PROVE VersionHeld'
  BY <1>0, <1>7 DEF Writes
<1>8. ASSUME NEW t \in Thread, Replaces(t) PROVE VersionHeld'
  BY <1>0, <1>8 DEF Replaces
<1>9. ASSUME NEW t \in Thread, Fails(t) \/ Reloads(t) PROVE VersionHeld'
  BY <1>0, <1>9 DEF Fails, Reloads, NobodySaves, NoWish
<1>10. CASE UNCHANGED <<file, Here, pc, work, shown, chosen, own, unsaved, wish, tries>>
  BY <1>10
<1>. QED
  BY <1>1, <1>2, <1>3, <1>4, <1>5, <1>6, <1>7, <1>8, <1>9, <1>10 DEF Effect

\* With one process: config.json is a VersionedFile. Everything a revision is compared
\* for rests on it: between the look at the file and its replacement no other thread
\* replaces it, and no failure, merge, reload or crash makes a save skip or repeat a
\* revision (save_config, update_config, _save_config_unlocked).
THEOREM FileIsVersioned == ASSUME OneProcess PROVE Spec => ImplementsVersionedFile
<1>. DEFINE Carried == TypeOK /\ Locked /\ WorkersCarry /\ WishHeld /\ VersionHeld
<1>1. ASSUME Init PROVE Carried /\ Versions!Init
  <2>1. WorkersCarry /\ WishHeld /\ VersionHeld
    BY <1>1 DEF Init, WorkersCarry, WishHeld, VersionHeld, Saving, NoWish
  <2>. QED BY <1>1, <2>1, InitTypeOK, InitLocked DEF Init, Versions!Init
<1>2. ASSUME Carried, [Next]_vars PROVE Carried' /\ Effect
  <2>1. Effect BY <1>2, StepHasEffect
  <2>. QED
    BY <1>2, <2>1, StepTypeOK, StepLocked, StepWorkersCarry, StepWishHeld, StepVersionHeld
<1>3. ASSUME Carried, Effect, file' # file PROVE Versions!Next
  <2>1. PICK t \in Thread : Replaces(t)
    BY <1>3 DEF Effect, Edits, Looks, Compares, Merges, GivesUp, SavesBlindly, Imports,
                Adds, Writes, Fails, Reloads, StartsAnew
  <2>2. file' = work[t] /\ pc[t] = "replace" BY <2>1 DEF Replaces
  <2>3. file'.whole BY <1>3, <2>2 DEF Locked
  <2>4. \/ file'.rev = file.rev + 1
        \/ "blind" \in Disturbances
    BY <1>3, <2>2 DEF WorkersCarry, VersionHeld, Saving
  <2>. QED BY <2>3, <2>4 DEF Versions!Next, Versions!Save, Versions!BlindSave
<1>4. Carried /\ [Next]_vars => Carried' /\ [Versions!Next]_file
  BY <1>2, <1>3
<1>. HIDE DEF Carried
<1>. QED BY <1>1, <1>4, PTL DEF Spec, ImplementsVersionedFile, Versions!Spec

\* With one process: a site leaves config.json only by a deletion of the user's,
\* by a save without a revision, or by one that goes out with what a refused save
\* has left in memory. No order of pulls, pushes, imports, conflicts, failures and
\* crashes drops one (save_config with a revision, update_config).
THEOREM SitesAreKept == ASSUME OneProcess PROVE Spec => ForeignSitesKept
<1>. DEFINE Carried == TypeOK /\ Locked /\ WorkersCarry /\ WishHeld /\ SitesCarried
<1>1. ASSUME Init PROVE Carried
  <2>1. WorkersCarry /\ WishHeld
    BY <1>1 DEF Init, WorkersCarry, WishHeld, Saving, NoWish
  <2>2. Here = file /\ file.rev \in Nat /\ pc[Window] = "idle"
    BY <1>1, InitTypeOK, Numbers DEF Init, Here
  <2>. QED BY <1>1, <2>1, <2>2, InitTypeOK, InitLocked DEF SitesCarried, UpToDate, Saving
<1>2. ASSUME Carried, [Next]_vars PROVE Carried' /\ Effect
  <2>1. Effect BY <1>2, StepHasEffect
  <2>. QED
    BY <1>2, <2>1, StepTypeOK, StepLocked, StepWorkersCarry, StepWishHeld, StepSitesCarried
<1>3. ASSUME Carried, Effect, NEW u \in ToSet(file.sites) \ ToSet(file'.sites)
      PROVE  wish = [kind |-> "delete", site |-> u] \/ wish.kind = "blind" \/ unsaved
  <2>1. PICK t \in Thread : Replaces(t)
    BY <1>3 DEF Effect, Edits, Looks, Compares, Merges, GivesUp, SavesBlindly, Imports,
                Adds, Writes, Fails, Reloads, StartsAnew
  <2>2. file' = work[t] /\ pc[t] = "replace" BY <2>1 DEF Replaces
  <2>3. t = Window BY <1>3, <2>2 DEF WorkersCarry, Saving
  <2>4. wish.kind = "blind" \/ unsaved \/ u \in Unwanted
    BY <1>3, <2>2, <2>3 DEF SitesCarried, Saving
  <2>. QED BY <1>3, <2>4 DEF Unwanted, TypeOK, Wish
<1>4. Carried /\ [Next]_vars =>
        Carried' /\ [\A u \in ToSet(file.sites) \ ToSet(file'.sites) :
                       \/ wish = [kind |-> "delete", site |-> u]
                       \/ wish.kind = "blind" \/ unsaved]_vars
  BY <1>2, <1>3
<1>. HIDE DEF Carried
<1>. QED BY <1>1, <1>4, PTL DEF Spec, ForeignSitesKept

-----------------------------------------------------------------------------
(* What the window calls a success.                                        *)

\* No list has an address twice.
ListsApart ==
  /\ Apart(file.sites) /\ Apart(Here.sites)
  /\ \A t \in Thread : Apart(work[t].sites)

\* What the user wanted is in what the window is about to save.
WishCarried ==
  /\ pc[Window] # "reload" => Here.setting >= file.setting
  /\ pc[Window] \in {"compare"} \cup Saving =>
       /\ wish.kind \in {"add", "import"} => wish.site \in ToSet(work[Window].sites)
       /\ wish.kind = "set" => work[Window].setting > file.setting
       /\ wish.kind = "delete" /\ tries = 0 => wish.site \notin ToSet(work[Window].sites)

LEMMA StepListsApart ==
  ASSUME NoTwins, TypeOK, ListsApart, Effect PROVE ListsApart'
<1>. USE DEF ListsApart
<1>0. /\ Window \in Thread /\ work \in [Thread -> Config] /\ Apart(Default.sites)
      /\ \A t \in Thread : Apart(Bumped(work[t]).sites)
      /\ Apart(Bumped(Here).sites)
  BY Numbers, BumpedIs, Whole DEF NoTwins
<1>1. ASSUME UNCHANGED file, Apart(Here'.sites),
             \A t \in Thread : work'[t] = work[t] \/ Apart(work'[t].sites)
      PROVE  ListsApart'
  BY <1>1
<1>2. ASSUME NEW config, NEW kind, NEW site, Edits(config, kind, site) PROVE ListsApart'
  <2>1. Apart(config.sites) BY <1>2 DEF Edits, Edited
  <2>. QED BY <1>0, <1>1, <1>2, <2>1 DEF Edits, OthersStay
<1>3. CASE Compares
  BY <1>0, <1>1, <1>3 DEF Compares, OthersStay
<1>4. CASE Merges
  <2>1. Apart(work'[Window].sites) BY <1>4, MergedIs, MergeIs, Numbers DEF Merges
  <2>. QED BY <1>1, <1>4, <2>1 DEF Merges, OthersStay
<1>5. CASE GivesUp
  BY <1>0, <1>1, <1>5 DEF GivesUp, OthersStay
<1>6. CASE SavesBlindly
  BY <1>1, <1>6 DEF SavesBlindly, OthersStay
<1>7. ASSUME NEW config, NEW u, Imports(config, u) PROVE ListsApart'
  <2>1. Apart(work'[Window].sites) BY <1>7, BumpedIs DEF Imports, Grown
  <2>. QED BY <1>1, <1>7, <2>1 DEF Imports, OthersStay
<1>8. ASSUME NEW t \in Thread, NEW config, Adds(t, config) PROVE ListsApart'
  <2>1. Apart(Bumped(config).sites) BY <1>8, BumpedIs DEF Adds, Grown
  <2>. QED BY <1>0, <1>1, <1>8, <2>1 DEF Adds
<1>9. ASSUME NEW t \in Thread, NEW from, NEW to, Writes(t, from, to) PROVE ListsApart'
  BY <1>1, <1>9 DEF Writes
<1>10. ASSUME NEW t \in Thread, Replaces(t) PROVE ListsApart'
  BY <1>0, <1>10 DEF Replaces
<1>11. ASSUME NEW t \in Thread, Fails(t) \/ Reloads(t) PROVE ListsApart'
  BY <1>0, <1>1, <1>11 DEF Fails, Reloads
<1>12. CASE StartsAnew
  BY <1>0, <1>1, <1>12 DEF StartsAnew
<1>13. CASE Looks \/ UNCHANGED <<file, Here, pc, work, shown, chosen, own, unsaved, wish, tries>>
  BY <1>1, <1>13 DEF Looks
<1>. QED
  BY <1>2, <1>3, <1>4, <1>5, <1>6, <1>7, <1>8, <1>9, <1>10, <1>11, <1>12, <1>13 DEF Effect

LEMMA StepWishCarried ==
  ASSUME NoTwins, TypeOK, Locked, WorkersCarry, WishHeld, ListsApart, WishCarried, Effect
  PROVE  WishCarried'
<1>. USE DEF WishCarried, Saving
<1>0. /\ Window \in Thread /\ tries \in Nat
      /\ file.setting \in Nat /\ Here.setting \in Nat /\ work[Window].setting \in Nat
      /\ pc \in [Thread -> {"idle", "ask", "compare", "open", "dump", "replace", "reload"}]
  BY Numbers
<1>1. ASSUME NEW config, NEW kind, NEW site, Edits(config, kind, site) PROVE WishCarried'
  <2>1. Here.setting >= file.setting BY <1>1 DEF Edits
  <2>2. /\ config.setting >= Here.setting
        /\ kind = "set" => config.setting > Here.setting
        /\ kind = "add" => site \in ToSet(config.sites)
        /\ kind = "delete" => site \notin ToSet(config.sites)
        /\ kind # "import"
        /\ config.setting \in Nat
    BY <1>0, <1>1 DEF Edits, Edited, ListsApart
  <2>. QED BY <1>0, <1>1, <2>1, <2>2 DEF Edits
<1>2. CASE Looks
  BY <1>2 DEF Looks
<1>3. CASE Compares
  <2>1. /\ work'[Window].sites = work[Window].sites
        /\ work'[Window].setting = work[Window].setting /\ Here'.setting = Here.setting
    BY <1>3, BumpedIs, Numbers DEF Compares
  <2>. QED BY <1>3, <2>1 DEF Compares
<1>4. CASE Merges
  <2>1. /\ work'[Window].setting = work[Window].setting
        /\ ToSet(work[Window].sites) \subseteq ToSet(work'[Window].sites)
        /\ tries' # 0
    BY <1>0, <1>4, MergedIs, MergeIs, Numbers DEF Merges
  <2>. QED BY <1>4, <2>1 DEF Merges
<1>5. CASE GivesUp
  BY <1>5 DEF GivesUp
<1>6. CASE SavesBlindly
  BY <1>0, <1>6 DEF SavesBlindly
<1>7. ASSUME NEW config, NEW u, Imports(config, u) PROVE WishCarried'
  <2>1. u \in ToSet(work'[Window].sites) BY <1>7, BumpedIs DEF Imports, Grown
  <2>. QED BY <1>7, <2>1 DEF Imports
<1>8. ASSUME NEW t \in Thread, NEW config, Adds(t, config) PROVE WishCarried'
  BY <1>8 DEF Adds, WindowStays
<1>9. ASSUME NEW t \in Thread, NEW from, NEW to, Writes(t, from, to) PROVE WishCarried'
  BY <1>0, <1>9 DEF Writes
<1>10. ASSUME NEW t \in Thread, Replaces(t) PROVE WishCarried'
  <2>1. CASE t # Window
    <3>1. file'.setting = file.setting
      BY <1>10, <2>1 DEF Replaces, WorkersCarry
    <3>. QED BY <1>10, <2>1, <3>1 DEF Replaces
  <2>2. CASE t = Window
    BY <1>0, <1>10, <2>2 DEF Replaces, WishHeld
  <2>. QED BY <2>1, <2>2
<1>11. ASSUME NEW t \in Thread, Fails(t) PROVE WishCarried'
  BY <1>0, <1>11 DEF Fails
<1>12. ASSUME NEW t \in Thread, Reloads(t) PROVE WishCarried'
  BY <1>0, <1>12 DEF Reloads, NobodySaves
<1>13. CASE StartsAnew
  BY <1>0, <1>13 DEF StartsAnew
<1>14. CASE UNCHANGED <<file, Here, pc, work, shown, chosen, own, unsaved, wish, tries>>
  BY <1>14
<1>. QED
  BY <1>1, <1>2, <1>3, <1>4, <1>5, <1>6, <1>7, <1>8, <1>9, <1>10, <1>11, <1>12, <1>13,
     <1>14 DEF Effect

\* With one process, and no address twice in a list: when the window goes on to
\* reload after a save, the file has what the user wanted, whatever was merged
\* into it on the way; only a deletion can be undone, and only by a conflict.
THEOREM SuccessIsTrue == ASSUME OneProcess, NoTwins PROVE Spec => SavedMeansStored
<1>. DEFINE Carried ==
       TypeOK /\ Locked /\ WorkersCarry /\ WishHeld /\ ListsApart /\ WishCarried
     Stored ==
       pc[Window] = "replace" /\ pc'[Window] = "reload" =>
         CASE wish.kind \in {"add", "import"} -> wish.site \in ToSet(file'.sites)
           [] wish.kind = "set"    -> file'.setting > file.setting
           [] wish.kind = "delete" -> wish.site \notin ToSet(file'.sites) \/ tries > 0
           [] OTHER -> TRUE
<1>1. ASSUME Init PROVE Carried
  <2>1. WorkersCarry /\ WishHeld
    BY <1>1 DEF Init, WorkersCarry, WishHeld, Saving, NoWish
  <2>2. Here = file /\ file.setting \in Nat /\ pc[Window] = "idle"
    BY <1>1, InitTypeOK, Numbers DEF Init, Here
  <2>3. ListsApart
    BY <1>1, <2>2, Whole DEF Init, ListsApart, NoTwins
  <2>. QED BY <1>1, <2>1, <2>2, <2>3, InitTypeOK, InitLocked DEF WishCarried, Saving
<1>2. ASSUME Carried, [Next]_vars PROVE Carried' /\ Effect
  <2>1. Effect BY <1>2, StepHasEffect
  <2>. QED
    BY <1>2, <2>1, StepTypeOK, StepLocked, StepWorkersCarry, StepWishHeld,
       StepListsApart, StepWishCarried
<1>3. ASSUME Carried, Effect, pc[Window] = "replace", pc'[Window] = "reload"
      PROVE  Stored
  <2>0. Window \in Thread /\ tries \in Nat
        /\ pc \in [Thread -> {"idle", "ask", "compare", "open", "dump", "replace", "reload"}]
    BY <1>3, Numbers
  <2>1. Replaces(Window)
    BY <1>3, <2>0 DEF Effect, Edits, Looks, Compares, Merges, GivesUp, SavesBlindly, Imports,
                Adds, Writes, Replaces, Fails, Reloads, StartsAnew, OthersStay, WindowStays,
                Saving
  <2>2. file' = work[Window] BY <2>1 DEF Replaces
  <2>3. /\ wish.kind \in {"add", "import"} => wish.site \in ToSet(file'.sites)
        /\ wish.kind = "set" => file'.setting > file.setting
        /\ wish.kind = "delete" => wish.site \notin ToSet(file'.sites) \/ tries > 0
    BY <1>3, <2>0, <2>2 DEF WishCarried, Saving
  <2>. QED BY <2>3
<1>4. Carried /\ [Next]_vars => Carried' /\ [Stored]_vars
  BY <1>2, <1>3
<1>. HIDE DEF Carried
<1>. QED BY <1>1, <1>4, PTL DEF Spec, SavedMeansStored

-----------------------------------------------------------------------------
(* The rows of the list the user looks at.                                 *)

WorkersLead ==
  \A t \in Thread \ {Window} :
    pc[t] \in Saving => Leads(file.sites, work[t].sites)

\* A copy of the file in which no row was moved.
Unedited(copy) ==
  /\ copy.rev <= file.rev
  /\ Leads(copy.sites, file.sites)
  /\ copy.rev = file.rev => Leads(file.sites, copy.sites)

\* The rows that are shown are the first rows of whatever the next reload or the
\* next answer may find, as long as no edit is left behind in memory.
RowsCarried ==
  \/ unsaved
  \/ /\ RowMeansSite
     /\ \/ pc[Window] \in {"idle", "ask"}
        \/ pc[Window] \in {"compare"} \cup Saving /\ ~own
        => Leads(shown, Here.sites) /\ Unedited(Here)
     /\ pc[Window] \in {"compare"} \cup Saving /\ wish.kind # "blind" =>
          Leads(shown, file.sites)
     /\ pc[Window] = "compare" /\ wish.kind = "set" =>
          /\ work[Window].rev <= file.rev
          /\ work[Window].rev = file.rev => Leads(file.sites, work[Window].sites)
     /\ pc[Window] \in Saving /\ wish.kind = "set" => Leads(file.sites, work[Window].sites)
     /\ pc[Window] \in Saving /\ wish.kind = "blind" => Leads(shown, Here.sites)
     /\ pc[Window] = "reload" /\ wish.kind = "set" => Leads(shown, file.sites)

LEMMA LeadsItself == ASSUME NEW a PROVE Leads(a, a)
BY DEF Leads

LEMMA StepWorkersLead ==
  ASSUME TypeOK, ListsApart, WorkersLead, Effect PROVE WorkersLead'
<1>. USE DEF WorkersLead
<1>0. /\ pc \in [Thread -> {"idle", "ask", "compare", "open", "dump", "replace", "reload"}]
      /\ work \in [Thread -> Config]
  BY Numbers
<1>1. ASSUME UNCHANGED file,
             \A t \in Thread \ {Window} :
               \/ pc'[t] = pc[t] /\ work'[t] = work[t]
               \/ pc'[t] \notin Saving
      PROVE  WorkersLead'
  BY <1>1
<1>2. ASSUME NEW t \in Thread, NEW config, Adds(t, config) PROVE WorkersLead'
  <2>1. /\ Bumped(config).sites = config.sites /\ Leads(file.sites, config.sites)
    BY <1>2, BumpedIs DEF Adds, Grown, ListsApart
  <2>. QED BY <1>0, <1>2, <2>1 DEF Adds, NobodySaves
<1>3. ASSUME NEW t \in Thread, NEW from, NEW to, Writes(t, from, to) PROVE WorkersLead'
  BY <1>0, <1>3 DEF Writes
<1>4. ASSUME NEW t \in Thread, Replaces(t) PROVE WorkersLead'
  BY <1>4 DEF Replaces, Saving
<1>5. ASSUME NEW t \in Thread, Fails(t) \/ Reloads(t) PROVE WorkersLead'
  BY <1>1, <1>5 DEF Fails, Reloads, Saving
<1>6. CASE StartsAnew
  BY <1>1, <1>6 DEF StartsAnew, Saving
<1>7. ASSUME UNCHANGED file, OthersStay \/ UNCHANGED <<pc, work>> PROVE WorkersLead'
  BY <1>1, <1>7 DEF OthersStay
<1>. QED
  BY <1>2, <1>3, <1>4, <1>5, <1>6, <1>7
  DEF Effect, Edits, Looks, Compares, Merges, GivesUp, SavesBlindly, Imports

LEMMA StepRowsCarried ==
  ASSUME TypeOK, WorkersCarry, WishHeld, ListsApart, WorkersLead, RowsCarried, Effect
  PROVE  RowsCarried'
<1>. USE DEF RowsCarried, Saving
<1>0. /\ Window \in Thread /\ tries \in Nat
      /\ file.rev \in Nat /\ Here.rev \in Nat /\ work[Window].rev \in Nat
      /\ pc \in [Thread -> {"idle", "ask", "compare", "open", "dump", "replace", "reload"}]
  BY Numbers
<1>a. \A copy : Leads(copy, copy) BY LeadsItself
<1>1. ASSUME NEW config, NEW kind, NEW site, Edits(config, kind, site) PROVE RowsCarried'
  <2>1. CASE unsaved' = TRUE BY <2>1
  <2>2. CASE ~unsaved /\ pc'[Window] = "compare"
    <3>1. /\ Leads(shown, Here.sites) /\ Leads(Here.sites, file.sites)
          /\ Here.rev <= file.rev
          /\ Here.rev = file.rev => Leads(file.sites, Here.sites)
      BY <1>1, <2>2 DEF Edits, Unedited
    <3>2. Leads(shown, file.sites) BY <3>1, LeadsOn
    <3>3. /\ work'[Window] = config /\ file' = file /\ shown' = shown
          /\ wish' = [kind |-> kind, site |-> site] /\ own' = TRUE
      BY <1>1, <2>2 DEF Edits
    <3>4. config.rev = Here.rev /\ (kind = "set" => config.sites = Here.sites)
      BY <1>1 DEF Edits, Edited
    <3>. QED BY <1>0, <2>2, <3>1, <3>2, <3>3, <3>4 DEF RowMeansSite
  <2>. QED BY <1>1, <2>1, <2>2 DEF Edits
<1>2. CASE Looks
  <2>1. CASE unsaved BY <1>2, <2>1 DEF Looks
  <2>2. CASE ~unsaved
    <3>1. /\ Leads(shown, Here.sites) /\ Unedited(Here)
          /\ pc'[Window] \in {"idle", "ask"} /\ shown' \in {shown, Here.sites}
      BY <1>2, <2>2 DEF Looks
    <3>2. Unedited(Here)' BY <1>2, <3>1 DEF Looks, Unedited
    <3>3. Leads(shown', Here'.sites) BY <1>2, <1>a, <3>1 DEF Looks
    <3>4. RowMeansSite' BY <1>2, <2>2, <3>1 DEF Looks, RowMeansSite, Leads
    <3>. QED BY <3>1, <3>2, <3>3, <3>4
  <2>. QED BY <2>1, <2>2
<1>3. CASE Compares
  <2>1. work'[Window].sites = work[Window].sites
    BY <1>3, BumpedIs, Numbers DEF Compares
  <2>. QED BY <1>0, <1>3, <2>1 DEF Compares, WishHeld, Unedited, RowMeansSite
<1>4. CASE Merges
  <2>1. work'[Window].rev = file.rev /\ Leads(file.sites, work'[Window].sites)
    BY <1>4, MergedIs, MergeIs, Numbers DEF Merges, ListsApart
  <2>. QED BY <1>0, <1>4, <2>1 DEF Merges, Unedited, RowMeansSite
<1>5. CASE GivesUp
  BY <1>5 DEF GivesUp, Unedited, RowMeansSite
<1>6. CASE SavesBlindly
  BY <1>6 DEF SavesBlindly, RowMeansSite
<1>7. ASSUME NEW config, NEW u, Imports(config, u) PROVE RowsCarried'
  BY <1>7, LeadsOn DEF Imports, Unedited, RowMeansSite
<1>8. ASSUME NEW t \in Thread, NEW config, Adds(t, config) PROVE RowsCarried'
  BY <1>8 DEF Adds, WindowStays, Unedited, RowMeansSite
<1>9. ASSUME NEW t \in Thread, NEW from, NEW to, Writes(t, from, to) PROVE RowsCarried'
  BY <1>0, <1>9 DEF Writes, Unedited, RowMeansSite
<1>10. ASSUME NEW t \in Thread, Replaces(t) PROVE RowsCarried'
  <2>0. UNCHANGED <<Here, shown, chosen, own, unsaved, wish>> BY <1>10 DEF Replaces
  <2>1. CASE t # Window
    <3>1. /\ file'.rev = file.rev + 1 /\ Leads(file.sites, file'.sites)
          /\ pc[Window] \notin Saving
      BY <1>0, <1>10, <2>1 DEF Replaces, WorkersCarry, WorkersLead
    <3>2. /\ Unedited(Here) => Unedited(Here)'
          /\ Leads(shown, file.sites) => Leads(shown, file'.sites)
      BY <1>0, <2>0, <3>1, LeadsOn DEF Unedited
    <3>3. pc'[Window] = pc[Window] /\ work'[Window] = work[Window]
      BY <1>0, <1>10, <2>1 DEF Replaces
    <3>. QED BY <1>0, <2>0, <3>1, <3>2, <3>3 DEF RowMeansSite
  <2>2. CASE t = Window /\ wish.kind = "blind"
    <3>1. file' = Here' /\ pc'[Window] = "idle"
      BY <1>10, <2>2 DEF Replaces, WishHeld
    <3>2. Unedited(Here)' BY <1>0, <1>a, <2>0, <3>1 DEF Unedited
    <3>3. unsaved \/ Leads(shown, Here.sites) BY <1>10, <2>2 DEF Replaces
    <3>. QED BY <2>0, <3>1, <3>2, <3>3 DEF RowMeansSite
  <2>3. CASE t = Window /\ wish.kind # "blind"
    <3>1. file' = work[Window] /\ pc'[Window] = "reload"
      BY <1>10, <2>3 DEF Replaces
    <3>2. unsaved \/ (wish.kind = "set" => Leads(shown, file'.sites))
      BY <1>10, <2>3, <3>1, LeadsOn DEF Replaces
    <3>. QED BY <2>0, <3>1, <3>2 DEF RowMeansSite
  <2>. QED BY <2>1, <2>2, <2>3
<1>11. ASSUME NEW t \in Thread, Fails(t) PROVE RowsCarried'
  BY <1>0, <1>11 DEF Fails, Unedited, RowMeansSite
<1>12. ASSUME NEW t \in Thread, Reloads(t) PROVE RowsCarried'
  <2>1. file' = file /\ Here' = file /\ UNCHANGED chosen BY <1>12 DEF Reloads
  <2>2. Unedited(Here)' BY <1>0, <1>a, <2>1 DEF Unedited
  <2>3. CASE t = Window
    <3>1. /\ pc'[Window] = "idle" /\ pc[Window] = "reload"
          /\ IF wish.kind # "set" THEN shown' = file.sites /\ unsaved' = FALSE
             ELSE UNCHANGED <<shown, unsaved>>
      BY <1>12, <2>3 DEF Reloads
    <3>2. unsaved' \/ Leads(shown', Here'.sites) BY <1>a, <2>1, <3>1
    <3>. QED BY <2>2, <3>1, <3>2 DEF RowMeansSite
  <2>4. CASE t # Window
    <3>1. /\ pc'[Window] = pc[Window] /\ work'[Window] = work[Window] /\ own' = FALSE
          /\ UNCHANGED <<shown, unsaved, wish>> /\ pc[Window] \notin Saving
      BY <1>0, <1>12, <2>4 DEF Reloads, NobodySaves
    <3>2. unsaved \/ (pc[Window] \in {"idle", "ask", "compare"} => Leads(shown, file.sites))
      BY <3>1, LeadsOn DEF Unedited, WishHeld
    <3>3. unsaved \/ RowMeansSite'
      BY <2>1, <3>1 DEF RowMeansSite, Unedited, Leads
    <3>. QED BY <1>0, <2>1, <2>2, <3>1, <3>2, <3>3
  <2>. QED BY <2>3, <2>4
<1>13. CASE StartsAnew
  BY <1>0, <1>a, <1>13 DEF StartsAnew, Unedited, RowMeansSite
<1>14. CASE UNCHANGED <<file, Here, pc, work, shown, chosen, own, unsaved, wish, tries>>
  BY <1>14 DEF Unedited, RowMeansSite
<1>. QED
  BY <1>1, <1>2, <1>3, <1>4, <1>5, <1>6, <1>7, <1>8, <1>9, <1>10, <1>11, <1>12, <1>13,
     <1>14 DEF Effect

\* With one process, and no address twice in a list: the row of an open question
\* stands for the site it was asked about, however often the other threads pull,
\* merge and reload, until a save of the window's is refused or fails.
THEOREM QuestionsKeepTheirRow ==
  ASSUME OneProcess, NoTwins PROVE Spec => []ChosenIsMeant
<1>. DEFINE Carried ==
       /\ TypeOK /\ Locked /\ WorkersCarry /\ WishHeld /\ ListsApart
       /\ WorkersLead /\ RowsCarried
<1>1. ASSUME Init PROVE Carried
  <2>1. WorkersCarry /\ WishHeld /\ WorkersLead
    BY <1>1 DEF Init, WorkersCarry, WishHeld, WorkersLead, Saving, NoWish
  <2>2. /\ Here = file /\ file.rev \in Nat /\ pc[Window] = "idle"
        /\ shown = FirstSites /\ file.sites = FirstSites
    BY <1>1, InitTypeOK, Numbers, Whole DEF Init, Here
  <2>3. ListsApart
    BY <1>1, <2>2, Whole DEF Init, ListsApart, NoTwins
  <2>4. RowsCarried
    BY <2>2, LeadsItself DEF RowsCarried, RowMeansSite, Unedited, Saving
  <2>. QED BY <1>1, <2>1, <2>3, <2>4, InitTypeOK, InitLocked
<1>2. ASSUME Carried, [Next]_vars PROVE Carried'
  <2>1. Effect BY <1>2, StepHasEffect
  <2>. QED
    BY <1>2, <2>1, StepTypeOK, StepLocked, StepWorkersCarry, StepWishHeld,
       StepListsApart, StepWorkersLead, StepRowsCarried
<1>3. Carried => ChosenIsMeant
  BY DEF RowsCarried, ChosenIsMeant
<1>. HIDE DEF Carried
<1>. QED BY <1>1, <1>2, <1>3, PTL DEF Spec
=============================================================================
