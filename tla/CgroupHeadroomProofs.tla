------------------------ MODULE CgroupHeadroomProofs ------------------------
(***************************************************************************)
(* Proofs about CgroupHeadroom, for any groups, placements, limits and     *)
(* bound on usage.  The choice of hierarchy and levels is one step, whose  *)
(* correctness is arithmetic of prefixes; the readings are spread over     *)
(* time, and what relates them to the groups is that each was true at the  *)
(* instant it was made.                                                    *)
(***************************************************************************)
EXTENDS CgroupHeadroom, WellFoundedInduction, TLAPS

-----------------------------------------------------------------------------
(* Numbers.                                                                *)

\* A non-empty set of numbers has a least one.
LEMMA LeastMember ==
  ASSUME NEW S \in SUBSET Nat, S # {}
  PROVE  Min(S) \in S /\ \A y \in S : Min(S) =< y
<1> DEFINE Less == OpToRel(<, Nat)
<1>1. IsWellFoundedOn(Less, Nat)  BY NatLessThanWellFounded, Zenon
<1>2. \A x, y \in Nat : <<y, x>> \notin Less => x =< y  BY DEF OpToRel
<1> HIDE DEF Less
<1>3. PICK x \in S : \A y \in S : <<y, x>> \notin Less  BY <1>1, WFMin
<1>4. \A y \in S : x =< y  BY <1>2, <1>3
<1> QED BY <1>4 DEF Min

\* The extremes of two numbers.
LEMMA Extremes ==
  ASSUME NEW a \in Nat, NEW b \in Nat
  PROVE  /\ Min({a, b}) \in Nat /\ Min({a, b}) =< a /\ Min({a, b}) =< b
         /\ Max({a, b}) \in Nat /\ a =< Max({a, b}) /\ b =< Max({a, b})
<1>1. Min({a, b}) \in {a, b} /\ \A y \in {a, b} : Min({a, b}) =< y  BY LeastMember
<1>2. \E x \in {a, b} : \A y \in {a, b} : x >= y
  <2>1. CASE a >= b  BY <2>1
  <2>2. CASE b >= a  BY <2>2
  <2> QED BY <2>1, <2>2
<1>3. Max({a, b}) \in {a, b} /\ \A y \in {a, b} : Max({a, b}) >= y
  BY <1>2 DEF Max
<1> QED BY <1>1, <1>3

-----------------------------------------------------------------------------
(* Paths.                                                                  *)

\* A prefix, name by name.
LEMMA PrefixByName ==
  ASSUME NEW S, NEW r \in Seq(S), NEW g \in Seq(S)
  PROVE  IsPrefix(r, g) <=> Len(r) =< Len(g) /\ \A i \in 1 .. Len(r) : r[i] = g[i]
<1>1. CASE Len(r) =< Len(g)
  <2>1. /\ SubSeq(r, 1, Len(r)) = [i \in 1 .. Len(r) |-> r[i]]
        /\ SubSeq(g, 1, Len(r)) = [i \in 1 .. Len(r) |-> g[i]]
    BY <1>1
  <2> QED BY <1>1, <2>1 DEF IsPrefix
<1>2. CASE ~(Len(r) =< Len(g))  BY <1>2 DEF IsPrefix
<1> QED BY <1>1, <1>2

\* What is left of a path below a prefix.
LEMMA TailFacts ==
  ASSUME NEW S, NEW r \in Seq(S), NEW g \in Seq(S), Len(r) =< Len(g)
  PROVE  LET t == SubSeq(g, Len(r) + 1, Len(g)) IN
         /\ t \in Seq(S) /\ Len(t) = Len(g) - Len(r)
         /\ \A i \in 1 .. Len(t) : t[i] = g[Len(r) + i]
OBVIOUS

\* The first n names of a path.
LEMMA HeadFacts ==
  ASSUME NEW S, NEW g \in Seq(S), NEW n \in 0 .. Len(g)
  PROVE  /\ SubSeq(g, 1, n) \in Seq(S) /\ Len(SubSeq(g, 1, n)) = n
         /\ \A i \in 1 .. n : SubSeq(g, 1, n)[i] = g[i]
OBVIOUS

\* Two paths joined.
LEMMA JoinFacts ==
  ASSUME NEW S, NEW r \in Seq(S), NEW p \in Seq(S)
  PROVE  /\ r \o p \in Seq(S) /\ Len(r \o p) = Len(r) + Len(p)
         /\ \A i \in 1 .. Len(r) : (r \o p)[i] = r[i]
         /\ \A i \in 1 .. Len(p) : (r \o p)[Len(r) + i] = p[i]
OBVIOUS

\* Paths with the same names are the same.
LEMMA SamePath ==
  ASSUME NEW S, NEW p \in Seq(S), NEW q \in Seq(S), Len(p) = Len(q),
         \A i \in 1 .. Len(p) : p[i] = q[i]
  PROVE  p = q
OBVIOUS

\* A path with ".." in front is not resolved.
LEMMA OutsideIsUnresolvable ==
  ASSUME NEW S, NEW g \in Seq(S)
  PROVE  ~Resolvable(<<"..">> \o g)
<1>1. 1 \in DOMAIN (<<"..">> \o g) /\ (<<"..">> \o g)[1] = ".."
  OBVIOUS
<1> QED BY <1>1 DEF Resolvable, Range

\* What the assumptions say of the placement at hand.
LEMMA HostTypes ==
  ASSUME host \in Hosts
  PROVE  /\ host.attached \in Version /\ Home \in Group
         /\ \A v \in Version : host.home[v] \in Group \cup {None} /\ host.root[v] \in Group
         /\ DOMAIN host.mounts \subseteq Nat
         /\ \A i \in DOMAIN host.mounts : host.mounts[i].version \in Version /\ host.mounts[i].dir \in Group
         /\ Group \subseteq Seq(Name)
<1>1. host.mounts \in Seq([version : Version, dir : Group])  BY HostAssumption
<1>2. host.attached \in Version /\ Home \in Group
  <2>1. host.attached \in Version /\ host.home[host.attached] # None
        /\ \A v \in Version : host.home[v] \in Group \cup {None}
    BY HostAssumption
  <2> QED BY <2>1 DEF Home
<1>3. \A v \in Version : host.home[v] \in Group \cup {None} /\ host.root[v] \in Group
  BY HostAssumption
<1>4. DOMAIN host.mounts \subseteq Nat  BY <1>1
<1>5. \A i \in DOMAIN host.mounts : host.mounts[i] \in [version : Version, dir : Group]
  <2> DEFINE M == [version : Version, dir : Group]
             s == host.mounts
  <2>1. s \in Seq(M)  BY <1>1
  <2> HIDE DEF M, s
  <2>2. \A i \in DOMAIN s : s[i] \in M  BY <2>1
  <2> QED BY <2>2 DEF M, s
<1> QED BY <1>2, <1>3, <1>4, <1>5, GroupAssumption

\* The kernel shows a resolvable path of exactly the groups below the
\* namespace's root, and it is what is left of the group's path.
LEMMA ShownFacts ==
  ASSUME NEW r \in Group, NEW g \in Group
  PROVE  /\ Resolvable(Shown(r, g)) <=> IsPrefix(r, g)
         /\ IsPrefix(r, g) =>
              /\ Len(r) =< Len(g)
              /\ Shown(r, g) \in Seq(Name) /\ Len(Shown(r, g)) = Len(g) - Len(r)
              /\ \A i \in 1 .. Len(Shown(r, g)) : Shown(r, g)[i] = g[Len(r) + i]
<1>1. r \in Seq(Name) /\ g \in Seq(Name) /\ ".." \notin Name  BY GroupAssumption
<1>2. CASE IsPrefix(r, g)
  <2>1. Len(r) =< Len(g)  BY <1>2 DEF IsPrefix
  <2>2. Shown(r, g) = SubSeq(g, Len(r) + 1, Len(g))  BY <1>2 DEF Shown
  <2>3. /\ Shown(r, g) \in Seq(Name) /\ Len(Shown(r, g)) = Len(g) - Len(r)
        /\ \A i \in 1 .. Len(Shown(r, g)) : Shown(r, g)[i] = g[Len(r) + i]
    BY <1>1, <2>1, <2>2, TailFacts
  <2>4. Resolvable(Shown(r, g))
    <3>1. Range(Shown(r, g)) \subseteq Name
      <4>1. Shown(r, g) \in Seq(Name)  BY <2>3
      <4> QED BY <4>1 DEF Range
    <3> QED BY <1>1, <3>1 DEF Resolvable
  <2> QED BY <1>2, <2>1, <2>3, <2>4
<1>3. CASE ~IsPrefix(r, g)
  <2>1. Shown(r, g) = <<"..">> \o g  BY <1>3 DEF Shown
  <2>2. g \in Seq(Name)  BY <1>1
  <2> QED BY <1>3, <2>1, <2>2, OutsideIsUnresolvable
<1> QED BY <1>2, <1>3

\* The ancestors of the process's group from its first b names on.
Down(b) == [n \in 1 .. Len(Home) - b + 1 |-> SubSeq(Home, 1, b + n - 1)]

\* A mount of the controller's hierarchy that matches: the levels are the
\* groups from the one that is mounted down to the process's own.
LEMMA LevelsAreAncestors ==
  ASSUME host \in Hosts, NEW i \in DOMAIN host.mounts, Matches(host.attached, i),
         ~MountedBelow \/ Member(host.attached) # <<>>
  PROVE  \E b \in 0 .. Len(Home) : Levels(host.attached, i) = Down(b)
<1> DEFINE v == host.attached
           root == host.root[v]
           dir == host.mounts[i].dir
<1>1. /\ v \in Version /\ root \in Group /\ dir \in Group /\ Home \in Group
      /\ Home \in Seq(Name) /\ root \in Seq(Name) /\ dir \in Seq(Name)
      /\ host.mounts[i].version = v /\ host.home[v] = Home
  BY HostTypes DEF Matches, Home
<1>2. Member(v) = Shown(root, Home) /\ MountRoot(i) = Shown(root, dir)
  BY <1>1 DEF Member, MountRoot
<1> HIDE DEF v, root, dir
<1>3. IsPrefix(root, Home) /\ IsPrefix(root, dir)
  BY <1>1, <1>2, ShownFacts DEF Matches, v
<1>4. /\ Len(root) =< Len(Home) /\ Len(root) =< Len(dir)
      /\ \A n \in 1 .. Len(root) : root[n] = Home[n] /\ root[n] = dir[n]
  <2>1. Home \in Seq(Name) /\ root \in Seq(Name) /\ dir \in Seq(Name)  BY <1>1
  <2> QED BY <1>3, <2>1, PrefixByName
<1>5. /\ Member(v) \in Seq(Name) /\ Len(Member(v)) = Len(Home) - Len(root)
      /\ \A n \in 1 .. Len(Member(v)) : Member(v)[n] = Home[Len(root) + n]
      /\ MountRoot(i) \in Seq(Name) /\ Len(MountRoot(i)) = Len(dir) - Len(root)
      /\ \A n \in 1 .. Len(MountRoot(i)) : MountRoot(i)[n] = dir[Len(root) + n]
  <2>1. root \in Group /\ Home \in Group /\ dir \in Group  BY <1>1
  <2>2. /\ Member(v) \in Seq(Name) /\ Len(Member(v)) = Len(Home) - Len(root)
        /\ \A n \in 1 .. Len(Member(v)) : Member(v)[n] = Home[Len(root) + n]
    BY <1>2, <1>3, <2>1, ShownFacts
  <2>3. /\ MountRoot(i) \in Seq(Name) /\ Len(MountRoot(i)) = Len(dir) - Len(root)
        /\ \A n \in 1 .. Len(MountRoot(i)) : MountRoot(i)[n] = dir[Len(root) + n]
    BY <1>2, <1>3, <2>1, ShownFacts
  <2> QED BY <2>2, <2>3
<1>6. /\ IsPrefix(dir, Home)
      /\ Relative(v, i) \in Seq(Name) /\ Len(Relative(v, i)) = Len(Home) - Len(dir)
      /\ \A n \in 1 .. Len(Relative(v, i)) : Relative(v, i)[n] = Home[Len(dir) + n]
  <2>1. CASE Member(v) = <<>>
    <3>1. Len(Home) = Len(root)
      <4>1. Home \in Seq(Name) /\ root \in Seq(Name)  BY <1>1
      <4>2. Len(Member(v)) = 0  BY <2>1
      <4> QED BY <1>5, <4>1, <4>2
    <3>2. Home = root
      <4>1. Home \in Seq(Name) /\ root \in Seq(Name)  BY <1>1
      <4> QED BY <1>4, <3>1, <4>1, SamePath
    <3>3. ~IsStrictPrefix(root, dir)
      <4>1. ~MountedBelow  BY <2>1 DEF v
      <4>2. Home = host.root[host.mounts[i].version]  BY <1>1, <3>2 DEF root
      <4> QED BY <1>1, <3>2, <4>1, <4>2 DEF MountedBelow, dir, v
    <3>4. dir = Home  BY <1>3, <3>2, <3>3 DEF IsStrictPrefix
    <3>5. Relative(v, i) = <<>>  BY <2>1 DEF Relative
    <3>6. Relative(v, i) \in Seq(Name) /\ Len(Relative(v, i)) = 0  BY <3>5
    <3>7. IsPrefix(dir, Home)  BY <1>3, <3>2, <3>4
    <3>8. Len(Home) - Len(dir) = 0
      <4>1. Home \in Seq(Name)  BY <1>1
      <4> QED BY <3>4, <4>1
    <3> QED BY <3>6, <3>7, <3>8
  <2>2. CASE Member(v) # <<>>
    <3>1. IsPrefix(MountRoot(i), Member(v))  BY <2>2 DEF Matches, v
    <3>2. /\ Len(MountRoot(i)) =< Len(Member(v))
          /\ \A n \in 1 .. Len(MountRoot(i)) : MountRoot(i)[n] = Member(v)[n]
      <4>1. MountRoot(i) \in Seq(Name) /\ Member(v) \in Seq(Name)  BY <1>5
      <4> QED BY <3>1, <4>1, PrefixByName
    <3>3. Relative(v, i) = SubSeq(Member(v), Len(MountRoot(i)) + 1, Len(Member(v)))
      BY <2>2 DEF Relative
    <3>4. /\ Relative(v, i) \in Seq(Name)
          /\ Len(Relative(v, i)) = Len(Member(v)) - Len(MountRoot(i))
          /\ \A n \in 1 .. Len(Relative(v, i)) : Relative(v, i)[n] = Member(v)[Len(MountRoot(i)) + n]
      BY <1>5, <3>2, <3>3, TailFacts
    <3>5. Len(Home) \in Nat /\ Len(root) \in Nat /\ Len(dir) \in Nat
      <4>1. Home \in Seq(Name) /\ root \in Seq(Name) /\ dir \in Seq(Name)  BY <1>1
      <4> QED BY <4>1
    <3>6. Len(Relative(v, i)) = Len(Home) - Len(dir) /\ Len(dir) =< Len(Home)
      BY <1>4, <1>5, <3>2, <3>4, <3>5
    <3>7. \A n \in 1 .. Len(Relative(v, i)) : Relative(v, i)[n] = Home[Len(dir) + n]
      <4> SUFFICES ASSUME NEW n \in 1 .. Len(Relative(v, i))
                   PROVE  Relative(v, i)[n] = Home[Len(dir) + n]
        OBVIOUS
      <4>1. Relative(v, i)[n] = Member(v)[Len(MountRoot(i)) + n]  BY <3>4
      <4>2. Len(MountRoot(i)) + n \in 1 .. Len(Member(v))
        BY <1>4, <1>5, <3>2, <3>4, <3>5
      <4>3. Member(v)[Len(MountRoot(i)) + n] = Home[Len(root) + (Len(MountRoot(i)) + n)]
        BY <1>5, <4>2
      <4>4. Len(root) + (Len(MountRoot(i)) + n) = Len(dir) + n  BY <1>5, <3>5
      <4> QED BY <4>1, <4>3, <4>4
    <3>8. \A n \in 1 .. Len(dir) : dir[n] = Home[n]
      <4> SUFFICES ASSUME NEW n \in 1 .. Len(dir)  PROVE dir[n] = Home[n]  OBVIOUS
      <4>1. CASE n =< Len(root)  BY <1>4, <3>5, <4>1
      <4>2. CASE n > Len(root)
        <5>1. n - Len(root) \in 1 .. Len(MountRoot(i))  BY <1>5, <3>5, <4>2
        <5>2. dir[Len(root) + (n - Len(root))] = Home[Len(root) + (n - Len(root))]
          <6>1. n - Len(root) \in 1 .. Len(Member(v))  BY <1>4, <1>5, <3>2, <3>5, <5>1
          <6> QED BY <1>5, <3>2, <5>1, <6>1
        <5>3. Len(root) + (n - Len(root)) = n  BY <3>5
        <5> QED BY <5>2, <5>3
      <4> QED BY <3>5, <4>1, <4>2
    <3>9. IsPrefix(dir, Home)
      <4>1. Home \in Seq(Name) /\ dir \in Seq(Name)  BY <1>1
      <4> QED BY <3>6, <3>8, <4>1, PrefixByName
    <3> QED BY <3>4, <3>6, <3>7, <3>9
  <2> QED BY <2>1, <2>2
<1>7. ASSUME NEW n \in 1 .. Len(Relative(v, i)) + 1
      PROVE  dir \o SubSeq(Relative(v, i), 1, n - 1) = SubSeq(Home, 1, Len(dir) + n - 1)
  <2> DEFINE p == SubSeq(Relative(v, i), 1, n - 1)
             q == SubSeq(Home, 1, Len(dir) + n - 1)
  <2>1. Home \in Seq(Name) /\ dir \in Seq(Name) /\ Relative(v, i) \in Seq(Name)  BY <1>1, <1>6
  <2>2. Len(Home) \in Nat /\ Len(dir) \in Nat /\ Len(Relative(v, i)) \in Nat  BY <2>1
  <2>3. n - 1 \in 0 .. Len(Relative(v, i)) /\ Len(dir) + n - 1 \in 0 .. Len(Home)
    BY <1>6, <2>2
  <2>4. p \in Seq(Name) /\ Len(p) = n - 1 /\ \A m \in 1 .. n - 1 : p[m] = Relative(v, i)[m]
    BY <2>1, <2>3, HeadFacts
  <2>5. q \in Seq(Name) /\ Len(q) = Len(dir) + n - 1
        /\ \A m \in 1 .. Len(dir) + n - 1 : q[m] = Home[m]
    BY <2>1, <2>3, HeadFacts
  <2> HIDE DEF p, q
  <2>6. /\ dir \o p \in Seq(Name) /\ Len(dir \o p) = Len(dir) + Len(p)
        /\ \A m \in 1 .. Len(dir) : (dir \o p)[m] = dir[m]
        /\ \A m \in 1 .. Len(p) : (dir \o p)[Len(dir) + m] = p[m]
    <3>1. dir \in Seq(Name)  BY <2>1
    <3>2. p \in Seq(Name)  BY <2>4
    <3> QED BY <3>1, <3>2, JoinFacts
  <2>7. \A m \in 1 .. Len(dir) : dir[m] = Home[m]
    <3>1. Home \in Seq(Name) /\ dir \in Seq(Name)  BY <2>1
    <3> QED BY <1>6, <3>1, PrefixByName
  <2>8. Len(dir \o p) = Len(q)  BY <2>2, <2>4, <2>5, <2>6
  <2>9. \A m \in 1 .. Len(dir \o p) : (dir \o p)[m] = q[m]
    <3> SUFFICES ASSUME NEW m \in 1 .. Len(dir) + (n - 1)  PROVE (dir \o p)[m] = q[m]
      BY <2>4, <2>6
    <3>1. q[m] = Home[m]  BY <2>2, <2>5
    <3>2. m \in Nat /\ 1 =< m /\ m =< Len(dir) + (n - 1) /\ (m =< Len(dir) \/ m > Len(dir))  BY <2>2
    <3>3. CASE m =< Len(dir)
      <4>1. m \in 1 .. Len(dir)  BY <2>2, <3>2, <3>3
      <4> QED BY <2>6, <2>7, <3>1, <4>1
    <3>4. CASE m > Len(dir)
      <4>1. m - Len(dir) \in 1 .. n - 1  BY <2>2, <3>2, <3>4
      <4>2. (dir \o p)[Len(dir) + (m - Len(dir))] = Relative(v, i)[m - Len(dir)]
        BY <2>4, <2>6, <4>1
      <4>3. m - Len(dir) \in 1 .. Len(Relative(v, i))  BY <2>2, <2>3, <4>1
      <4>4. Relative(v, i)[m - Len(dir)] = Home[Len(dir) + (m - Len(dir))]
        BY <1>6, <4>3
      <4>5. Len(dir) + (m - Len(dir)) = m  BY <2>2
      <4> QED BY <3>1, <4>2, <4>4, <4>5
    <3> QED BY <3>2, <3>3, <3>4
  <2>10. dir \o p = q
    <3>1. dir \o p \in Seq(Name) /\ q \in Seq(Name)  BY <2>5, <2>6
    <3> QED BY <2>8, <2>9, <3>1, SamePath
  <2> QED BY <2>10 DEF p, q
<1>8. Len(dir) \in 0 .. Len(Home)
  <2>1. Home \in Seq(Name) /\ dir \in Seq(Name)  BY <1>1
  <2>2. Len(dir) =< Len(Home)  BY <1>6 DEF IsPrefix
  <2> QED BY <2>1, <2>2
<1>9. Levels(v, i) = Down(Len(dir))
  <2>1. Levels(v, i) = [n \in 1 .. Len(Relative(v, i)) + 1 |-> dir \o SubSeq(Relative(v, i), 1, n - 1)]
    BY DEF Levels, dir
  <2>2. Len(Relative(v, i)) + 1 = Len(Home) - Len(dir) + 1  BY <1>6
  <2> QED BY <1>7, <2>1, <2>2 DEF Down
<1> QED BY <1>8, <1>9 DEF v

\* Whatever hierarchy is chosen, the parts of the relative path are names.
LEMMA RelativeIsPath ==
  ASSUME host \in Hosts, NEW v \in Version, NEW i \in DOMAIN host.mounts, Matches(v, i)
  PROVE  Relative(v, i) \in Seq(Name)
<1>1. /\ host.root[v] \in Group /\ host.home[v] \in Group
      /\ host.root[host.mounts[i].version] \in Group /\ host.mounts[i].dir \in Group
  BY HostTypes DEF Matches
<1>2. Member(v) \in Seq(Name)
  <2>1. Resolvable(Shown(host.root[v], host.home[v]))  BY DEF Matches, Member
  <2> QED BY <1>1, <2>1, ShownFacts DEF Member
<1>3. MountRoot(i) \in Seq(Name)
  <2>1. Resolvable(Shown(host.root[host.mounts[i].version], host.mounts[i].dir))
    BY DEF Matches, MountRoot
  <2> QED BY <1>1, <2>1, ShownFacts DEF MountRoot
<1>4. CASE Member(v) = <<>>  BY <1>4 DEF Relative
<1>5. CASE Member(v) # <<>>
  <2>1. Len(MountRoot(i)) =< Len(Member(v))  BY <1>5 DEF Matches, IsPrefix
  <2> QED BY <1>2, <1>3, <1>5, <2>1, TailFacts DEF Relative
<1> QED BY <1>4, <1>5

\* There is always a level to read, and levels are paths.
LEMMA LevelsArePaths ==
  ASSUME host \in Hosts, NEW v \in Version, NEW i \in DOMAIN host.mounts, Matches(v, i)
  PROVE  Levels(v, i) \in Seq(Seq(Name)) /\ 1 \in DOMAIN Levels(v, i)
<1> DEFINE parts == Relative(v, i)
           dir == host.mounts[i].dir
           level(n) == dir \o SubSeq(parts, 1, n - 1)
<1>1. parts \in Seq(Name)  BY RelativeIsPath
<1>2. dir \in Seq(Name)  BY HostTypes
<1>3. Len(parts) \in Nat  BY <1>1
<1>4. Levels(v, i) = [n \in 1 .. Len(parts) + 1 |-> level(n)]  BY DEF Levels
<1> HIDE DEF parts, dir
<1>5. ASSUME NEW n \in 1 .. Len(parts) + 1
      PROVE  level(n) \in Seq(Name)
  <2>1. n - 1 \in 0 .. Len(parts)  BY <1>3
  <2>2. SubSeq(parts, 1, n - 1) \in Seq(Name)  BY <1>1, <2>1, HeadFacts
  <2> QED BY <1>2, <2>2, JoinFacts
<1> HIDE DEF level
<1>6. [n \in 1 .. Len(parts) + 1 |-> level(n)] \in [1 .. Len(parts) + 1 -> Seq(Name)]
  BY <1>5
<1>7. Len(parts) + 1 \in Nat /\ 1 \in 1 .. Len(parts) + 1  BY <1>3
<1> QED BY <1>4, <1>6, <1>7

\* The levels of an attached hierarchy are the ancestors from a prefix on.
LEMMA DownFacts ==
  ASSUME host \in Hosts, NEW b \in 0 .. Len(Home)
  PROVE  /\ DOMAIN Down(b) = 1 .. Len(Home) - b + 1 /\ 1 \in DOMAIN Down(b)
         /\ \A n \in DOMAIN Down(b) :
              Down(b)[n] = SubSeq(Home, 1, b + n - 1) /\ Down(b)[n] \in Group \cap Ancestors(Home)
         /\ Range(Down(b)) = {g \in Ancestors(Home) : IsPrefix(Down(b)[1], g)}
<1>1. Home \in Seq(Name) /\ Home \in Group  BY HostTypes
<1>2. Len(Home) \in Nat  BY <1>1
<1>3. DOMAIN Down(b) = 1 .. Len(Home) - b + 1 /\ 1 \in DOMAIN Down(b)
  BY <1>2 DEF Down
<1>4. \A n \in DOMAIN Down(b) : Down(b)[n] = SubSeq(Home, 1, b + n - 1)
  BY <1>3 DEF Down
<1>5. \A n \in 0 .. Len(Home) :
        SubSeq(Home, 1, n) \in Group \cap Ancestors(Home)
  BY <1>1, GroupAssumption DEF Ancestors
<1>6. \A n \in DOMAIN Down(b) : b + n - 1 \in b .. Len(Home)  BY <1>2, <1>3
<1>7. \A n \in DOMAIN Down(b) : Down(b)[n] \in Group \cap Ancestors(Home)
  <2>1. \A n \in DOMAIN Down(b) : b + n - 1 \in 0 .. Len(Home)  BY <1>2, <1>6
  <2> QED BY <1>4, <1>5, <2>1
<1>8. Down(b)[1] = SubSeq(Home, 1, b)
  <2>1. b + 1 - 1 = b  BY <1>2
  <2> QED BY <1>3, <1>4, <2>1
<1>9. \A n \in 0 .. Len(Home) : IsPrefix(SubSeq(Home, 1, b), SubSeq(Home, 1, n)) <=> b =< n
  <2> SUFFICES ASSUME NEW n \in 0 .. Len(Home)
               PROVE  IsPrefix(SubSeq(Home, 1, b), SubSeq(Home, 1, n)) <=> b =< n
    OBVIOUS
  <2> DEFINE p == SubSeq(Home, 1, b)
             q == SubSeq(Home, 1, n)
  <2>1. p \in Seq(Name) /\ Len(p) = b /\ \A m \in 1 .. b : p[m] = Home[m]
    BY <1>1, HeadFacts
  <2>2. q \in Seq(Name) /\ Len(q) = n /\ \A m \in 1 .. n : q[m] = Home[m]
    BY <1>1, HeadFacts
  <2> HIDE DEF p, q
  <2>3. IsPrefix(p, q) <=> b =< n /\ \A m \in 1 .. b : p[m] = q[m]
    <3>1. p \in Seq(Name)  BY <2>1
    <3>2. q \in Seq(Name)  BY <2>2
    <3> QED BY <2>1, <2>2, <3>1, <3>2, PrefixByName
  <2>4. b =< n => \A m \in 1 .. b : m \in 1 .. n  BY <1>2
  <2> QED BY <2>1, <2>2, <2>3, <2>4 DEF p, q
<1>10. Range(Down(b)) = {g \in Ancestors(Home) : IsPrefix(Down(b)[1], g)}
  <2>1. ASSUME NEW n \in DOMAIN Down(b)
        PROVE  Down(b)[n] \in Ancestors(Home) /\ IsPrefix(Down(b)[1], Down(b)[n])
    <3>1. b + n - 1 \in 0 .. Len(Home) /\ b =< b + n - 1  BY <1>2, <1>6
    <3> QED BY <1>4, <1>7, <1>8, <1>9, <3>1
  <2>2. ASSUME NEW g \in Ancestors(Home), IsPrefix(Down(b)[1], g)
        PROVE  \E n \in DOMAIN Down(b) : Down(b)[n] = g
    <3>1. PICK k \in 0 .. Len(Home) : g = SubSeq(Home, 1, k)  BY DEF Ancestors
    <3>2. b =< k  BY <1>8, <1>9, <2>2, <3>1
    <3>3. k - b + 1 \in DOMAIN Down(b) /\ b + (k - b + 1) - 1 = k  BY <1>2, <1>3, <3>2
    <3> QED BY <1>4, <3>1, <3>3
  <2> QED BY <2>1, <2>2 DEF Range
<1> QED BY <1>3, <1>4, <1>7, <1>10

\* Whatever mount was taken, the levels of the controller's hierarchy are groups.
LEMMA LevelsAreGroups ==
  ASSUME host \in Hosts, NEW i \in DOMAIN host.mounts, Matches(host.attached, i)
  PROVE  Range(Levels(host.attached, i)) \subseteq Group
<1> DEFINE v == host.attached
           dir == host.mounts[i].dir
<1>1. dir \in Group /\ dir \in Seq(Name)  BY HostTypes
<1>2. CASE Member(v) = <<>>
  <2>1. Levels(v, i) = [n \in 1 .. 1 |-> dir \o SubSeq(<<>>, 1, n - 1)]
    BY <1>2 DEF Levels, Relative
  <2>2. dir \o SubSeq(<<>>, 1, 0) = dir  BY <1>1
  <2>3. \A n \in DOMAIN Levels(v, i) : Levels(v, i)[n] = dir
    <3> SUFFICES ASSUME NEW n \in 1 .. 1  PROVE dir \o SubSeq(<<>>, 1, n - 1) = dir
      BY <2>1
    <3>1. n = 1 /\ n - 1 = 0  OBVIOUS
    <3> QED BY <2>2, <3>1
  <2> QED BY <1>1, <2>3 DEF Range
<1>3. CASE Member(v) # <<>>
  <2>1. PICK b \in 0 .. Len(Home) : Levels(v, i) = Down(b)  BY <1>3, LevelsAreAncestors
  <2> QED BY <2>1, DownFacts DEF Range
<1> QED BY <1>2, <1>3

-----------------------------------------------------------------------------
(* The choice.                                                             *)

Before(c, d) == c[1] < d[1] \/ (c[1] = d[1] /\ c[2] =< d[2])

\* The candidate that is taken is a candidate, and before the others.
LEMMA ChosenIsFirst ==
  ASSUME host \in Hosts, Candidates # {}
  PROVE  Chosen \in Candidates /\ \A d \in Candidates : Before(Chosen, d)
<1>1. DOMAIN host.mounts \subseteq Nat  BY HostTypes
<1>2. \A c \in Candidates : /\ c[1] \in 1 .. 2 /\ c[2] \in DOMAIN host.mounts
                            /\ c = <<c[1], c[2]>>
  BY DEF Candidates
<1> DEFINE Ranks == {c[1] : c \in Candidates}
           Places(r) == {c[2] : c \in {d \in Candidates : d[1] = r}}
<1>3. Min(Ranks) \in Ranks /\ \A y \in Ranks : Min(Ranks) =< y
  <2>1. Ranks \in SUBSET Nat /\ Ranks # {}  BY <1>2
  <2> QED BY <2>1, LeastMember
<1>4. PICK c0 \in Candidates : c0[1] = Min(Ranks)  BY <1>3
<1> DEFINE P == Places(c0[1])
<1>5. Min(P) \in P /\ \A y \in P : Min(P) =< y
  <2>1. P \in SUBSET Nat  BY <1>1, <1>2
  <2>2. P # {}  BY <1>4
  <2> QED BY <2>1, <2>2, LeastMember
<1>6. PICK c \in Candidates : c[1] = c0[1] /\ c[2] = Min(P)  BY <1>5
<1>7. \A d \in Candidates : Before(c, d)
  <2> SUFFICES ASSUME NEW d \in Candidates  PROVE Before(c, d)  OBVIOUS
  <2>1. c[1] =< d[1]  BY <1>3, <1>4, <1>6
  <2>2. d[1] = c[1] => c[2] =< d[2]
    <3> SUFFICES ASSUME d[1] = c[1]  PROVE c[2] =< d[2]  OBVIOUS
    <3>1. d[2] \in P  BY <1>6
    <3> QED BY <1>5, <1>6, <3>1
  <2>3. c[1] \in 1 .. 2 /\ d[1] \in 1 .. 2  BY <1>2
  <2> QED BY <2>1, <2>2, <2>3 DEF Before
<1> QED BY <1>7 DEF Chosen, Before

\* What the chosen candidate is.
LEMMA ChosenMatches ==
  ASSUME host \in Hosts, Candidates # {}
  PROVE  /\ Chosen[2] \in DOMAIN host.mounts /\ Preference[Chosen[1]] \in Version
         /\ Matches(Preference[Chosen[1]], Chosen[2])
<1>1. Chosen \in Candidates  BY ChosenIsFirst
<1>2. \A r \in 1 .. 2 : Preference[r] \in Version  BY DEF Preference, Version
<1> QED BY <1>1, <1>2 DEF Candidates

\* A mount that shows the process's group in the controller's hierarchy matches.
LEMMA VisibleMatches ==
  ASSUME host \in Hosts, Visible
  PROVE  \E i \in DOMAIN host.mounts : Matches(host.attached, i)
<1> DEFINE v == host.attached
           root == host.root[v]
<1>1. PICK i \in DOMAIN host.mounts :
        /\ host.mounts[i].version = v /\ IsPrefix(root, Home)
        /\ IsPrefix(root, host.mounts[i].dir) /\ IsPrefix(host.mounts[i].dir, Home)
  BY DEF Visible
<1> DEFINE dir == host.mounts[i].dir
<1>2. /\ v \in Version /\ root \in Group /\ dir \in Group /\ Home \in Group
      /\ host.home[v] = Home /\ Home # None
  BY HostTypes, ValueAssumption DEF Home
<1>3. Member(v) = Shown(root, Home) /\ MountRoot(i) = Shown(root, dir)
  BY <1>1, <1>2 DEF Member, MountRoot
<1> HIDE DEF v, root, dir
<1>4. Resolvable(Member(v)) /\ Resolvable(MountRoot(i))
  BY <1>1, <1>2, <1>3, ShownFacts DEF root, dir
<1>5. IsPrefix(MountRoot(i), Member(v))
  <2>1. Home \in Seq(Name)  BY <1>2, GroupAssumption
  <2>2. root \in Seq(Name)  BY <1>2, GroupAssumption
  <2>3. dir \in Seq(Name)  BY <1>2, GroupAssumption
  <2>4. IsPrefix(root, Home) /\ IsPrefix(root, dir) /\ IsPrefix(dir, Home)  BY <1>1 DEF root, dir
  <2>5. /\ Member(v) \in Seq(Name) /\ Len(Member(v)) = Len(Home) - Len(root)
        /\ \A n \in 1 .. Len(Member(v)) : Member(v)[n] = Home[Len(root) + n]
    BY <1>2, <1>3, <2>4, ShownFacts
  <2>6. /\ MountRoot(i) \in Seq(Name) /\ Len(MountRoot(i)) = Len(dir) - Len(root)
        /\ \A n \in 1 .. Len(MountRoot(i)) : MountRoot(i)[n] = dir[Len(root) + n]
    BY <1>2, <1>3, <2>4, ShownFacts
  <2>7. Len(dir) =< Len(Home) /\ \A n \in 1 .. Len(dir) : dir[n] = Home[n]
    BY <2>1, <2>3, <2>4, PrefixByName
  <2>8. Len(root) =< Len(dir)  BY <2>4 DEF IsPrefix
  <2>9. Len(Home) \in Nat /\ Len(root) \in Nat /\ Len(dir) \in Nat  BY <2>1, <2>2, <2>3
  <2>10. Len(MountRoot(i)) =< Len(Member(v))  BY <2>5, <2>6, <2>7, <2>9
  <2>11. \A n \in 1 .. Len(MountRoot(i)) : MountRoot(i)[n] = Member(v)[n]
    <3> SUFFICES ASSUME NEW n \in 1 .. Len(MountRoot(i))
                 PROVE  MountRoot(i)[n] = Member(v)[n]
      OBVIOUS
    <3>1. n \in 1 .. Len(Member(v)) /\ Len(root) + n \in 1 .. Len(dir)
      BY <2>5, <2>6, <2>8, <2>9, <2>10
    <3> QED BY <2>5, <2>6, <2>7, <3>1
  <2>12. MountRoot(i) \in Seq(Name)  BY <2>6
  <2>13. Member(v) \in Seq(Name)  BY <2>5
  <2> QED BY <2>10, <2>11, <2>12, <2>13, PrefixByName
<1> QED BY <1>1, <1>2, <1>4, <1>5 DEF Matches, v

\* Such a mount decides the version, whatever else matches.
LEMMA VisibleDecides ==
  ASSUME host \in Hosts, Visible
  PROVE  Candidates # {} /\ Preference[Chosen[1]] = host.attached
<1>1. PICK i \in DOMAIN host.mounts : Matches(host.attached, i)  BY VisibleMatches
<1>2. host.attached \in Version  BY HostTypes
<1>3. <<host.attached, i>> \in Candidates
  <2>1. Preference[host.attached] = host.attached  BY <1>2 DEF Preference, Version
  <2> QED BY <1>1, <1>2, <2>1 DEF Candidates, Version
<1>4. Chosen \in Candidates /\ Before(Chosen, <<host.attached, i>>)  BY <1>3, ChosenIsFirst
<1>5. Chosen[1] \in 1 .. 2 /\ Preference[Chosen[1]] = Chosen[1]
  BY <1>4 DEF Candidates, Preference
<1>6. Chosen[1] =< host.attached
  BY <1>2, <1>4, <1>5 DEF Before, Version
<1>7. CASE host.attached = 1  BY <1>3, <1>5, <1>6, <1>7
<1>8. CASE host.attached = 2
  <2>1. Chosen[1] # 1
    <3>1. host.home[1] = None  BY <1>8, HostAssumption
    <3>2. Matches(Preference[Chosen[1]], Chosen[2])  BY <1>3, ChosenMatches
    <3> QED BY <1>5, <3>1, <3>2 DEF Matches
  <2> QED BY <1>3, <1>5, <1>8, <2>1
<1> QED BY <1>2, <1>7, <1>8 DEF Version

-----------------------------------------------------------------------------
(* The invariant.                                                          *)

Types == /\ host \in Hosts /\ limit \in [Group -> Limit \cup {Unlimited}]
         /\ usage \in [Group -> 0 .. MaxUsage]
         /\ most \in [Group -> Nat] /\ least \in [Group -> Nat]
         /\ phase \in {"resolve", "limit", "usage", "done"}
         /\ version \in Version \cup {None}
         /\ levels \in Seq(Seq(Name)) /\ at \in Nat
         /\ finite \subseteq Nat /\ skipped \subseteq Range(levels)
         /\ status \in {"ok", "unknown", "unavailable"}

\* Which hierarchy was chosen, and which levels.
Path == /\ version = host.attached =>
             /\ Range(levels) \subseteq Group
             /\ ~MountedBelow => \E b \in 0 .. Len(Home) : levels = Down(b)
        /\ ControllerIsChosen

\* Where the walk over the levels is, and what it holds in its hands.
Walk == /\ phase = "resolve" => /\ version = None /\ at = 1 /\ text = None
                                /\ finite = {} /\ skipped = {}
        /\ phase # "done" => status = "unknown"
        /\ phase \in {"limit", "usage"} => version # None /\ at \in DOMAIN levels
        /\ phase = "usage" <=> text # None
        /\ phase = "usage" => text \in Texts(limit[levels[at]])
        /\ version # host.attached => finite = {}

\* What a finite group has left is between its extremes.
Between == \A g \in Finite : /\ least[g] =< Left(g, usage[g])
                             /\ Left(g, usage[g]) =< most[g]

\* Level m has been read.
Read(m) == \/ phase \in {"limit", "usage"} /\ m < at
           \/ phase = "done" /\ status = "ok"

\* Every headroom was true of a group above the process at some instant, and
\* every level that was read and has a limit is in one of the headrooms.
Answered ==
  /\ ~MountedBelow =>
       \A h \in finite : \E g \in Finite \cap Ancestors(Home) : least[g] =< h /\ h =< most[g]
  /\ version = host.attached =>
       \A m \in DOMAIN levels :
         Read(m) /\ levels[m] \in Finite /\ levels[m] \notin skipped =>
           \E h \in finite : h =< most[levels[m]]

IInv == Types /\ Path /\ Walk /\ Between /\ Answered

\* What a finite group has left is a number.
LEMMA LeftIsNumber ==
  ASSUME limit \in [Group -> Limit \cup {Unlimited}], NEW g \in Finite, NEW u \in 0 .. MaxUsage
  PROVE  g \in Group /\ limit[g] \in Nat /\ Left(g, u) \in Nat
<1>1. g \in Group /\ limit[g] \in Nat  BY ValueAssumption DEF Finite
<1> QED BY <1>1, ValueAssumption DEF Left

\* No hierarchy is no version.
LEMMA AttachedIsVersion ==
  ASSUME host \in Hosts
  PROVE  host.attached # None
<1>1. host.attached \in {1, 2}  BY HostTypes DEF Version
<1>2. None \notin {1, 2}  BY ValueAssumption
<1> QED BY <1>1, <1>2

LEMMA InitInv == Init => IInv
<1> SUFFICES ASSUME Init  PROVE IInv  OBVIOUS
<1>1. host \in Hosts /\ limit \in [Group -> Limit \cup {Unlimited}] /\ usage \in [Group -> 0 .. MaxUsage]
  BY DEF Init
<1>2. ASSUME NEW g \in Group
      PROVE  /\ most[g] = IF limit[g] = Unlimited THEN 0 ELSE Left(g, usage[g])
             /\ most[g] \in Nat
  <2>1. most[g] = IF limit[g] = Unlimited THEN 0 ELSE Left(g, usage[g])  BY DEF Init
  <2>2. limit[g] # Unlimited => Left(g, usage[g]) \in Nat
    BY <1>1, LeftIsNumber DEF Finite
  <2> QED BY <2>1, <2>2
<1>3. most \in [Group -> Nat] /\ least = most  BY <1>2 DEF Init
<1>4. /\ phase = "resolve" /\ version = None /\ levels = <<>> /\ at = 1
      /\ text = None /\ finite = {} /\ skipped = {} /\ status = "unknown"
  BY DEF Init
<1>5. Types  BY <1>1, <1>3, <1>4 DEF Types
<1>6. version # host.attached  BY <1>1, <1>4, AttachedIsVersion
<1>7. Path  BY <1>4, <1>6 DEF Path, ControllerIsChosen
<1>8. Walk  BY <1>4 DEF Walk
<1>9. Between
  <2>1. \A g \in Finite : g \in Group /\ limit[g] # Unlimited /\ Left(g, usage[g]) \in Nat
    BY <1>1, LeftIsNumber DEF Finite
  <2> QED BY <1>2, <1>3, <2>1 DEF Between
<1>10. Answered  BY <1>4, <1>6 DEF Answered
<1> QED BY <1>5, <1>7, <1>8, <1>9, <1>10 DEF IInv

-----------------------------------------------------------------------------
(* The steps.                                                              *)

\* The groups of the machine stay as they are while the probe makes a step.
LEMMA GroupsKept ==
  ASSUME UNCHANGED groups
  PROVE  /\ Home' = Home /\ Finite' = Finite /\ (\A b : Down(b)' = Down(b))
         /\ Visible' = Visible /\ MountedBelow' = MountedBelow /\ (Between => Between')
BY DEF groups, Home, Finite, Down, Visible, MountedBelow, Between, Left

LEMMA UnreadableStep ==
  ASSUME IInv, Unreadable
  PROVE  IInv'
<1>1. /\ phase = "resolve" /\ phase' = "done" /\ status' = "unavailable"
      /\ UNCHANGED <<groups, version, levels, at, text, finite, skipped>>
  BY DEF Unreadable, Finish
<1>2. /\ host' = host /\ limit' = limit /\ usage' = usage /\ most' = most /\ least' = least
      /\ Home' = Home /\ Finite' = Finite /\ MountedBelow' = MountedBelow /\ \A b : Down(b)' = Down(b)
  BY <1>1, GroupsKept DEF groups
<1>3. Types'  BY <1>1, <1>2 DEF IInv, Types
<1>4. Path'  BY <1>1, <1>2 DEF IInv, Path, ControllerIsChosen
<1>5. Walk'  BY <1>1, <1>2 DEF IInv, Walk
<1>6. Between'  BY <1>1, GroupsKept DEF IInv
<1>7. Answered'
  <2>1. version' # host'.attached
    BY <1>1, <1>2, AttachedIsVersion DEF IInv, Types, Walk
  <2> QED BY <1>1, <2>1 DEF IInv, Walk, Answered
<1> QED BY <1>3, <1>4, <1>5, <1>6, <1>7 DEF IInv

LEMMA ResolveStep ==
  ASSUME IInv, Resolve
  PROVE  IInv'
<1>1. /\ phase = "resolve" /\ version = None /\ at = 1 /\ text = None
      /\ finite = {} /\ skipped = {} /\ status = "unknown" /\ host \in Hosts
      /\ UNCHANGED <<groups, at, text, finite, skipped>>
  BY DEF IInv, Types, Walk, Resolve
<1>2. /\ host' = host /\ limit' = limit /\ usage' = usage /\ most' = most /\ least' = least
      /\ Home' = Home /\ Finite' = Finite /\ (\A b : Down(b)' = Down(b)) /\ Visible' = Visible
      /\ MountedBelow' = MountedBelow
  BY <1>1, GroupsKept DEF groups
<1>3. Between'  BY <1>1, GroupsKept DEF IInv
<1>4. None # host.attached  BY <1>1, AttachedIsVersion
<1>5. CASE Candidates = {}
  <2>1. phase' = "done" /\ status' = "unknown" /\ version' = version /\ levels' = levels
    BY <1>5 DEF Resolve, Finish
  <2>2. Types'  BY <1>1, <1>2, <2>1 DEF IInv, Types
  <2>3. ~Visible  BY <1>1, <1>5, VisibleDecides
  <2>4. Path'  BY <1>1, <1>2, <1>4, <2>1, <2>3 DEF Path, ControllerIsChosen
  <2>5. Walk'  BY <1>1, <1>2, <2>1 DEF Walk
  <2>6. Answered'  BY <1>1, <1>2, <1>4, <2>1 DEF Answered
  <2> QED BY <1>3, <2>2, <2>4, <2>5, <2>6 DEF IInv
<1>6. CASE Candidates # {}
  <2> DEFINE v == Preference[Chosen[1]]
             i == Chosen[2]
  <2>1. version' = v /\ levels' = Levels(v, i) /\ phase' = "limit" /\ status' = status
    BY <1>6 DEF Resolve
  <2>2. v \in Version /\ i \in DOMAIN host.mounts /\ Matches(v, i)
    BY <1>1, <1>6, ChosenMatches
  <2>3. Visible => v = host.attached  BY <1>1, VisibleDecides
  <2> HIDE DEF v, i
  <2>4. levels' \in Seq(Seq(Name)) /\ 1 \in DOMAIN levels'
    BY <1>1, <2>1, <2>2, LevelsArePaths
  <2>5. v = host.attached => /\ Range(levels') \subseteq Group
                             /\ ~MountedBelow => \E b \in 0 .. Len(Home) : levels' = Down(b)
    BY <1>1, <2>1, <2>2, LevelsAreAncestors, LevelsAreGroups
  <2>6. v # None  BY <2>2, ValueAssumption DEF Version
  <2>7. Types'  BY <1>1, <1>2, <2>1, <2>2, <2>4 DEF IInv, Types
  <2>8. Path'  BY <1>2, <2>1, <2>3, <2>5 DEF Path, ControllerIsChosen
  <2>9. Walk'  BY <1>1, <1>2, <2>1, <2>4, <2>6 DEF Walk
  <2>10. Answered'
    <3>1. \A m \in DOMAIN levels' : ~(m < 1)
      <4>1. levels' \in Seq(Seq(Name))  BY <2>4
      <4> QED BY <4>1
    <3> QED BY <1>1, <2>1, <3>1 DEF Answered, Read
  <2> QED BY <1>3, <2>7, <2>8, <2>9, <2>10 DEF IInv
<1> QED BY <1>5, <1>6

\* What a file holds is its value, or no value.
LEMMA TextsFacts ==
  ASSUME NEW value, NEW t \in Texts(value)
  PROVE  /\ t \in {Missing, Garbled, value}
         /\ version # host.attached => t = Missing
BY DEF Texts

LEMMA ReadLimitStep ==
  ASSUME IInv, ReadLimit
  PROVE  IInv'
<1>1. /\ phase = "limit" /\ phase' = "usage"
      /\ UNCHANGED <<groups, version, levels, at, finite, skipped, status>>
  BY DEF ReadLimit
<1>2. text' \in Texts(limit[levels[at]])  BY DEF ReadLimit
<1>3. /\ host' = host /\ limit' = limit /\ usage' = usage /\ most' = most /\ least' = least
      /\ Home' = Home /\ Finite' = Finite /\ (\A b : Down(b)' = Down(b)) /\ Visible' = Visible
      /\ MountedBelow' = MountedBelow
  BY <1>1, GroupsKept DEF groups
<1>4. host \in Hosts /\ version # None /\ at \in DOMAIN levels
  BY <1>1 DEF IInv, Types, Walk
<1>5. text' # None
  <2>1. CASE version = host.attached
    <3>1. Range(levels) \subseteq Group  BY <2>1 DEF IInv, Path
    <3>2. levels[at] \in Group  BY <1>4, <3>1 DEF Range
    <3>3. limit[levels[at]] \in Limit \cup {Unlimited}  BY <3>2 DEF IInv, Types
    <3>4. limit[levels[at]] # None  BY <3>3, ValueAssumption
    <3> QED BY <1>2, <3>4, ValueAssumption, TextsFacts
  <2>2. CASE version # host.attached  BY <1>2, <2>2, ValueAssumption, TextsFacts
  <2> QED BY <2>1, <2>2
<1>6. Types'  BY <1>1, <1>3 DEF IInv, Types
<1>7. Path'  BY <1>1, <1>3 DEF IInv, Path, ControllerIsChosen
<1>8. Walk'  BY <1>1, <1>2, <1>3, <1>4, <1>5 DEF IInv, Walk, Texts
<1>9. Between'  BY <1>1, GroupsKept DEF IInv
<1>10. Answered'  BY <1>1, <1>3 DEF IInv, Answered, Read
<1> QED BY <1>6, <1>7, <1>8, <1>9, <1>10 DEF IInv

\* After a usage was read the walk has ended, in failure or behind the last
\* level, or stands at the next one.
LEMMA NextLevelFacts ==
  ASSUME phase = "usage", at \in DOMAIN levels, levels \in Seq(Seq(Name)),
         levels' = levels, NextLevel
  PROVE  /\ \/ phase' = "done" /\ status' = "ok" /\ at' = at
            \/ phase' = "limit" /\ status' = status /\ at' \in DOMAIN levels
         /\ \A m \in DOMAIN levels : Read(m)' => Read(m) \/ m = at
<1>1. DOMAIN levels = 1 .. Len(levels) /\ Len(levels) \in Nat /\ at \in 1 .. Len(levels)
  OBVIOUS
<1>2. CASE at = Len(levels)
  <2>1. phase' = "done" /\ status' = "ok" /\ at' = at  BY <1>2 DEF NextLevel, Finish
  <2>2. \A m \in DOMAIN levels : m < at \/ m = at  BY <1>1, <1>2
  <2> QED BY <2>1, <2>2 DEF Read
<1>3. CASE at # Len(levels)
  <2>1. phase' = "limit" /\ status' = status /\ at' = at + 1  BY <1>3 DEF NextLevel
  <2>2. at' \in DOMAIN levels  BY <1>1, <1>3, <2>1
  <2>3. \A m \in DOMAIN levels : m < at' => m < at \/ m = at  BY <1>1, <2>1
  <2> QED BY <2>1, <2>2, <2>3 DEF Read
<1> QED BY <1>2, <1>3

\* Reading a usage adds at most the headroom that the level has at this
\* instant, and adds it when the level has a limit and is not left out.
LEMMA ReadUsageFacts ==
  ASSUME IInv, ReadUsage
  PROVE  /\ phase = "usage" /\ at \in DOMAIN levels
         /\ UNCHANGED <<groups, version, levels>> /\ text' = None
         /\ \/ phase' = "done" /\ status' \in {"ok", "unknown"} /\ at' = at
            \/ phase' = "limit" /\ status' = status /\ at' \in DOMAIN levels
         /\ finite \subseteq finite' /\ skipped \subseteq skipped' /\ skipped' \subseteq Range(levels)
         /\ \A h \in finite' : h \in finite \/
              /\ version = host.attached /\ levels[at] \in Finite
              /\ h = Left(levels[at], usage[levels[at]])
         /\ \A m \in DOMAIN levels : Read(m)' => Read(m) \/
              /\ m = at
              /\ version = host.attached /\ levels[at] \in Finite /\ levels[at] \notin skipped' =>
                   Left(levels[at], usage[levels[at]]) \in finite'
<1> DEFINE g == levels[at]
<1>1. /\ phase = "usage" /\ at \in DOMAIN levels /\ host \in Hosts
      /\ levels \in Seq(Seq(Name)) /\ skipped \subseteq Range(levels)
      /\ limit \in [Group -> Limit \cup {Unlimited}]
      /\ UNCHANGED <<groups, version, levels>> /\ text' = None
  BY DEF IInv, Types, Walk, ReadUsage
<1>2. levels' = levels /\ g \in Range(levels)  BY <1>1 DEF Range
<1>3. text \in Texts(limit[g])  BY <1>1 DEF IInv, Walk
<1>4. NextLevel =>
        /\ \/ phase' = "done" /\ status' = "ok" /\ at' = at
           \/ phase' = "limit" /\ status' = status /\ at' \in DOMAIN levels
        /\ \A m \in DOMAIN levels : Read(m)' => Read(m) \/ m = at
  <2>1. levels \in Seq(Seq(Name))  BY <1>1
  <2> QED BY <1>1, <1>2, <2>1, NextLevelFacts
<1>5. version = host.attached => g \in Group  BY <1>2 DEF IInv, Path
<1>6. PICK u \in Texts(usage[g]) :
       \/ /\ text = Missing /\ u = Missing
          /\ skipped' = skipped \cup {g}
          /\ NextLevel /\ UNCHANGED finite
       \/ /\ text = Unlimited
          /\ NextLevel /\ UNCHANGED <<finite, skipped>>
       \/ /\ text \notin {Missing, Garbled, Unlimited} /\ u \notin {Missing, Garbled}
          /\ finite' = finite \cup {Headroom(text, u)}
          /\ NextLevel /\ UNCHANGED skipped
       \/ Finish("unknown") /\ UNCHANGED <<at, finite, skipped>>
  BY DEF ReadUsage
<1>7. CASE NextLevel /\ skipped' = skipped \cup {g} /\ UNCHANGED finite
  BY <1>1, <1>2, <1>4, <1>7
<1>8. CASE text = Unlimited /\ NextLevel /\ UNCHANGED <<finite, skipped>>
  <2>1. version = host.attached => g \notin Finite
    BY <1>3, <1>5, <1>8, ValueAssumption, TextsFacts DEF Finite
  <2> QED BY <1>1, <1>4, <1>8, <2>1
<1>9. CASE /\ text \notin {Missing, Garbled, Unlimited} /\ u \notin {Missing, Garbled}
           /\ finite' = finite \cup {Headroom(text, u)}
           /\ NextLevel /\ UNCHANGED skipped
  <2>1. version = host.attached /\ text = limit[g] /\ u = usage[g]
    BY <1>3, <1>6, <1>9, TextsFacts
  <2>2. g \in Finite  BY <1>5, <1>9, <2>1 DEF Finite
  <2>3. Headroom(text, u) = Left(g, usage[g])  BY <2>1 DEF Headroom, Left
  <2>4. finite' = finite \cup {Left(g, usage[g])} /\ skipped' = skipped  BY <1>9, <2>3
  <2> QED BY <1>1, <1>4, <1>9, <2>1, <2>2, <2>4
<1>10. CASE Finish("unknown") /\ UNCHANGED <<at, finite, skipped>>
  <2>1. phase' = "done" /\ status' = "unknown" /\ at' = at  BY <1>10 DEF Finish
  <2>2. \A m \in DOMAIN levels : ~Read(m)'  BY <2>1 DEF Read
  <2> QED BY <1>1, <1>10, <2>1, <2>2
<1> QED BY <1>6, <1>7, <1>8, <1>9, <1>10

LEMMA ReadUsageStep ==
  ASSUME IInv, ReadUsage
  PROVE  IInv'
<1> DEFINE g == levels[at]
<1>1. /\ phase = "usage" /\ at \in DOMAIN levels
      /\ UNCHANGED <<groups, version, levels>> /\ text' = None
      /\ finite \subseteq finite' /\ skipped \subseteq skipped' /\ skipped' \subseteq Range(levels)
      /\ \/ phase' = "done" /\ status' \in {"ok", "unknown"} /\ at' = at
         \/ phase' = "limit" /\ status' = status /\ at' \in DOMAIN levels
  BY ReadUsageFacts
<1>2. \A h \in finite' : h \in finite \/
        /\ version = host.attached /\ g \in Finite
        /\ h = Left(g, usage[g])
  BY ReadUsageFacts
<1>3. \A m \in DOMAIN levels : Read(m)' => Read(m) \/
        /\ m = at
        /\ version = host.attached /\ g \in Finite /\ g \notin skipped' =>
             Left(g, usage[g]) \in finite'
  BY ReadUsageFacts
<1>4. /\ host' = host /\ limit' = limit /\ usage' = usage /\ most' = most /\ least' = least
      /\ Home' = Home /\ Finite' = Finite /\ (\A b : Down(b)' = Down(b)) /\ Visible' = Visible
      /\ MountedBelow' = MountedBelow
      /\ version' = version /\ levels' = levels
  BY <1>1, GroupsKept DEF groups
<1>5. g \in Finite => Left(g, usage[g]) \in Nat /\ least[g] =< Left(g, usage[g])
                      /\ Left(g, usage[g]) =< most[g]
  <2>1. g \in Finite => Left(g, usage[g]) \in Nat
    <3> SUFFICES ASSUME g \in Finite  PROVE Left(g, usage[g]) \in Nat  OBVIOUS
    <3>1. usage[g] \in 0 .. MaxUsage  BY DEF IInv, Types, Finite
    <3> QED BY <3>1, LeftIsNumber DEF IInv, Types
  <2> QED BY <2>1 DEF IInv, Between
<1>6. Types'
  <2>1. finite' \subseteq Nat  BY <1>2, <1>5 DEF IInv, Types
  <2>2. at' \in Nat
    <3>1. levels \in Seq(Seq(Name)) /\ at \in Nat  BY DEF IInv, Types
    <3> QED BY <1>1, <3>1
  <2>3. /\ phase' \in {"resolve", "limit", "usage", "done"}
        /\ status' \in {"ok", "unknown", "unavailable"}
    BY <1>1 DEF IInv, Types
  <2>4. skipped' \subseteq Range(levels')  BY <1>1, <1>4
  <2>5. /\ host \in Hosts /\ limit \in [Group -> Limit \cup {Unlimited}]
        /\ usage \in [Group -> 0 .. MaxUsage]
        /\ most \in [Group -> Nat] /\ least \in [Group -> Nat]
        /\ version \in Version \cup {None} /\ levels \in Seq(Seq(Name))
    BY DEF IInv, Types
  <2> QED BY <1>4, <2>1, <2>2, <2>3, <2>4, <2>5 DEF Types
<1>7. Path'
  <2>1. phase # "resolve" /\ status # "unavailable"  BY <1>1 DEF IInv, Walk
  <2> QED BY <1>4, <2>1 DEF IInv, Path, ControllerIsChosen
<1>8. Walk'
  <2>1. version' # None  BY <1>1, <1>4 DEF IInv, Walk
  <2>2. version' # host'.attached => finite' = {}
    BY <1>1, <1>2, <1>4 DEF IInv, Walk
  <2>3. phase' # "done" => status' = "unknown"  BY <1>1 DEF IInv, Walk
  <2> QED BY <1>1, <1>4, <2>1, <2>2, <2>3 DEF Walk
<1>9. Between'  BY <1>1, GroupsKept DEF IInv
<1>10. Answered'
  <2>1. ASSUME ~MountedBelow, NEW h \in finite'
        PROVE  \E a \in Finite \cap Ancestors(Home) : least[a] =< h /\ h =< most[a]
    <3>1. CASE h \in finite  BY <2>1, <3>1 DEF IInv, Answered
    <3>2. CASE version = host.attached /\ g \in Finite /\ h = Left(g, usage[g])
      <4>1. PICK b \in 0 .. Len(Home) : levels = Down(b)  BY <2>1, <3>2 DEF IInv, Path
      <4>2. g \in Ancestors(Home)  BY <1>1, <4>1, DownFacts DEF IInv, Types
      <4> QED BY <1>5, <3>2, <4>2
    <3> QED BY <1>2, <3>1, <3>2
  <2>2. ASSUME version = host.attached, NEW m \in DOMAIN levels,
               Read(m)', levels[m] \in Finite, levels[m] \notin skipped'
        PROVE  \E h \in finite' : h =< most[levels[m]]
    <3>1. CASE Read(m)  BY <1>1, <2>2, <3>1 DEF IInv, Answered
    <3>2. CASE m = at /\ Left(g, usage[g]) \in finite'  BY <1>5, <2>2, <3>2
    <3> QED BY <1>3, <2>2, <3>1, <3>2
  <2> QED BY <1>4, <2>1, <2>2 DEF Answered
<1> QED BY <1>6, <1>7, <1>8, <1>9, <1>10 DEF IInv

LEMMA UseStep ==
  ASSUME IInv, Use
  PROVE  IInv'
<1>1. PICK g \in Finite, u \in 0 .. MaxUsage :
        /\ usage' = [usage EXCEPT ![g] = u]
        /\ most' = [most EXCEPT ![g] = Max({most[g], Left(g, u)})]
        /\ least' = [least EXCEPT ![g] = Min({least[g], Left(g, u)})]
  BY DEF Use
<1>2. UNCHANGED <<host, limit, phase, version, levels, at, text, finite, skipped, status>>
  BY DEF Use
<1>3. /\ limit \in [Group -> Limit \cup {Unlimited}] /\ usage \in [Group -> 0 .. MaxUsage]
      /\ most \in [Group -> Nat] /\ least \in [Group -> Nat]
  BY DEF IInv, Types
<1>4. g \in Group /\ Left(g, u) \in Nat  BY <1>3, LeftIsNumber
<1> DEFINE hi == Max({most[g], Left(g, u)})
           lo == Min({least[g], Left(g, u)})
<1>5. /\ hi \in Nat /\ most[g] =< hi /\ Left(g, u) =< hi
      /\ lo \in Nat /\ lo =< least[g] /\ lo =< Left(g, u)
  BY <1>3, <1>4, Extremes
<1> HIDE DEF hi, lo
<1>6. /\ most' = [most EXCEPT ![g] = hi] /\ least' = [least EXCEPT ![g] = lo]
  BY <1>1 DEF hi, lo
<1>7. /\ usage' \in [Group -> 0 .. MaxUsage]
      /\ most' \in [Group -> Nat] /\ least' \in [Group -> Nat]
  BY <1>1, <1>3, <1>5, <1>6
<1>8. \A a \in Group : least'[a] =< least[a] /\ most[a] =< most'[a]
  <2> SUFFICES ASSUME NEW a \in Group  PROVE least'[a] =< least[a] /\ most[a] =< most'[a]
    OBVIOUS
  <2>1. CASE a = g  BY <1>3, <1>4, <1>5, <1>6, <2>1
  <2>2. CASE a # g  BY <1>3, <1>6, <2>2
  <2> QED BY <2>1, <2>2
<1>9. /\ Home' = Home /\ Finite' = Finite /\ (\A b : Down(b)' = Down(b)) /\ Visible' = Visible
      /\ MountedBelow' = MountedBelow
      /\ (\A a, n : Left(a, n)' = Left(a, n)) /\ \A m : Read(m)' = Read(m)
  BY <1>2 DEF Home, Finite, Down, Visible, MountedBelow, Left, Read
<1>10. Types'  BY <1>2, <1>7 DEF IInv, Types
<1>11. Path'  BY <1>2, <1>9 DEF IInv, Path, ControllerIsChosen
<1>12. Walk'  BY <1>2 DEF IInv, Walk, Texts
<1>13. Between'
  <2> SUFFICES ASSUME NEW a \in Finite
               PROVE  least'[a] =< Left(a, usage'[a]) /\ Left(a, usage'[a]) =< most'[a]
    BY <1>2, <1>9 DEF Between, Left
  <2>1. CASE a = g  BY <1>1, <1>3, <1>4, <1>5, <1>6, <2>1
  <2>2. CASE a # g
    <3>1. a \in Group  BY DEF Finite
    <3>2. usage'[a] = usage[a] /\ most'[a] = most[a] /\ least'[a] = least[a]
      BY <1>1, <1>3, <1>6, <2>2, <3>1
    <3> QED BY <3>2 DEF IInv, Between
  <2> QED BY <2>1, <2>2
<1>14. Answered'
  <2>1. ASSUME ~MountedBelow, NEW h \in finite
        PROVE  \E a \in Finite \cap Ancestors(Home) : least'[a] =< h /\ h =< most'[a]
    <3>1. PICK a \in Finite \cap Ancestors(Home) : least[a] =< h /\ h =< most[a]
      BY <2>1 DEF IInv, Answered
    <3>2. a \in Group /\ h \in Nat  BY DEF Finite, IInv, Types
    <3>3. least[a] \in Nat /\ most[a] \in Nat /\ least'[a] \in Nat /\ most'[a] \in Nat
      BY <1>3, <1>7, <3>2
    <3>4. least'[a] =< h /\ h =< most'[a]  BY <1>8, <3>1, <3>2, <3>3
    <3> QED BY <3>4
  <2>2. ASSUME version = host.attached, NEW m \in DOMAIN levels,
               Read(m), levels[m] \in Finite, levels[m] \notin skipped
        PROVE  \E h \in finite : h =< most'[levels[m]]
    <3>1. PICK h \in finite : h =< most[levels[m]]  BY <2>2 DEF IInv, Answered
    <3>2. levels[m] \in Group /\ h \in Nat  BY <2>2 DEF Finite, IInv, Types
    <3>3. most[levels[m]] \in Nat /\ most'[levels[m]] \in Nat  BY <1>3, <1>7, <3>2
    <3>4. h =< most'[levels[m]]  BY <1>8, <3>1, <3>2, <3>3
    <3> QED BY <3>4
  <2> QED BY <1>2, <1>9, <2>1, <2>2 DEF Answered
<1> QED BY <1>10, <1>11, <1>12, <1>13, <1>14 DEF IInv

\* Every step keeps the invariant.
LEMMA StepInv == IInv /\ [Next]_vars => IInv'
<1> SUFFICES ASSUME IInv, [Next]_vars  PROVE IInv'  OBVIOUS
<1>1. CASE Unreadable  BY <1>1, UnreadableStep
<1>2. CASE Resolve  BY <1>2, ResolveStep
<1>3. CASE ReadLimit  BY <1>3, ReadLimitStep
<1>4. CASE ReadUsage  BY <1>4, ReadUsageStep
<1>5. CASE Use  BY <1>5, UseStep
<1>6. CASE UNCHANGED vars
  <2>1. UNCHANGED <<host, limit, usage, most, least, phase, version, levels, at, text,
                    finite, skipped, status>>
    BY <1>6 DEF vars, groups
  <2>2. UNCHANGED groups  BY <1>6 DEF vars
  <2>3. /\ Home' = Home /\ Finite' = Finite /\ (\A b : Down(b)' = Down(b)) /\ Visible' = Visible
      /\ MountedBelow' = MountedBelow
        /\ \A m : Read(m)' = Read(m)
    BY <2>1, <2>2, GroupsKept DEF Read
  <2>4. Types'  BY <2>1 DEF IInv, Types
  <2>5. Path'  BY <2>1, <2>3 DEF IInv, Path, ControllerIsChosen
  <2>6. Walk'  BY <2>1 DEF IInv, Walk, Texts
  <2>7. Between'  BY <2>2, GroupsKept DEF IInv
  <2>8. Answered'  BY <2>1, <2>3 DEF IInv, Answered
  <2> QED BY <2>4, <2>5, <2>6, <2>7, <2>8 DEF IInv
<1> QED BY <1>1, <1>2, <1>3, <1>4, <1>5, <1>6 DEF Next

-----------------------------------------------------------------------------
(* The theorems.                                                           *)

\* The invariant holds in every behaviour of the probe.
THEOREM Invariant == Spec => []IInv
<1>1. Init => IInv  BY InitInv
<1>2. IInv /\ [Next]_vars => IInv'  BY StepInv
<1> QED BY <1>1, <1>2, PTL DEF Spec

\* A level is being read exactly when a context was resolved and levels remain:
\* the loop of _cgroup_memory_from_hierarchy never leaves its levels.
THEOREM TypeCorrect == Spec => []TypeOK
<1>1. IInv => TypeOK  BY DEF IInv, Types, Walk, TypeOK
<1> QED BY <1>1, Invariant, PTL

\* The levels that are read in the controller's hierarchy are the process's own
\* group and those above it up to the mounted directory, for every namespace and
\* every list of mounts in which line 184 of doctor.py cannot take a mount of a
\* group below for the process's own (MountedBelow): _resolve_cgroup_context and
\* the walk over relative_parts.
THEOREM LevelsAreGoverning == Spec => []LevelsGovern
<1>1. IInv => LevelsGovern
  <2> SUFFICES ASSUME IInv, version = host.attached, ~MountedBelow  PROVE LevelsGovern
    BY DEF LevelsGovern
  <2>1. PICK b \in 0 .. Len(Home) : levels = Down(b)  BY DEF IInv, Path
  <2>2. levels[1] \in Ancestors(Home) /\ Range(levels) = {g \in Ancestors(Home) : IsPrefix(levels[1], g)}
    BY <2>1, DownFacts DEF IInv, Types
  <2> QED BY <2>2 DEF LevelsGovern
<1> QED BY <1>1, Invariant, PTL

\* The hierarchy the memory controller is attached to is the one that is read
\* when a mount shows the process's group in it: the order of the candidates in
\* _resolve_cgroup_context.
THEOREM ControllerFirst == Spec => []ControllerIsChosen
<1>1. IInv => ControllerIsChosen  BY DEF IInv, Path
<1> QED BY <1>1, Invariant, PTL

\* The reported headroom overstates no limit on the way to the mounted
\* directory that showed one of its files, although usage moves between the reads
\* of _cgroup_memory_from_hierarchy (mounts as in LevelsAreGoverning).
THEOREM NeverOverstated == Spec => []NoLevelOverstated
<1>1. IInv => NoLevelOverstated
  <2> SUFFICES ASSUME IInv, phase = "done", status = "ok", version = host.attached,
                      ~MountedBelow, NEW g \in Finite \cap Ancestors(Home),
                      IsPrefix(levels[1], g), g \notin skipped
               PROVE  finite # {} /\ Available =< most[g]
    BY DEF NoLevelOverstated
  <2>1. PICK b \in 0 .. Len(Home) : levels = Down(b)  BY DEF IInv, Path
  <2>2. g \in Range(levels)  BY <2>1, DownFacts DEF IInv, Types
  <2>3. PICK m \in DOMAIN levels : levels[m] = g  BY <2>2 DEF Range
  <2>4. PICK h \in finite : h =< most[g]  BY <2>3 DEF IInv, Answered, Read
  <2>5. Available \in finite /\ Available =< h
    BY LeastMember DEF IInv, Types, Available
  <2>6. Available \in Nat /\ h \in Nat /\ most[g] \in Nat
    BY <2>5 DEF IInv, Types, Finite
  <2> QED BY <2>4, <2>5, <2>6
<1> QED BY <1>1, Invariant, PTL

\* A reported headroom lies between the extremes of a group that constrains the
\* process: no pair of a stale limit and a later usage makes one up (mounts as in
\* LevelsAreGoverning).
THEOREM NeverInvented == Spec => []AvailableIsReal
<1>1. IInv => AvailableIsReal
  <2> SUFFICES ASSUME IInv, finite # {}, ~MountedBelow
               PROVE  \E g \in Finite \cap Ancestors(Home) :
                        least[g] =< Available /\ Available =< most[g]
    BY DEF AvailableIsReal
  <2>1. Available \in finite  BY LeastMember DEF IInv, Types, Available
  <2> QED BY <2>1 DEF IInv, Answered
<1> QED BY <1>1, Invariant, PTL

=============================================================================
