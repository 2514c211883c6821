---------------------------- MODULE Forests_proofs ----------------------------
(***************************************************************************)
(* The operators of Forests: what is below what, after folders were cut off*)
(* or moved, and paths, for any folders and names.                         *)
(***************************************************************************)
EXTENDS Forests, FiniteSetTheorems, WellFoundedInduction, TLAPS

-----------------------------------------------------------------------------
(* Induction, on a set of numbers.                                         *)

LEMMA Smallest ==
  ASSUME NEW S \in SUBSET Nat, S # {}
  PROVE  \E m \in S : \A n \in S : m <= n
  <1> DEFINE R == {p \in Nat \X Nat : p[1] < p[2]}
  <1>1. IsWellFoundedOn(R, Nat)
    BY NatLessThanWellFounded DEF OpToRel
  <1>2. PICK m \in S : \A n \in S : <<n, m>> \notin R
    BY <1>1, WFMin
  <1>3. \A x, y \in Nat : x < y => <<x, y>> \in R
    OBVIOUS
  <1> HIDE DEF R
  <1>4. m \in Nat /\ \A n \in S : n \in Nat /\ ~(n < m)
    BY <1>2, <1>3
  <1> QED BY <1>4

LEMMA Induction ==
  ASSUME NEW S, 0 \in S, \A n \in Nat : n \in S => n + 1 \in S
  PROVE  Nat \subseteq S
  <1> SUFFICES ASSUME NEW x \in Nat \ S PROVE FALSE
    OBVIOUS
  <1>1. PICK m \in Nat \ S : \A n \in Nat \ S : m <= n
    BY Smallest
  <1>2. m # 0 /\ m - 1 \in Nat /\ m - 1 \notin Nat \ S
    BY <1>1
  <1> QED BY <1>2

-----------------------------------------------------------------------------
(* Below.                                                                  *)

(* The recursion of Below has a solution: the least set that is closed.    *)
LEMMA BelowExists ==
  ASSUME NEW D, NEW up, DOMAIN up = D, NEW x
  PROVE  \E f : f = [y \in D |-> up[y] = x \/ (up[y] \in D /\ f[up[y]])]
  <1> DEFINE Closed(S) == \A y \in D : up[y] = x \/ up[y] \in S => y \in S
             B == {y \in D : \A S \in SUBSET D : Closed(S) => y \in S}
             f == [y \in D |-> y \in B]
  <1>1. \A y \in D : up[y] = x \/ up[y] \in B => y \in B
    OBVIOUS
  <1>2. ASSUME NEW y \in D, y \in B PROVE up[y] = x \/ up[y] \in B
    <2> SUFFICES ASSUME ~(up[y] = x \/ up[y] \in B) PROVE FALSE
      OBVIOUS
    <2> DEFINE S == B \ {y}
    <2>1. ASSUME NEW z \in D, up[z] = x \/ up[z] \in S PROVE z \in S
      BY <2>1, <1>1
    <2>2. Closed(S) /\ S \in SUBSET D
      BY <2>1
    <2> QED BY <2>2, <1>2
  <1>3. ASSUME NEW y \in D
        PROVE  f[y] = (up[y] = x \/ (up[y] \in D /\ f[up[y]]))
    <2>1. up[y] \in D => f[up[y]] = (up[y] \in B)
      OBVIOUS
    <2>2. up[y] \in B => up[y] \in D
      OBVIOUS
    <2>3. f[y] = (y \in B)
      OBVIOUS
    <2>4. y \in B <=> (up[y] = x \/ (up[y] \in D /\ f[up[y]]))
      <3> HIDE DEF B, f
      <3> QED BY <2>1, <2>2, <1>1, <1>2
    <2> HIDE DEF B, f
    <2> QED BY <2>3, <2>4
  <1> DEFINE g == [y \in D |-> up[y] = x \/ (up[y] \in D /\ f[up[y]])]
  <1>4. \A y \in D : f[y] = g[y]
    BY <1>3
  <1>5. f = [y \in D |-> f[y]] /\ g = [y \in D |-> g[y]]
    OBVIOUS
  <1>6. f = g
    <2> HIDE DEF f, g
    <2> QED BY <1>4, <1>5
  <1> QED BY <1>6

(* What is in x, or in what is below x, is below x, and nothing else.      *)
LEMMA BelowIs ==
  ASSUME NEW up, NEW x
  PROVE  /\ Below(up, x) \subseteq DOMAIN up
         /\ \A y \in DOMAIN up : y \in Below(up, x) <=> up[y] = x \/ up[y] \in Below(up, x)
  <1> DEFINE D == DOMAIN up
             f == CHOOSE f : f = [y \in D |-> up[y] = x \/ (up[y] \in D /\ f[up[y]])]
  <1>1. f = [y \in D |-> up[y] = x \/ (up[y] \in D /\ f[up[y]])]
    BY BelowExists
  <1>2. Below(up, x) = {y \in D : f[y]}
    BY DEF Below
  <1> HIDE DEF f
  <1>3. ASSUME NEW y \in D PROVE f[y] = (up[y] = x \/ (up[y] \in D /\ f[up[y]]))
    BY <1>1
  <1> QED BY <1>2, <1>3

(* Cutting things off leaves a forest, with less below.                    *)
LEMMA ForestCut ==
  ASSUME NEW up, Forest(up), NEW cut, DOMAIN cut = DOMAIN up, Nowhere \notin DOMAIN up,
         \A y \in DOMAIN up : cut[y] = up[y] \/ cut[y] = Nowhere
  PROVE  /\ Forest(cut)
         /\ \A x : x # Nowhere => Below(cut, x) \subseteq Below(up, x)
  <1>1. Forest(cut)
    <2> SUFFICES ASSUME NEW S \in SUBSET DOMAIN up, S # {} PROVE \E x \in S : cut[x] \notin S
      BY DEF Forest
    <2>1. PICK x \in S : up[x] \notin S
      BY DEF Forest
    <2>2. cut[x] \notin S
      BY <2>1
    <2> QED BY <2>2
  <1>2. ASSUME NEW x, x # Nowhere PROVE Below(cut, x) \subseteq Below(up, x)
    <2> DEFINE Bad == Below(cut, x) \ Below(up, x)
    <2> SUFFICES ASSUME Bad # {} PROVE FALSE
      OBVIOUS
    <2>1. Bad \in SUBSET DOMAIN up
      BY BelowIs
    <2>2. PICK z \in Bad : up[z] \notin Bad
      BY <2>1 DEF Forest
    <2>3. z \in DOMAIN up /\ z \in Below(cut, x) /\ z \notin Below(up, x)
      BY <2>1, <2>2
    <2>4. cut[z] = x \/ cut[z] \in Below(cut, x)
      BY <2>3, BelowIs
    <2>5. cut[z] = up[z]
      BY <1>2, <2>3, <2>4, BelowIs
    <2> QED BY <2>2, <2>3, <2>4, <2>5, BelowIs
  <1> QED BY <1>1, <1>2

(* What is below something that is below r is below r.                     *)
LEMMA BelowBelow ==
  ASSUME NEW up, Forest(up), NEW r, NEW x \in Below(up, r)
  PROVE  Below(up, x) \subseteq Below(up, r)
  <1> DEFINE Bad == Below(up, x) \ Below(up, r)
  <1> SUFFICES ASSUME Bad # {} PROVE FALSE
    OBVIOUS
  <1>1. Bad \in SUBSET DOMAIN up
    BY BelowIs
  <1>2. PICK z \in Bad : up[z] \notin Bad
    BY <1>1 DEF Forest
  <1>3. z \in DOMAIN up /\ (up[z] = x \/ up[z] \in Below(up, x)) /\ z \notin Below(up, r)
    BY <1>1, <1>2, BelowIs
  <1> QED BY <1>2, <1>3, BelowIs

(* A change of the parent of x is of no consequence outside x.             *)
LEMMA BelowOutside ==
  ASSUME NEW up, Forest(up), NEW vp, DOMAIN vp = DOMAIN up, NEW x,
         \A y \in DOMAIN up \ {x} : vp[y] = up[y],
         NEW r, NEW y \in DOMAIN up, y # x, y \notin Below(up, x)
  PROVE  y \in Below(up, r) <=> y \in Below(vp, r)
  <1> DEFINE Bad == {z \in DOMAIN up : /\ z # x /\ z \notin Below(up, x)
                                       /\ ~(z \in Below(up, r) <=> z \in Below(vp, r))}
  <1> SUFFICES ASSUME Bad # {} PROVE FALSE
    OBVIOUS
  <1>1. PICK z \in Bad : up[z] \notin Bad
    BY DEF Forest
  <1>2. z \in DOMAIN up /\ up[z] = vp[z] /\ up[z] # x /\ up[z] \notin Below(up, x)
    BY <1>1, BelowIs
  <1>3. z \in Below(up, r) <=> up[z] = r \/ up[z] \in Below(up, r)
    BY <1>2, BelowIs
  <1>4. z \in Below(vp, r) <=> up[z] = r \/ up[z] \in Below(vp, r)
    BY <1>2, BelowIs
  <1>5. up[z] \in Below(up, r) <=> up[z] \in Below(vp, r)
    BY <1>1, <1>2, BelowIs
  <1> QED BY <1>1, <1>3, <1>4, <1>5

(* To move x to what is not in x leaves a forest, and, within r, the same  *)
(* below r.                                                                *)
LEMMA ForestMove ==
  ASSUME NEW up, Forest(up), NEW vp, DOMAIN vp = DOMAIN up, NEW x \in DOMAIN up,
         \A y \in DOMAIN up \ {x} : vp[y] = up[y],
         vp[x] # x, vp[x] \notin Below(up, x)
  PROVE  /\ Forest(vp)
         /\ \A r : x \in Below(up, r) /\ (vp[x] = r \/ vp[x] \in Below(up, r))
                     => Below(vp, r) = Below(up, r)
  <1>1. Forest(vp)
    <2> SUFFICES ASSUME NEW S \in SUBSET DOMAIN up, S # {} PROVE \E z \in S : vp[z] \notin S
      BY DEF Forest
    <2> DEFINE T == {z \in S : z # x /\ z \notin Below(up, x)}
    <2>1. CASE T # {}
      <3>1. PICK z \in T : up[z] \notin T
        BY <2>1 DEF Forest
      <3>2. up[z] # x /\ up[z] \notin Below(up, x) /\ vp[z] = up[z]
        BY <3>1, BelowIs
      <3> QED BY <3>1, <3>2
    <2>2. CASE T = {}
      <3>1. CASE x \in S
        BY <2>2, <3>1
      <3>2. CASE x \notin S
        BY <3>2 DEF Forest
      <3> QED BY <3>1, <3>2
    <2> QED BY <2>1, <2>2
  <1>2. ASSUME NEW r, x \in Below(up, r), vp[x] = r \/ vp[x] \in Below(up, r)
        PROVE  Below(vp, r) = Below(up, r)
    <2>1. \A y \in DOMAIN up : y # x /\ y \notin Below(up, x)
                                 => (y \in Below(up, r) <=> y \in Below(vp, r))
      BY BelowOutside
    <2>2. x \in Below(vp, r)
      BY <1>2, <2>1, BelowIs
    <2>3. \A y \in Below(up, x) : y \in Below(up, r)
      BY <1>2, BelowBelow
    <2>4. Below(up, x) \subseteq Below(vp, r)
      <3> DEFINE Bad == Below(up, x) \ Below(vp, r)
      <3> SUFFICES ASSUME Bad # {} PROVE FALSE
        OBVIOUS
      <3>1. Bad \in SUBSET DOMAIN up
        BY BelowIs
      <3>2. PICK z \in Bad : up[z] \notin Bad
        BY <3>1 DEF Forest
      <3>3. z \in DOMAIN up /\ (up[z] = x \/ up[z] \in Below(up, x)) /\ z \notin Below(vp, r)
        BY <3>1, <3>2, BelowIs
      <3>4. z # x
        BY <2>2, <3>3
      <3> QED BY <2>2, <3>2, <3>3, <3>4, BelowIs
    <2> QED BY <1>2, <2>1, <2>2, <2>3, <2>4, BelowIs
  <1> QED BY <1>1, <1>2

-----------------------------------------------------------------------------
(* Paths.                                                                  *)

(* The recursion of Paths has a solution: those on sets of folders that    *)
(* have all they are in agree with each other, and each folder is in one.  *)
LEMMA PathsExist ==
  ASSUME NEW up, Forest(up), NEW names
  PROVE  \E p : p = [y \in Below(up, Root) \cup {Root} |->
                       IF y = Root THEN <<>> ELSE Append(p[up[y]], names[y])]
  <1> DEFINE D == Below(up, Root) \cup {Root}
             Solves(p, A) == \A y \in A : /\ y # Root => up[y] \in A
                                          /\ p[y] = IF y = Root THEN <<>>
                                                    ELSE Append(p[up[y]], names[y])
             Of(y, p) == \E A \in SUBSET D : y \in A /\ Solves(p, A)
  <1>1. \A y \in D : y # Root => y \in DOMAIN up /\ up[y] \in D
    BY BelowIs
  <1>2. ASSUME NEW y \in D PROVE \E p : Of(y, p)
    <2> DEFINE Bad == {z \in D : ~\E p : Of(z, p)}
    <2> SUFFICES ASSUME Bad # {} PROVE FALSE
      OBVIOUS
    <2>1. Root \notin Bad
      <3> DEFINE p == [z \in {Root} |-> <<>>]
      <3>1. Solves(p, {Root}) /\ {Root} \in SUBSET D
        OBVIOUS
      <3>2. Of(Root, p)
        BY <3>1
      <3> HIDE DEF p, Of
      <3> QED BY <3>2
    <2>2. Bad \in SUBSET DOMAIN up
      BY <1>1, <2>1
    <2>3. PICK z \in Bad : up[z] \notin Bad
      BY <2>2 DEF Forest
    <2>4. z \in D /\ z # Root /\ up[z] \in D /\ up[z] \notin Bad
      BY <1>1, <2>1, <2>3
    <2>0. PICK p : Of(up[z], p)
      BY <2>4
    <2>5. PICK A \in SUBSET D : up[z] \in A /\ Solves(p, A)
      BY <2>0
    <2>6. z \notin A
      <3> SUFFICES ASSUME z \in A PROVE FALSE
        OBVIOUS
      <3>1. Of(z, p)
        BY <2>5
      <3> QED BY <2>3, <3>1
    <2> DEFINE q == [w \in A \cup {z} |-> IF w = z THEN Append(p[up[z]], names[z]) ELSE p[w]]
    <2>7. Solves(q, A \cup {z})
      <3> SUFFICES ASSUME NEW w \in A \cup {z}
                   PROVE  /\ w # Root => up[w] \in A \cup {z}
                          /\ q[w] = IF w = Root THEN <<>> ELSE Append(q[up[w]], names[w])
        OBVIOUS
      <3>1. CASE w = z
        <4>1. q[z] = Append(p[up[z]], names[z]) /\ q[up[z]] = p[up[z]]
          BY <2>5, <2>6
        <4> HIDE DEF q
        <4> QED BY <2>4, <2>5, <3>1, <4>1
      <3>2. CASE w # z
        <4>1. w \in A /\ q[w] = p[w]
          BY <3>2
        <4>2. w # Root => up[w] \in A /\ up[w] # z /\ q[up[w]] = p[up[w]]
          BY <2>5, <2>6, <4>1
        <4>3. p[w] = IF w = Root THEN <<>> ELSE Append(p[up[w]], names[w])
          BY <2>5, <4>1
        <4> HIDE DEF q
        <4> QED BY <4>1, <4>2, <4>3
      <3> QED BY <3>1, <3>2
    <2>8. A \cup {z} \in SUBSET D
      BY <2>4
    <2>9. Of(z, q)
      <3> HIDE DEF q, D, Solves
      <3> QED BY <2>7, <2>8
    <2> HIDE DEF q, Of
    <2> QED BY <2>3, <2>9
  <1>3. ASSUME NEW p, NEW A \in SUBSET D, Solves(p, A),
               NEW q, NEW B \in SUBSET D, Solves(q, B), NEW y \in A \cap B
        PROVE  p[y] = q[y]
    <2> DEFINE Bad == {z \in A \cap B : p[z] # q[z]}
    <2> SUFFICES ASSUME Bad # {} PROVE FALSE
      OBVIOUS
    <2>1. Root \notin Bad
      BY <1>3
    <2>2. Bad \in SUBSET DOMAIN up
      BY <1>1, <2>1
    <2>3. PICK z \in Bad : up[z] \notin Bad
      BY <2>2 DEF Forest
    <2>4. z # Root /\ up[z] \in A \cap B /\ p[up[z]] = q[up[z]]
      BY <1>3, <2>1, <2>3
    <2>5. p[z] = Append(p[up[z]], names[z]) /\ q[z] = Append(q[up[z]], names[z])
      BY <1>3, <2>3, <2>4
    <2> QED BY <2>3, <2>4, <2>5
  <1> DEFINE one(y) == CHOOSE p : Of(y, p)
             f == [y \in D |-> one(y)[y]]
  <1>4. ASSUME NEW y \in D
        PROVE  f[y] = IF y = Root THEN <<>> ELSE Append(f[up[y]], names[y])
    <2>1. f[y] = one(y)[y] /\ (y # Root => f[up[y]] = one(up[y])[up[y]])
      BY <1>1
    <2>2. Of(y, one(y)) /\ (y # Root => Of(up[y], one(up[y])))
      <3> HIDE DEF Of
      <3> QED BY <1>1, <1>2
    <2> HIDE DEF f, one
    <2>3. PICK A \in SUBSET D : y \in A /\ Solves(one(y), A)
      BY <2>2
    <2>4. CASE y = Root
      BY <2>1, <2>3, <2>4
    <2>5. CASE y # Root
      <3>1. PICK B \in SUBSET D : up[y] \in B /\ Solves(one(up[y]), B)
        BY <2>2, <2>5
      <3>2. up[y] \in A /\ one(y)[y] = Append(one(y)[up[y]], names[y])
        BY <2>3, <2>5
      <3>3. one(y)[up[y]] = one(up[y])[up[y]]
        <4> HIDE DEF Solves, D
        <4> QED BY <1>3, <2>3, <3>1, <3>2
      <3> QED BY <2>1, <2>5, <3>2, <3>3
    <2> QED BY <2>4, <2>5
  <1> DEFINE g == [y \in D |-> IF y = Root THEN <<>> ELSE Append(f[up[y]], names[y])]
  <1>5. f = [y \in D |-> f[y]] /\ g = [y \in D |-> g[y]]
    OBVIOUS
  <1>6. \A y \in D : f[y] = g[y]
    <2>1. \A y \in D : g[y] = IF y = Root THEN <<>> ELSE Append(f[up[y]], names[y])
      OBVIOUS
    <2> HIDE DEF f, g
    <2> QED BY <1>4, <2>1
  <1>7. f = g
    <2> HIDE DEF f, g
    <2> QED BY <1>5, <1>6
  <1> HIDE DEF f
  <1> QED BY <1>7

(* A path is that of the folder above, and the name.                       *)
LEMMA PathsAre ==
  ASSUME NEW up, Forest(up), NEW names
  PROVE  /\ Paths(up, names)[Root] = <<>>
         /\ \A y \in Below(up, Root) \ {Root} :
              /\ up[y] \in Below(up, Root) \cup {Root}
              /\ Paths(up, names)[y] = Append(Paths(up, names)[up[y]], names[y])
  <1> DEFINE D == Below(up, Root) \cup {Root}
             f == CHOOSE f : f = [y \in D |-> IF y = Root THEN <<>>
                                              ELSE Append(f[up[y]], names[y])]
  <1>1. f = [y \in D |-> IF y = Root THEN <<>> ELSE Append(f[up[y]], names[y])]
    <2>1. \E g : g = [y \in D |-> IF y = Root THEN <<>> ELSE Append(g[up[y]], names[y])]
      BY PathsExist
    <2> HIDE DEF D
    <2> QED BY <2>1
  <1>2. Paths(up, names) = f
    BY DEF Paths
  <1> HIDE DEF f
  <1>3. ASSUME NEW y \in D PROVE f[y] = IF y = Root THEN <<>> ELSE Append(f[up[y]], names[y])
    BY <1>1
  <1> QED BY <1>2, <1>3, BelowIs

(* To append: the result is a path, and shows what was appended to what.   *)
LEMMA Appended ==
  ASSUME NEW S, NEW s \in Seq(S), NEW a \in S
  PROVE  /\ Append(s, a) \in Seq(S) /\ Append(s, a) # <<>>
         /\ Front(Append(s, a)) = s /\ Last(Append(s, a)) = a
  <1>1. Append(s, a) \in Seq(S) /\ Len(Append(s, a)) = Len(s) + 1
    OBVIOUS
  <1>2. SubSeq(Append(s, a), 1, Len(s)) = s /\ Append(s, a)[Len(s) + 1] = a
    OBVIOUS
  <1> QED BY <1>1, <1>2 DEF Front, Last

(* The paths of folders that have different names when they are in the     *)
(* same folder are different.                                              *)
LEMMA PathsDiffer ==
  ASSUME NEW up, Forest(up), NEW names, NEW Names, NEW S, Root \notin S,
         \A y \in S : y \in DOMAIN up /\ up[y] \in S \cup {Root} /\ names[y] \in Names
  PROVE  /\ S \subseteq Below(up, Root)
         /\ \A y \in S \cup {Root} : Paths(up, names)[y] \in Seq(Names)
         /\ \A y \in S : Paths(up, names)[y] # <<>>
         /\ (\A x, y \in S : up[x] = up[y] /\ names[x] = names[y] => x = y)
               => \A x, y \in S \cup {Root} :
                    Paths(up, names)[x] = Paths(up, names)[y] => x = y
  <1> DEFINE p == Paths(up, names)
  <1>1. S \subseteq Below(up, Root)
    <2> SUFFICES ASSUME S \ Below(up, Root) # {} PROVE FALSE
      OBVIOUS
    <2>1. PICK z \in S \ Below(up, Root) : up[z] \notin S \ Below(up, Root)
      BY DEF Forest
    <2> QED BY <2>1, BelowIs
  <1>2. p[Root] = <<>> /\ \A y \in S : p[y] = Append(p[up[y]], names[y])
    BY <1>1, PathsAre
  <1> HIDE DEF p
  <1>3. \A y \in S \cup {Root} : p[y] \in Seq(Names)
    <2> DEFINE Bad == {y \in S : p[y] \notin Seq(Names)}
    <2>1. CASE Bad # {}
      <3>1. PICK z \in Bad : up[z] \notin Bad
        BY <2>1 DEF Forest
      <3>2. p[up[z]] \in Seq(Names) /\ names[z] \in Names
        BY <1>2, <3>1
      <3>3. p[z] = Append(p[up[z]], names[z])
        BY <1>2, <3>1
      <3>4. p[z] \in Seq(Names)
        BY <3>2, <3>3, Appended
      <3> QED BY <3>1, <3>4
    <2>2. CASE Bad = {}
      <3>1. <<>> \in Seq(Names)
        OBVIOUS
      <3> QED BY <1>2, <2>2, <3>1
    <2> QED BY <2>1, <2>2
  <1>4. \A y \in S : p[y] # <<>>
    BY <1>2, <1>3, Appended
  <1>5. ASSUME \A x, y \in S : up[x] = up[y] /\ names[x] = names[y] => x = y,
               NEW x \in S \cup {Root}, NEW y \in S \cup {Root}, p[x] = p[y]
        PROVE  x = y
    <2> DEFINE Bad == {v \in S : \E w \in S : v # w /\ p[v] = p[w]}
    <2>1. CASE Bad # {}
      <3>1. PICK v \in Bad : up[v] \notin Bad
        BY <2>1 DEF Forest
      <3>2. PICK w \in S : v # w /\ p[v] = p[w]
        BY <3>1
      <3>3. /\ p[up[v]] \in Seq(Names) /\ p[up[w]] \in Seq(Names)
            /\ names[v] \in Names /\ names[w] \in Names
        BY <1>3, <3>1, <3>2
      <3>4. p[up[v]] = p[up[w]] /\ names[v] = names[w]
        <4>1. Append(p[up[v]], names[v]) = Append(p[up[w]], names[w])
          BY <1>2, <3>1, <3>2
        <4>2. /\ Front(Append(p[up[v]], names[v])) = p[up[v]]
              /\ Last(Append(p[up[v]], names[v])) = names[v]
          BY <3>3, Appended
        <4>3. /\ Front(Append(p[up[w]], names[w])) = p[up[w]]
              /\ Last(Append(p[up[w]], names[w])) = names[w]
          BY <3>3, Appended
        <4> QED BY <4>1, <4>2, <4>3
      <3>5. up[v] = up[w]
        <4>1. CASE up[v] \in S /\ up[w] \in S
          BY <3>1, <3>4, <4>1
        <4>2. CASE up[v] = Root \/ up[w] = Root
          BY <1>2, <1>4, <3>1, <3>2, <3>4, <4>2
        <4> QED BY <3>1, <3>2, <4>1, <4>2
      <3> QED BY <1>5, <3>1, <3>2, <3>4, <3>5
    <2>2. CASE Bad = {}
      BY <1>2, <1>4, <1>5, <2>2
    <2> QED BY <2>1, <2>2
  <1> QED BY <1>1, <1>3, <1>4, <1>5 DEF p

(* Where two drives agree from the root down, so do the paths.             *)
LEMMA PathsAgree ==
  ASSUME NEW up, Forest(up), NEW names, NEW vp, Forest(vp), NEW labels, NEW S, Root \notin S,
         \A y \in S : /\ y \in DOMAIN up /\ y \in DOMAIN vp
                      /\ up[y] = vp[y] /\ names[y] = labels[y] /\ up[y] \in S \cup {Root}
  PROVE  /\ S \subseteq Below(up, Root) /\ S \subseteq Below(vp, Root)
         /\ \A y \in S \cup {Root} : Paths(up, names)[y] = Paths(vp, labels)[y]
  <1>1. S \subseteq Below(up, Root) /\ S \subseteq Below(vp, Root)
    <2> DEFINE Bad == {y \in S : ~(y \in Below(up, Root) /\ y \in Below(vp, Root))}
    <2> SUFFICES ASSUME Bad # {} PROVE FALSE
      OBVIOUS
    <2>1. PICK z \in Bad : up[z] \notin Bad
      BY DEF Forest
    <2> QED BY <2>1, BelowIs
  <1> DEFINE p == Paths(up, names)
             q == Paths(vp, labels)
  <1>2. p[Root] = <<>> /\ \A y \in S : p[y] = Append(p[up[y]], names[y])
    BY <1>1, PathsAre
  <1>3. q[Root] = <<>> /\ \A y \in S : q[y] = Append(q[up[y]], names[y])
    BY <1>1, PathsAre
  <1> HIDE DEF p, q
  <1>4. ASSUME NEW x \in S \cup {Root}, p[x] # q[x] PROVE FALSE
    <2> DEFINE Bad == {y \in S : p[y] # q[y]}
    <2>1. Bad # {}
      BY <1>2, <1>3, <1>4
    <2>2. PICK z \in Bad : up[z] \notin Bad
      BY <2>1 DEF Forest
    <2>3. p[up[z]] = q[up[z]]
      BY <1>2, <1>3, <2>2
    <2>4. p[z] = Append(p[up[z]], names[z]) /\ q[z] = Append(q[up[z]], names[z])
      BY <1>2, <1>3, <2>2
    <2> QED BY <2>2, <2>3, <2>4
  <1> QED BY <1>1, <1>4 DEF p, q
===============================================================================
