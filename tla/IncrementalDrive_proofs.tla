------------------------ MODULE IncrementalDrive_proofs ------------------------
(***************************************************************************)
(* The tree of a drive backup follows the drive, the previous paths that a *)
(* backup leaves to the next one are those of the drive, and what a backup *)
(* stores is the drive.                                                    *)
(***************************************************************************)
EXTENDS IncrementalDrive, DriveTree_proofs

-----------------------------------------------------------------------------
(* The drive, of which h is home, n is name and b is bin.                  *)

(* Names are unique among what is not in the bin, there or not: what comes *)
(* back with a folder comes back as it was.                                *)
GoodDrive(h, n, b) ==
  /\ h \in [Things -> Dirs \cup {Nowhere}]
  /\ n \in [Folders -> Names \cup {Nowhere}]
  /\ b \subseteq Things
  /\ Forest(h)
  /\ \A x \in Things : h[x] \in Folders => h[h[x]] # Nowhere
  /\ \A x \in b : h[x] # Nowhere
  /\ \A x \in Folders : h[x] # Nowhere => n[x] \in Names
  /\ \A x, y \in Folders \ b : h[x] = h[y] /\ h[x] # Nowhere /\ n[x] = n[y] => x = y

Cut(h, b) == [x \in Things |-> IF x \in b THEN Nowhere ELSE h[x]]

Present(h, b) == Below(Cut(h, b), Root)

LEMMA ExistingIsPresent ==
  /\ Existing = Present(home, bin) /\ Existing' = Present(home', bin')
  /\ Parents = Cut(home, bin) /\ Parents' = Cut(home', bin')
  BY DEF Existing, Present, Cut, Parents

(* What is there is not in the bin, and is in a folder that is there.      *)
LEMMA PresentIs ==
  ASSUME NEW h, NEW n, NEW b, GoodDrive(h, n, b)
  PROVE  /\ DOMAIN Cut(h, b) = Things /\ Forest(Cut(h, b))
         /\ Present(h, b) \subseteq Things
         /\ \A x \in Present(h, b) : /\ x \notin b
                                     /\ Cut(h, b)[x] = h[x]
                                     /\ h[x] \in (Present(h, b) \cap Folders) \cup {Root}
         /\ \A x \in Things \ b : h[x] \in Present(h, b) \cup {Root} => x \in Present(h, b)
         /\ \A x : x # Nowhere => Below(Cut(h, b), x) \subseteq Below(h, x)
  <1> DEFINE c == Cut(h, b)
  <1>1. /\ DOMAIN c = Things /\ DOMAIN h = Things /\ Nowhere \notin Things /\ Root \notin Things
        /\ Forest(h)
        /\ \A x \in Things : c[x] = IF x \in b THEN Nowhere ELSE h[x]
    BY IDAssumption DEF GoodDrive, Cut, Things
  <1> HIDE DEF c
  <1>2. Forest(c) /\ \A x : x # Nowhere => Below(c, x) \subseteq Below(h, x)
    BY <1>1, ForestCut
  <1>3. Below(c, Root) \subseteq Things
    BY <1>1, BelowIs
  <1>4. ASSUME NEW x \in Below(c, Root)
        PROVE  x \notin b /\ c[x] = h[x] /\ h[x] \in (Below(c, Root) \cap Folders) \cup {Root}
    <2>1. c[x] = Root \/ c[x] \in Below(c, Root)
      BY <1>1, <1>3, BelowIs
    <2>2. c[x] # Nowhere
      BY <1>1, <1>3, <2>1, IDAssumption
    <2>3. c[x] = h[x] /\ x \notin b
      BY <1>1, <1>3, <2>2
    <2>4. h[x] \in Dirs \cup {Nowhere}
      BY <1>3 DEF GoodDrive
    <2> QED BY <2>1, <2>2, <2>3, <2>4 DEF Dirs
  <1>5. ASSUME NEW x \in Things \ b, h[x] \in Below(c, Root) \cup {Root}
        PROVE  x \in Below(c, Root)
    BY <1>1, <1>5, BelowIs
  <1> QED BY <1>1, <1>2, <1>3, <1>4, <1>5 DEF c, Present

(* x, new or moved, is put into p, which is there and not in x; m is the   *)
(* names then.                                                             *)
Put(h, n, b, x, p, m) ==
  /\ x \in Things \ b
  /\ p \in (Folders \cap Present(h, b)) \cup {Root}
  /\ h[x] = Nowhere \/ (x \in Present(h, b) /\ p \notin {x} \cup Below(h, x))
  /\ m \in [Folders -> Names \cup {Nowhere}]
  /\ \A y \in Folders \ {x} : m[y] = n[y]
  /\ x \in Folders => /\ m[x] \in Names
                      /\ \A y \in (Folders \cap Present(h, b)) \ {x} :
                           ~(h[y] = p /\ n[y] = m[x])

LEMMA PutKeeps ==
  ASSUME NEW h, NEW n, NEW b, GoodDrive(h, n, b),
         NEW x, NEW p, NEW m, Put(h, n, b, x, p, m)
  PROVE  /\ GoodDrive([h EXCEPT ![x] = p], m, b)
         /\ \A y \in Things \ {x} : y \in Present([h EXCEPT ![x] = p], b) <=> y \in Present(h, b)
  <1> USE DEF Put
  <1> DEFINE g == [h EXCEPT ![x] = p]
  <1>1. /\ DOMAIN h = Things /\ DOMAIN g = Things /\ Forest(h)
        /\ g[x] = p /\ \A y \in Things \ {x} : g[y] = h[y]
        /\ p # Nowhere /\ p \in Dirs /\ g \in [Things -> Dirs \cup {Nowhere}]
    BY IDAssumption DEF GoodDrive, Dirs, Things
  <1> HIDE DEF g
  <1>2. h[x] = Nowhere => x \notin Present(h, b) /\ Below(h, x) = {} /\ p # x
    <2> SUFFICES ASSUME h[x] = Nowhere PROVE x \notin Present(h, b) /\ Below(h, x) = {} /\ p # x
      OBVIOUS
    <2>1. x \notin Present(h, b) /\ p # x
      BY PresentIs, IDAssumption DEF Things
    <2>2. \A y \in Things : h[y] # x
      BY IDAssumption DEF GoodDrive, Dirs, Things
    <2>3. Below(h, x) # {} => \E z \in Below(h, x) : h[z] \notin Below(h, x)
      BY <1>1, BelowIs DEF Forest
    <2>4. Below(h, x) = {}
      BY <1>1, <2>2, <2>3, BelowIs
    <2> QED BY <2>1, <2>4
  <1>3. p # x /\ p \notin Below(h, x)
    BY <1>2
  <1>4. Forest(g)
    BY <1>1, <1>3, ForestMove
  <1>5. GoodDrive(g, m, b)
    <2>1. \A y \in Things : g[y] \in Folders => g[g[y]] # Nowhere
      <3> SUFFICES ASSUME NEW y \in Things, g[y] \in Folders PROVE g[g[y]] # Nowhere
        OBVIOUS
      <3>1. CASE g[y] = x
        BY <1>1, <3>1
      <3>2. CASE g[y] # x /\ y = x
        <4>1. p \in Present(h, b) /\ p \in Things
          BY <1>1, <3>2, IDAssumption, PresentIs DEF Things
        <4>2. h[p] # Nowhere
          BY <4>1, PresentIs, IDAssumption DEF Things
        <4> QED BY <1>1, <1>3, <3>2, <4>1, <4>2
      <3>3. CASE g[y] # x /\ y # x
        BY <1>1, <3>3 DEF GoodDrive, Things
      <3> QED BY <3>1, <3>2, <3>3
    <2>2. \A y \in b : g[y] # Nowhere
      BY <1>1 DEF GoodDrive
    <2>3. \A y \in Folders : g[y] # Nowhere => m[y] \in Names
      BY <1>1 DEF GoodDrive, Things
    <2>4. ASSUME NEW y \in Folders \ b, NEW z \in Folders \ b,
                 g[y] = g[z], g[y] # Nowhere, m[y] = m[z]
          PROVE  y = z
      <3>1. CASE y # x /\ z # x
        BY <1>1, <2>4, <3>1 DEF GoodDrive, Things
      <3>2. ASSUME NEW w \in Folders \ b, w # x, g[w] = p, x \in Folders PROVE m[w] # m[x]
        <4>1. h[w] = p /\ n[w] = m[w]
          BY <1>1, <3>2 DEF Things
        <4>2. w \in Present(h, b)
          BY <4>1, PresentIs DEF Things
        <4> QED BY <3>2, <4>1, <4>2
      <3> QED BY <1>1, <2>4, <3>1, <3>2
    <2> QED BY <1>1, <1>4, <2>1, <2>2, <2>3, <2>4 DEF GoodDrive
  <1>6. ASSUME NEW y \in Things \ {x} PROVE y \in Present(g, b) <=> y \in Present(h, b)
    <2> DEFINE c == Cut(h, b)
               d == Cut(g, b)
    <2>1. /\ DOMAIN c = Things /\ DOMAIN d = Things
          /\ \A z \in Things \ {x} : d[z] = c[z]
          /\ d[x] = p /\ c[x] = h[x]
      BY <1>1 DEF Cut
    <2> HIDE DEF c, d
    <2>2. Forest(c) /\ Below(c, x) \subseteq Below(h, x)
      BY PresentIs, IDAssumption DEF c, Things
    <2>3. CASE h[x] = Nowhere
      <3>1. y \notin Below(c, x)
        BY <1>2, <2>2, <2>3
      <3>2. y \in Below(c, Root) <=> y \in Below(d, Root)
        BY <2>1, <2>2, <3>1, BelowOutside
      <3> QED BY <3>2 DEF Present, c, d
    <2>4. CASE x \in Present(h, b)
      <3>1. p \notin Below(c, x)
        BY <1>3, <2>2
      <3>2. x \in Below(c, Root) /\ (p = Root \/ p \in Below(c, Root))
        BY <2>4 DEF Present, c
      <3>3. Below(d, Root) = Below(c, Root)
        BY <1>3, <2>1, <2>2, <3>1, <3>2, ForestMove
      <3> QED BY <3>3 DEF Present, c, d
    <2> QED BY <2>3, <2>4
  <1> QED BY <1>5, <1>6 DEF g

(* To delete or restore x changes what is in x.                            *)
LEMMA BinKeeps ==
  ASSUME NEW h, NEW n, NEW b, GoodDrive(h, n, b),
         NEW x \in Things, NEW d, d \subseteq Things, d \ {x} = b \ {x}
  PROVE  \A y \in Things : y # x /\ y \notin Below(h, x)
                             => (y \in Present(h, d) <=> y \in Present(h, b))
  <1> DEFINE c == Cut(h, b)
             e == Cut(h, d)
  <1>1. /\ DOMAIN c = Things /\ DOMAIN e = Things
        /\ \A z \in Things \ {x} : e[z] = c[z]
    BY DEF Cut
  <1> HIDE DEF c, e
  <1>2. Forest(c) /\ Below(c, x) \subseteq Below(h, x)
    BY PresentIs, IDAssumption DEF c, Things
  <1>3. \A y \in Things : y # x /\ y \notin Below(h, x)
                            => (y \in Below(c, Root) <=> y \in Below(e, Root))
    BY <1>1, <1>2, BelowOutside
  <1> QED BY <1>3 DEF Present, c, e

-----------------------------------------------------------------------------
(* The invariant.                                                          *)

DriveIsGood ==
  /\ GoodDrive(home, name, bin)
  /\ version \in [Files -> 1..ops + 1]
  /\ ops \in 0..MaxOps /\ resets \in 0..MaxResets /\ fails \in 0..MaxFails
  /\ refused \in BOOLEAN
  /\ changed \subseteq Things

(* What was not reported is as it was.                                     *)
AsBefore(S) ==
  \A x \in Things \ S : /\ x \in Existing' <=> x \in Existing
                        /\ home'[x] = home[x]
                        /\ x \in Folders => name'[x] = name[x]
                        /\ x \in Files => version'[x] = version[x]

(* An operation of the user reports all that it changes.                   *)
Reports == \E S \in SUBSET Things : Report(S) /\ AsBefore(S)

LEMMA InsideIs ==
  ASSUME DriveIsGood, NEW x \in Things
  PROVE  Inside(x) \subseteq Things /\ Inside(x) = {x} \cup Below(home, x)
  BY BelowIs DEF Inside, DriveIsGood, GoodDrive

LEMMA ExistingIs ==
  ASSUME DriveIsGood
  PROVE  /\ Existing = Present(home, bin) /\ Existing \subseteq Things
         /\ \A x \in Existing : x \notin bin /\ home[x] \in FoldersNow \cup {Root}
         /\ \A x \in Things \ bin : home[x] \in Existing \cup {Root} => x \in Existing
         /\ \A x \in Things : home[x] = Nowhere => x \notin bin
  <1>1. GoodDrive(home, name, bin)
    BY DEF DriveIsGood
  <1>2. Existing = Present(home, bin)
    BY ExistingIsPresent
  <1>3. \A x \in Things : home[x] = Nowhere => x \notin bin
    BY <1>1 DEF GoodDrive
  <1> QED BY <1>1, <1>2, <1>3, PresentIs DEF FoldersNow

(* Creations and moves.                                                    *)
LEMMA PutReports ==
  ASSUME DriveIsGood, NEW x \in Things \ bin,
         NEW p \in FoldersNow \cup {Root},
         home[x] = Nowhere \/ (x \in Existing /\ p \notin Inside(x)),
         home' = [home EXCEPT ![x] = p],
         name' = name \/ \E n \in Names : x \in Folders /\ name' = [name EXCEPT ![x] = n],
         x \in Folders => name'[x] \in Names /\ FreeName(name'[x], p, x),
         bin' = bin, version' = version, Report({x})
  PROVE  Reports /\ GoodDrive(home', name', bin') /\ version' \in [Files -> 1..ops' + 1]
  <1>1. /\ GoodDrive(home, name, bin) /\ Existing = Present(home, bin)
        /\ Inside(x) = {x} \cup Below(home, x)
        /\ p \in (Folders \cap Present(home, bin)) \cup {Root}
    BY ExistingIsPresent, InsideIs DEF DriveIsGood, FoldersNow
  <1>2. /\ name' \in [Folders -> Names \cup {Nowhere}]
        /\ \A y \in Folders \ {x} : name'[y] = name[y]
    BY DEF DriveIsGood, GoodDrive
  <1>3. x \in Folders => /\ name'[x] \in Names
                         /\ \A y \in (Folders \cap Present(home, bin)) \ {x} :
                              ~(home[y] = p /\ name[y] = name'[x])
    BY <1>1 DEF FreeName, FoldersNow
  <1>4. /\ GoodDrive(home', name', bin)
        /\ \A y \in Things \ {x} : y \in Present(home', bin) <=> y \in Present(home, bin)
    <2> DEFINE g == home'
               m == name'
    <2>1. g = [home EXCEPT ![x] = p]
      OBVIOUS
    <2>2. home[x] = Nowhere \/ (x \in Present(home, bin) /\ p \notin {x} \cup Below(home, x))
      BY <1>1
    <2>3. Put(home, name, bin, x, p, m)
      BY <1>1, <1>2, <1>3, <2>2 DEF Put
    <2> HIDE DEF g, m
    <2>4. /\ GoodDrive(g, m, bin)
          /\ \A y \in Things \ {x} : y \in Present(g, bin) <=> y \in Present(home, bin)
      BY <1>1, <2>1, <2>3, PutKeeps
    <2> QED BY <2>4 DEF g, m
  <1>5. Existing' = Present(home', bin)
    BY ExistingIsPresent
  <1>6. AsBefore({x})
    <2>1. \A y \in Things \ {x} : home'[y] = home[y]
      BY DEF DriveIsGood, GoodDrive
    <2> QED BY <1>1, <1>2, <1>4, <1>5, <2>1 DEF AsBefore
  <1>7. version' \in [Files -> 1..ops' + 1]
    BY DEF Report, DriveIsGood
  <1> QED BY <1>4, <1>6, <1>7 DEF Reports

(* Every operation of the user leaves a good drive, and reports enough.    *)
LEMMA UserReports ==
  ASSUME DriveIsGood, User
  PROVE  Reports /\ GoodDrive(home', name', bin') /\ version' \in [Files -> 1..ops' + 1]
  <1>0. /\ Existing = Present(home, bin) /\ Existing \subseteq Things
        /\ \A x \in Existing : x \notin bin /\ home[x] \in FoldersNow \cup {Root}
        /\ \A x \in Things : home[x] = Nowhere => x \notin bin
        /\ Root \notin Things /\ Nowhere \notin Dirs
    BY ExistingIs, IDAssumption DEF Things, Dirs
  <1> USE DEF DriveIsGood
  <1>1. ASSUME NEW x \in Folders, NEW parent \in FoldersNow \cup {Root}, NEW n \in Names,
               CreateFolder(x, parent, n) \/ MoveFolder(x, parent, n)
        PROVE  Reports /\ GoodDrive(home', name', bin') /\ version' \in [Files -> 1..ops' + 1]
    <2>1. name'[x] = n /\ name' = [name EXCEPT ![x] = n]
      BY <1>1 DEF CreateFolder, MoveFolder, GoodDrive
    <2>2. /\ home[x] = Nowhere \/ (x \in Existing /\ parent \notin Inside(x))
          /\ home' = [home EXCEPT ![x] = parent] /\ FreeName(n, parent, x)
          /\ bin' = bin /\ version' = version /\ Report({x})
      BY <1>1 DEF CreateFolder, MoveFolder
    <2>3. x \in Things \ bin
      BY <1>0, <2>2 DEF Things
    <2> QED BY <2>1, <2>2, <2>3, PutReports
  <1>2. ASSUME NEW f \in Files, NEW parent \in FoldersNow \cup {Root},
               CreateFile(f, parent) \/ MoveFile(f, parent)
        PROVE  Reports /\ GoodDrive(home', name', bin') /\ version' \in [Files -> 1..ops' + 1]
    <2>1. /\ home[f] = Nowhere \/ f \in Existing
          /\ home' = [home EXCEPT ![f] = parent] /\ name' = name
          /\ bin' = bin /\ version' = version /\ Report({f})
      BY <1>2 DEF CreateFile, MoveFile
    <2>2. f \in Things \ bin /\ f \notin Folders
      BY <1>0, <2>1, IDAssumption DEF Things
    <2>3. parent \notin Inside(f)
      <3>1. \A y \in Things : home[y] # f
        BY <2>2, IDAssumption DEF GoodDrive, Dirs, Things
      <3>2. Below(home, f) # {} => \E z \in Below(home, f) : home[z] \notin Below(home, f)
        BY <2>2, BelowIs DEF Forest, GoodDrive
      <3>3. Below(home, f) = {}
        BY <3>1, <3>2, BelowIs DEF GoodDrive
      <3> QED BY <2>2, <3>3, InsideIs, IDAssumption DEF FoldersNow
    <2> QED BY <2>1, <2>2, <2>3, PutReports
  <1>3. ASSUME NEW f \in Files, EditFile(f)
        PROVE  Reports /\ GoodDrive(home', name', bin') /\ version' \in [Files -> 1..ops' + 1]
    <2>1. Existing' = Existing
      BY <1>3 DEF EditFile, Existing, Parents
    <2>2. AsBefore({f})
      BY <1>3, <2>1 DEF EditFile, AsBefore
    <2>3. Report({f}) /\ {f} \in SUBSET Things
      BY <1>3 DEF EditFile, Things
    <2>4. version' \in [Files -> 1..ops' + 1]
      BY <1>3 DEF EditFile, Report
    <2>5. GoodDrive(home', name', bin')
      BY <1>3 DEF EditFile
    <2> QED BY <2>2, <2>3, <2>4, <2>5 DEF Reports
  <1>4. ASSUME NEW x \in Things, Delete(x) \/ Restore(x)
        PROVE  Reports /\ GoodDrive(home', name', bin') /\ version' \in [Files -> 1..ops' + 1]
    <2>1. /\ bin' \ {x} = bin \ {x} /\ bin' \subseteq Things
          /\ home' = home /\ name' = name /\ version' = version
      BY <1>4 DEF Delete, Restore, GoodDrive
    <2>2. Existing' = Present(home, bin')
      BY <2>1, ExistingIsPresent
    <2>3. \A y \in Things \ Inside(x) : y \in Existing' <=> y \in Existing
      BY <1>0, <2>1, <2>2, BinKeeps, InsideIs
    <2>4. GoodDrive(home', name', bin')
      <3>1. CASE Delete(x)
        <4>1. bin' = bin \cup {x} /\ home[x] # Nowhere
          BY <1>0, <3>1 DEF Delete, FoldersNow, Dirs
        <4> QED BY <2>1, <4>1 DEF GoodDrive
      <3>2. CASE Restore(x)
        <4>1. /\ bin' = bin \ {x} /\ x \in bin
              /\ home[x] \in FoldersNow \cup {Root}
              /\ x \in Folders => FreeName(name[x], home[x], x)
          BY <3>2 DEF Restore
        <4>2. ASSUME NEW y \in Folders \ bin, home[y] = home[x], x \in Folders, name[y] = name[x]
              PROVE  FALSE
          <5>1. y \in Existing /\ y # x
            BY <1>0, <4>1, <4>2, PresentIs DEF FoldersNow, Things
          <5> QED BY <4>1, <4>2, <5>1 DEF FreeName, FoldersNow
        <4>3. \A y, z \in Folders \ bin' :
                home[y] = home[z] /\ home[y] # Nowhere /\ name[y] = name[z] => y = z
          BY <4>1, <4>2 DEF GoodDrive
        <4> QED BY <2>1, <4>1, <4>3 DEF GoodDrive
      <3> QED BY <1>4, <3>1, <3>2
    <2>5. \E S \in SUBSET Things : Report(S) /\ AsBefore(S)
      <3>1. CASE Delete(x)
        <4>1. Report(Inside(x) \cap Existing)
          BY <3>1 DEF Delete
        <4>2. Existing' \subseteq Existing
          <5> DEFINE c == Cut(home, bin)
                     d == Cut(home, bin')
          <5>0. bin \subseteq bin'
            BY <3>1 DEF Delete
          <5>1. /\ DOMAIN c = Things /\ Forest(c) /\ Nowhere \notin Things
                /\ DOMAIN d = Things /\ \A y \in Things : d[y] = c[y] \/ d[y] = Nowhere
            <6>1. Forest(c) /\ DOMAIN c = Things /\ Nowhere \notin Things
              BY PresentIs, IDAssumption DEF Things
            <6>2. DOMAIN d = Things /\ \A y \in Things : d[y] = c[y] \/ d[y] = Nowhere
              BY <5>0 DEF Cut
            <6> QED BY <6>1, <6>2
          <5>2. Below(d, Root) \subseteq Below(c, Root)
            <6> HIDE DEF c, d
            <6> QED BY <5>1, ForestCut, IDAssumption
          <5> QED BY <1>0, <2>2, <5>2 DEF Present
        <4>3. AsBefore(Inside(x) \cap Existing)
          BY <2>1, <2>3, <4>2 DEF AsBefore
        <4> QED BY <1>0, <4>1, <4>3
      <3>2. CASE Restore(x)
        <4>1. Report(Inside(x) \cap Existing')
          BY <3>2 DEF Restore
        <4>2. Existing \subseteq Existing' /\ Existing' \subseteq Things
          <5> DEFINE c == Cut(home, bin)
                     d == Cut(home, bin')
          <5>0. bin' \subseteq bin
            BY <3>2 DEF Restore
          <5>1. /\ DOMAIN c = Things /\ Forest(d) /\ Nowhere \notin Things
                /\ DOMAIN d = Things /\ \A y \in Things : c[y] = d[y] \/ c[y] = Nowhere
            <6>1. GoodDrive(home, name, bin')
              BY <2>1, <2>4
            <6>2. Forest(d) /\ DOMAIN d = Things /\ Nowhere \notin Things
              BY <6>1, PresentIs, IDAssumption DEF Things
            <6>3. DOMAIN c = Things /\ \A y \in Things : c[y] = d[y] \/ c[y] = Nowhere
              BY <5>0 DEF Cut
            <6> QED BY <6>2, <6>3
          <5>2. Below(c, Root) \subseteq Below(d, Root)
            <6> HIDE DEF c, d
            <6> QED BY <5>1, ForestCut, IDAssumption
          <5>3. Below(d, Root) \subseteq Things
            BY <5>1, BelowIs
          <5> QED BY <1>0, <2>2, <5>2, <5>3 DEF Present
        <4>3. AsBefore(Inside(x) \cap Existing')
          BY <2>1, <2>3, <4>2 DEF AsBefore
        <4> QED BY <4>1, <4>2, <4>3
      <3> QED BY <1>4, <3>1, <3>2
    <2>6. version' \in [Files -> 1..ops' + 1]
      BY <2>1, <2>5 DEF Report
    <2> QED BY <2>4, <2>5, <2>6 DEF Reports
  <1> QED BY <1>1, <1>2, <1>3, <1>4 DEF User

-----------------------------------------------------------------------------
(* A page.                                                                 *)

(* The tree t has x as it is in the drive.                                 *)
Has(t, x) ==
  IF x \in Files
  THEN IF x \in Existing THEN t.fileParent[x] = home[x] /\ t.version[x] = version[x]
       ELSE x \in t.deleted
  ELSE IF x \in Existing THEN x \in t.live /\ t.up[x] = home[x] /\ t.name[x] = name[x]
  ELSE IF x = Root THEN x \in t.live
  ELSE x \in t.tombstones

LEMMA HasSame ==
  ASSUME NEW t, NEW u, NEW x \in Things \cup {Root}, SameOf(t, u, x), DriveIsGood
  PROVE  Has(t, x) <=> Has(u, x)
  <1>1. Root \notin Existing /\ Existing \subseteq Things
    BY ExistingIs, IDAssumption DEF Things
  <1> QED BY <1>1, IDAssumption DEF Has, SameOf, Things

(* What has come to the tree, what comes, has, and nothing else has.       *)
LEMMA InTreeChanges ==
  ASSUME DriveIsGood, NEW t \in Trees, TreeIsOne(t), NEW x \in Things \cup {Root},
         x \in Existing => Has(t, home[x])
  PROVE  OnlyChanges(t, InTree(t, x), x) /\ Has(InTree(t, x), x)
  <1>1. /\ Root \notin Folders /\ Root \notin Files /\ Folders \cap Files = {}
        /\ Root \notin Existing
    BY ExistingIs, IDAssumption DEF Things
  <1>2. ASSUME x \in Existing PROVE home[x] \in t.live /\ home[x] \notin Files
    <2>1. home[x] \in FoldersNow \cup {Root}
      BY <1>2, ExistingIs
    <2> QED BY <1>1, <1>2, <2>1 DEF Has, FoldersNow
  <1>3. CASE x = Root
    BY <1>1, <1>3, SetRootChanges DEF InTree, Has
  <1>4. CASE x \in Folders /\ x \in Existing
    <2>1. name[x] \in Names
      <3>1. home[x] \in Dirs
        BY <1>2, <1>4, ExistingIs DEF FoldersNow, Dirs
      <3> QED BY <1>4, <3>1, IDAssumption DEF DriveIsGood, GoodDrive, Dirs
    <2>2. InTree(t, x) = SetFolder(t, x, home[x], name[x])
      BY <1>1, <1>4 DEF InTree
    <2>3. /\ OnlyChanges(t, SetFolder(t, x, home[x], name[x]), x)
          /\ x \in SetFolder(t, x, home[x], name[x]).live
          /\ SetFolder(t, x, home[x], name[x]).up[x] = home[x]
          /\ SetFolder(t, x, home[x], name[x]).name[x] = name[x]
      BY <1>2, <1>4, <2>1, SetFolderChanges
    <2> QED BY <1>1, <1>4, <2>2, <2>3 DEF Has
  <1>5. CASE x \in Folders /\ x \notin Existing
    BY <1>1, <1>5, SetTombstoneChanges DEF InTree, Has
  <1>6. CASE x \in Files /\ x \in Existing
    <2>1. version[x] \in Nat
      BY <1>6 DEF DriveIsGood
    <2>2. InTree(t, x) = AddFile(t, x, home[x], version[x])
      BY <1>1, <1>6 DEF InTree
    <2>3. /\ OnlyChanges(t, AddFile(t, x, home[x], version[x]), x)
          /\ AddFile(t, x, home[x], version[x]).fileParent[x] = home[x]
          /\ AddFile(t, x, home[x], version[x]).version[x] = version[x]
      BY <1>2, <1>6, <2>1, AddFileChanges
    <2> QED BY <1>6, <2>2, <2>3 DEF Has
  <1>7. CASE x \in Files /\ x \notin Existing
    BY <1>1, <1>7, DeleteFileChanges DEF InTree, Has
  <1> QED BY <1>3, <1>4, <1>5, <1>6, <1>7 DEF Things

(* A page is of what is reported, and of all the folders that it is in.    *)
LEMMA PageIs ==
  ASSUME DriveIsGood, NEW R \in SUBSET Things
  PROVE  /\ R \subseteq PageOf(R) /\ Root \in PageOf(R)
         /\ PageOf(R) \subseteq Things \cup {Root}
         /\ PageOf(R) \subseteq R \cup Existing \cup {Root}
         /\ \A x \in PageOf(R) \cap Existing : home[x] \in PageOf(R)
         /\ IsFiniteSet(PageOf(R))
  <1>1. \A x \in Things : x \in Inside(x) /\ Inside(x) = {x} \cup Below(home, x)
    BY InsideIs
  <1>2. R \subseteq PageOf(R) /\ Root \in PageOf(R) /\ PageOf(R) \subseteq Things \cup {Root}
    BY <1>1 DEF PageOf, Things
  <1>3. ASSUME NEW x \in PageOf(R) \cap Existing PROVE home[x] \in PageOf(R)
    <2>1. CASE home[x] = Root
      BY <1>2, <2>1
    <2>2. CASE home[x] \in Folders
      <3>1. /\ x \in Things /\ x \in Below(home, home[x])
            /\ Inside(home[x]) = {home[x]} \cup Below(home, home[x])
        BY <1>1, <1>3, <2>2, ExistingIs, BelowIs DEF DriveIsGood, GoodDrive, Things
      <3>2. Below(home, x) \subseteq Below(home, home[x])
        BY <3>1, BelowBelow DEF DriveIsGood, GoodDrive
      <3>3. PICK z \in R \cap Existing : z \in Inside(x)
        <4>1. x \in R \/ (x \in Folders /\ Inside(x) \cap (R \cap Existing) # {})
          BY <1>3, ExistingIs, IDAssumption DEF PageOf, Things
        <4> QED BY <1>1, <1>3, <3>1, <4>1
      <3>4. z \in Inside(home[x])
        BY <1>1, <3>1, <3>2, <3>3
      <3> QED BY <2>2, <3>3, <3>4 DEF PageOf
    <2> QED BY <1>3, <2>1, <2>2, ExistingIs DEF FoldersNow
  <1>4. ASSUME NEW x \in PageOf(R), x \notin R, x # Root PROVE x \in Existing
    <2>1. x \in Folders /\ Inside(x) \cap Existing # {}
      BY <1>4 DEF PageOf
    <2> DEFINE Bad == Below(home, x) \cap Existing
    <2>2. CASE Bad = {}
      BY <1>1, <2>1, <2>2 DEF Things
    <2>3. CASE Bad # {}
      <3>1. PICK z \in Bad : home[z] \notin Bad
        BY <2>3, BelowIs DEF Forest, DriveIsGood, GoodDrive
      <3>2. z \in Things /\ home[z] \in FoldersNow \cup {Root}
        BY <3>1, ExistingIs
      <3>3. home[z] = x \/ home[z] \in Below(home, x)
        BY <3>1, <3>2, BelowIs DEF DriveIsGood, GoodDrive
      <3>4. Root \notin Below(home, x)
        BY BelowIs, IDAssumption DEF DriveIsGood, GoodDrive, Things
      <3> QED BY <1>4, <3>1, <3>2, <3>3, <3>4 DEF FoldersNow
    <2> QED BY <2>2, <2>3
  <1>5. IsFiniteSet(PageOf(R))
    <2>1. IsFiniteSet(Things \cup {Root})
      BY IDAssumption, FS_Union, FS_AddElement DEF Things
    <2> QED BY <1>2, <2>1, FS_Subset
  <1> QED BY <1>2, <1>3, <1>4, <1>5

(* The loop over the items of a page has a result: by induction, one item  *)
(* after the other.                                                        *)
NextAdded(before) ==
  LET x == FirstOf(before.left)
  IN  [tree |-> InTree(before.tree, x), left |-> before.left \ {x}]

AddedBy(f, t, page, N) ==
  [n \in 0..N |-> IF n = 0 THEN [tree |-> t, left |-> page] ELSE NextAdded(f[n - 1])]

LEMMA AddedExists ==
  ASSUME NEW t, NEW page, NEW N \in Nat
  PROVE  \E f : f = AddedBy(f, t, page, N)
  <1> DEFINE step(before) == NextAdded(before)
             first == [tree |-> t, left |-> page]
             Solves(f, N_) == \A n \in 0..N_ : f[n] = IF n = 0 THEN first ELSE step(f[n - 1])
             S == {n \in Nat : \E f : Solves(f, n)}
  <1>1. 0 \in S
    <2> DEFINE f == [n \in {0} |-> first]
    <2>1. Solves(f, 0)
      <3> HIDE DEF first, step
      <3> QED OBVIOUS
    <2> HIDE DEF f, Solves
    <2> QED BY <2>1
  <1>2. ASSUME NEW n \in Nat, n \in S PROVE n + 1 \in S
    <2>1. PICK f : Solves(f, n)
      BY <1>2
    <2> DEFINE g == [i \in 0..n + 1 |-> IF i = n + 1 THEN step(f[n]) ELSE f[i]]
    <2>2. Solves(g, n + 1)
      <3> HIDE DEF step, first
      <3> SUFFICES ASSUME NEW i \in 0..n + 1
                   PROVE  g[i] = IF i = 0 THEN first ELSE step(g[i - 1])
        OBVIOUS
      <3>1. CASE i = n + 1
        <4>1. i # 0 /\ g[i] = step(f[n]) /\ g[i - 1] = f[n]
          BY <3>1
        <4> HIDE DEF g
        <4> QED BY <4>1
      <3>2. CASE i \in 0..n
        <4>1. g[i] = f[i] /\ (i # 0 => g[i - 1] = f[i - 1])
          BY <3>2
        <4>2. f[i] = IF i = 0 THEN first ELSE step(f[i - 1])
          BY <2>1, <3>2
        <4> HIDE DEF g
        <4> QED BY <4>1, <4>2
      <3> QED BY <3>1, <3>2
    <2> HIDE DEF g, Solves
    <2> QED BY <2>2
  <1>3. PICK f : Solves(f, N)
    <2> HIDE DEF Solves
    <2>1. \A n \in Nat : n \in S => n + 1 \in S
      BY <1>2
    <2> HIDE DEF S
    <2>2. Nat \subseteq S
      BY <1>1, <2>1, Induction
    <2> QED BY <2>2 DEF S
  <1> DEFINE g == [n \in 0..N |-> f[n]]
  <1>4. g = [n \in 0..N |-> IF n = 0 THEN first ELSE step(g[n - 1])]
    <2> HIDE DEF step, first
    <2>1. \A n \in 0..N : g[n] = f[n] /\ (n # 0 => g[n - 1] = f[n - 1])
      OBVIOUS
    <2>2. \A n \in 0..N : f[n] = IF n = 0 THEN first ELSE step(g[n - 1])
      BY <1>3, <2>1
    <2> QED BY <2>2
  <1>5. g = AddedBy(g, t, page, N)
    <2> HIDE DEF g
    <2> QED BY <1>4 DEF AddedBy
  <1> HIDE DEF g
  <1> QED BY <1>5

(* When all but left of a page has come to the tree that was t.            *)
PageLeft(t, page, s) ==
  /\ s.left \subseteq page
  /\ s.tree \in Trees /\ TreeIsOne(s.tree) /\ s.tree.hadReset = t.hadReset
  /\ s.left \subseteq Existing \cup {Root} \/ page \cap (Existing \cup {Root}) \subseteq s.left
  /\ \A x \in (page \ s.left) \cap Existing : home[x] \notin s.left
  /\ \A x \in page \ s.left : Has(s.tree, x)
  /\ \A x \in (Things \cup {Root}) \ (page \ s.left) : SameOf(t, s.tree, x)

(* The next item is what is deleted, or in what has come.                  *)
LEMMA NextItem ==
  ASSUME DriveIsGood, NEW items, items \subseteq Things \cup {Root}, items # {}
  PROVE  /\ FirstOf(items) \in items
         /\ FirstOf(items) \in Existing \cup {Root} =>
              /\ items \subseteq Existing \cup {Root}
              /\ FirstOf(items) # Root => home[FirstOf(items)] \notin items
  <1> DEFINE P(x) == x \in Existing \cup {Root} =>
                       /\ items \subseteq Existing \cup {Root}
                       /\ x # Root => home[x] \notin items
  <1>1. \E x \in items : P(x)
    <2>1. CASE ~(items \subseteq Existing \cup {Root})
      BY <2>1
    <2>2. CASE items \subseteq Existing \cup {Root} /\ Root \in items
      BY <2>2
    <2>3. CASE items \subseteq Existing \cup {Root} /\ Root \notin items
      <3>1. items \in SUBSET DOMAIN home
        BY <2>3, ExistingIs DEF DriveIsGood, GoodDrive
      <3>2. PICK x \in items : home[x] \notin items
        BY <3>1 DEF Forest, DriveIsGood, GoodDrive
      <3> QED BY <2>3, <3>2
    <2> QED BY <2>1, <2>2, <2>3
  <1>2. FirstOf(items) = CHOOSE x \in items : P(x)
    BY DEF FirstOf
  <1> HIDE DEF P
  <1>3. FirstOf(items) \in items /\ P(FirstOf(items))
    BY <1>1, <1>2
  <1> QED BY <1>3 DEF P

(* One item of a page comes.                                               *)
LEMMA ItemComes ==
  ASSUME DriveIsGood, NEW t \in Trees, NEW page, page \subseteq Things \cup {Root},
         \A x \in page \cap Existing : home[x] \in page,
         NEW s, PageLeft(t, page, s), s.left # {},
         NEW x, x = FirstOf(s.left),
         NEW u, u.tree = InTree(s.tree, x), u.left = s.left \ {x}
  PROVE  x \in s.left /\ PageLeft(t, page, u)
  <1> USE DEF PageLeft
  <1>1. /\ x \in s.left /\ x \in Things \cup {Root}
        /\ x \in Existing \cup {Root} => /\ s.left \subseteq Existing \cup {Root}
                                         /\ x # Root => home[x] \notin s.left
    BY NextItem
  <1>2. Root \notin Existing /\ Existing \subseteq Things
    BY ExistingIs, IDAssumption DEF Things
  <1>3. x \in Existing => Has(s.tree, home[x])
    BY <1>1, <1>2
  <1>4. OnlyChanges(s.tree, u.tree, x) /\ Has(u.tree, x)
    BY <1>1, <1>3, InTreeChanges
  <1>5. u.left \subseteq page /\ page \ u.left = (page \ s.left) \cup {x}
    BY <1>1
  <1>6. u.left \subseteq Existing \cup {Root} \/ page \cap (Existing \cup {Root}) \subseteq u.left
    BY <1>1
  <1>7. \A y \in (page \ u.left) \cap Existing : home[y] \notin u.left
    BY <1>1, <1>2, <1>5
  <1>8. \A y \in (Things \cup {Root}) \ {x} : SameOf(s.tree, u.tree, y)
    BY <1>4 DEF OnlyChanges, Things, Dirs
  <1>9. ASSUME NEW y \in page \ u.left PROVE Has(u.tree, y)
    <2>1. CASE y = x
      BY <1>4, <2>1
    <2>2. CASE y # x
      <3>1. Has(s.tree, y) /\ SameOf(s.tree, u.tree, y) /\ y \in Things \cup {Root}
        BY <1>5, <1>8, <1>9, <2>2
      <3> QED BY <3>1, HasSame
    <2> QED BY <2>1, <2>2
  <1>10. ASSUME NEW y \in (Things \cup {Root}) \ (page \ u.left) PROVE SameOf(t, u.tree, y)
    <2>1. SameOf(s.tree, u.tree, y) /\ SameOf(t, s.tree, y)
      BY <1>1, <1>5, <1>8
    <2> QED BY <2>1 DEF SameOf
  <1>11. u.tree \in Trees /\ TreeIsOne(u.tree) /\ u.tree.hadReset = t.hadReset
    BY <1>4 DEF OnlyChanges
  <1> QED BY <1>1, <1>5, <1>6, <1>7, <1>9, <1>10, <1>11

(* A page puts all it has in the tree, as it is, and changes nothing else. *)
LEMMA PageComes ==
  ASSUME DriveIsGood, NEW t \in Trees, TreeIsOne(t), NEW page,
         page \subseteq Things \cup {Root}, IsFiniteSet(page),
         \A x \in page \cap Existing : home[x] \in page
  PROVE  LET u == AddPage(t, page)
         IN  /\ u \in Trees /\ TreeIsOne(u) /\ u.hadReset = t.hadReset
             /\ \A x \in page : Has(u, x)
             /\ \A x \in (Things \cup {Root}) \ page : SameOf(t, u, x)
  <1> DEFINE N == Cardinality(page)
             added == Added(t, page)
             x(n) == FirstOf(added[n].left)
  <1>1. N \in Nat
    BY FS_CardinalityType
  <1>2. \A n \in 0..N :
          added[n] = IF n = 0 THEN [tree |-> t, left |-> page] ELSE NextAdded(added[n - 1])
    <2>1. \E f : f = AddedBy(f, t, page, N)
      BY <1>1, AddedExists
    <2>2. added = CHOOSE f : f = AddedBy(f, t, page, N)
      BY DEF Added, AddedBy, NextAdded
    <2> HIDE DEF added, N
    <2>3. added = AddedBy(added, t, page, N)
      BY <2>1, <2>2
    <2>4. \A n \in 0..N : AddedBy(added, t, page, N)[n] =
            IF n = 0 THEN [tree |-> t, left |-> page] ELSE NextAdded(added[n - 1])
      BY DEF AddedBy
    <2> QED BY <2>3, <2>4
  <1> HIDE DEF added, N
  <1> DEFINE S == {n \in Nat : n <= N => /\ PageLeft(t, page, added[n])
                                         /\ IsFiniteSet(added[n].left)
                                         /\ Cardinality(added[n].left) = N - n}
  <1>3. 0 \in S
    <2>0. 0 \in 0..N
      BY <1>1
    <2>1. added[0] = [tree |-> t, left |-> page]
      BY <1>2, <2>0
    <2>2. added[0].tree = t /\ added[0].left = page
      BY <2>1
    <2>3. PageLeft(t, page, added[0])
      BY <2>2 DEF PageLeft, SameOf
    <2>4. IsFiniteSet(added[0].left) /\ Cardinality(added[0].left) = N - 0
      BY <1>1, <2>2 DEF N
    <2> QED BY <2>3, <2>4
  <1>4. ASSUME NEW n \in Nat, n \in S PROVE n + 1 \in S
    <2> SUFFICES ASSUME n + 1 <= N
                 PROVE  /\ PageLeft(t, page, added[n + 1])
                        /\ IsFiniteSet(added[n + 1].left)
                        /\ Cardinality(added[n + 1].left) = N - (n + 1)
      OBVIOUS
    <2>1. /\ PageLeft(t, page, added[n]) /\ IsFiniteSet(added[n].left)
          /\ Cardinality(added[n].left) = N - n /\ N - n # 0
      BY <1>1, <1>4
    <2>2. /\ added[n + 1].tree = InTree(added[n].tree, x(n))
          /\ added[n + 1].left = added[n].left \ {x(n)}
      <3>1. n + 1 \in 0..N /\ n + 1 # 0 /\ (n + 1) - 1 = n
        BY <1>1
      <3>2. added[n + 1] = NextAdded(added[n])
        BY <1>2, <3>1
      <3> QED BY <3>2 DEF NextAdded
    <2>3. added[n].left # {}
      BY <2>1, FS_EmptySet
    <2>4. x(n) \in added[n].left /\ PageLeft(t, page, added[n + 1])
      BY <2>1, <2>2, <2>3, ItemComes
    <2>5. /\ IsFiniteSet(added[n + 1].left)
          /\ Cardinality(added[n + 1].left) = N - n - 1
      <3> DEFINE left == added[n].left
                 y == x(n)
      <3>1. IsFiniteSet(left) /\ Cardinality(left) = N - n /\ y \in left
        BY <2>1, <2>4
      <3>2. IsFiniteSet(left \ {y}) /\ Cardinality(left \ {y}) = Cardinality(left) - 1
        <4> HIDE DEF left, y
        <4> QED BY <3>1, FS_RemoveElement
      <3> QED BY <2>2, <3>1, <3>2
    <2> QED BY <1>1, <2>4, <2>5
  <1>5. N \in S
    <2>1. \A n \in Nat : n \in S => n + 1 \in S
      BY <1>4
    <2> HIDE DEF S
    <2> QED BY <1>1, <1>3, <2>1, Induction
  <1>6. PageLeft(t, page, added[N]) /\ added[N].left = {}
    <2>1. /\ PageLeft(t, page, added[N]) /\ IsFiniteSet(added[N].left)
          /\ Cardinality(added[N].left) = 0
      BY <1>1, <1>5
    <2> QED BY <2>1, FS_EmptySet
  <1>7. AddPage(t, page) = added[N].tree
    BY DEF AddPage, added, N
  <1> QED BY <1>6, <1>7 DEF PageLeft

-----------------------------------------------------------------------------
(* The backup follows the drive.                                           *)

Jobs == [running : BOOLEAN, delta : BOOLEAN, tree : Trees, changed : SUBSET Things]

JobIsGood ==
  /\ job \in Jobs /\ TreeIsOne(job.tree)
  /\ ~job.running => job = IdleJob
  /\ ~job.delta => job.tree = EmptyTree /\ job.changed = {}
  /\ job.running /\ base.exists => job.delta /\ job.changed \subseteq changed

(* The tree has nothing of x.                                              *)
Without(t, x) ==
  IF x \in Files THEN t.fileParent[x] = Nowhere /\ x \notin t.deleted
  ELSE x \notin t.live \cup t.tombstones

(* A folder that has not changed since the base is where the base has it.  *)
BaseFollows ==
  /\ base.exists \in BOOLEAN
  /\ ~base.exists => DOMAIN base.prevs = {} /\ changed = {}
  /\ base.exists => Root \in DOMAIN base.prevs /\ base.prevs[Root] = <<>>
  /\ DOMAIN base.prevs \subseteq Dirs
  /\ \A x \in DOMAIN base.prevs : base.prevs[x] \in Seq(Names)
  /\ \A x, y \in DOMAIN base.prevs : base.prevs[x] = base.prevs[y] => x = y
  /\ base.exists =>
       \A x \in Folders \ changed :
         /\ x \in DOMAIN base.prevs <=> x \in Existing
         /\ x \in Existing => /\ home[x] \in DOMAIN base.prevs
                              /\ base.prevs[x] = Append(base.prevs[home[x]], name[x])

(* What is not to be reported any more is in the tree as it is, and so is  *)
(* the folder that it is in, or will be; or nothing of it is in the tree,  *)
(* because it has not changed since the base, or is not there.  Every page *)
(* brings the root.                                                        *)
Follows(x) ==
  \/ /\ Has(job.tree, x)
     /\ x \in Existing => home[x] \in job.tree.live \cup job.changed
  \/ /\ Without(job.tree, x)
     /\ IF job.tree.hadReset \/ ~base.exists THEN x \notin Existing ELSE x \notin changed

TreeFollows ==
  job.delta => /\ \A x \in Things \ job.changed : Follows(x)
               /\ job.tree.hadReset \/ ~base.exists => Root \in job.tree.live

DriveIInv == DriveIsGood /\ JobIsGood /\ BaseFollows /\ TreeFollows

LEMMA InitDriveIInv == Init => DriveIInv
  <1> SUFFICES ASSUME Init PROVE DriveIInv
    OBVIOUS
  <1>1. PICK d \in FirstDrives : home = d.home /\ name = d.name
    BY DEF Init
  <1>2. IsDrive(d)
    BY DriveAssumption
  <1>3. GoodDrive(home, name, bin)
    BY <1>1, <1>2 DEF Init, IsDrive, GoodDrive
  <1>4. DriveIsGood
    <2>1. version \in [Files -> 1..ops + 1]
      <3>1. version = [f \in Files |-> 1] /\ ops = 0 /\ 1 \in 1..0 + 1
        BY DEF Init
      <3> QED BY <3>1
    <2>2. ops \in 0..MaxOps /\ resets \in 0..MaxResets /\ fails \in 0..MaxFails
      BY DriveAssumption DEF Init
    <2> QED BY <1>3, <2>1, <2>2 DEF Init, DriveIsGood
  <1>5. job.tree = EmptyTree /\ job \in Jobs
    BY EmptyTrees DEF Init, IdleJob, Jobs
  <1>6. JobIsGood
    BY <1>5, EmptyTrees DEF Init, IdleJob, JobIsGood
  <1>7. base.exists = FALSE /\ base.prevs = <<>> /\ DOMAIN base.prevs = {} /\ changed = {}
    BY DEF Init, NoBase
  <1>8. BaseFollows
    BY <1>7 DEF BaseFollows
  <1>9. TreeFollows
    BY DEF Init, IdleJob, TreeFollows
  <1> QED BY <1>4, <1>6, <1>8, <1>9 DEF DriveIInv

LEMMA UserKeeps ==
  ASSUME DriveIInv, User
  PROVE  DriveIInv'
  <1> USE DEF DriveIInv
  <1>1. /\ GoodDrive(home', name', bin') /\ version' \in [Files -> 1..ops' + 1]
    BY UserReports
  <1>2. PICK S \in SUBSET Things : Report(S) /\ AsBefore(S)
    BY UserReports DEF Reports
  <1>3. /\ ops' = ops + 1 /\ ops < MaxOps /\ base' = base /\ refused' = refused
        /\ resets' = resets /\ fails' = fails
        /\ changed' = IF base.exists THEN changed \cup S ELSE changed
        /\ job' = [job EXCEPT !.changed = IF job.delta THEN job.changed \cup S ELSE job.changed]
    BY <1>2 DEF Report, JobIsGood, Jobs
  <1>4. DriveIsGood'
    BY <1>1, <1>3, DriveAssumption DEF DriveIsGood
  <1>5. /\ job'.running = job.running /\ job'.delta = job.delta /\ job'.tree = job.tree
        /\ job'.changed = IF job.delta THEN job.changed \cup S ELSE job.changed
        /\ job' \in Jobs
    BY <1>3 DEF JobIsGood, Jobs
  <1>6. JobIsGood'
    <2>1. ~job.running => job' = IdleJob
      <3> SUFFICES ASSUME ~job.running PROVE job' = IdleJob
        OBVIOUS
      <3>1. job = IdleJob /\ job.changed = IdleJob.changed /\ ~job.delta
        BY DEF JobIsGood, IdleJob
      <3>2. job' = [job EXCEPT !.changed = job.changed]
        BY <1>3, <3>1
      <3> QED BY <3>1, <3>2 DEF JobIsGood, Jobs
    <2> QED BY <1>3, <1>5, <2>1 DEF JobIsGood
  <1>7. BaseFollows'
    <2>1. base.exists => \A x \in Folders \ changed' :
            /\ x \in Existing' <=> x \in Existing
            /\ home'[x] = home[x] /\ name'[x] = name[x] /\ x \notin changed
      BY <1>2, <1>3 DEF AsBefore, Things
    <2> QED BY <1>3, <2>1 DEF BaseFollows
  <1>8. TreeFollows'
    <2> SUFFICES ASSUME job.delta, NEW x \in Things \ job'.changed PROVE Follows(x)'
      BY <1>3, <1>5 DEF TreeFollows
    <2>1. /\ x \notin S /\ x \notin job.changed
          /\ x \in Existing' <=> x \in Existing
          /\ home'[x] = home[x]
          /\ x \in Folders => name'[x] = name[x]
          /\ x \in Files => version'[x] = version[x]
      BY <1>2, <1>5 DEF AsBefore
    <2>2. Follows(x)
      BY <2>1 DEF TreeFollows
    <2>3. Has(job.tree, x) => Has(job.tree, x)'
      BY <1>5, <2>1, IDAssumption DEF Has, Things
    <2>4. Without(job.tree, x) => Without(job.tree, x)'
      BY <1>5 DEF Without
    <2> QED BY <1>3, <1>5, <2>1, <2>2, <2>3, <2>4 DEF Follows
  <1> QED BY <1>4, <1>6, <1>7, <1>8

LEMMA StartKeeps ==
  ASSUME DriveIInv, StartBackup
  PROVE  DriveIInv'
  <1> USE DEF DriveIInv
  <1>1. /\ ~job.running
        /\ job' = [IdleJob EXCEPT !.running = TRUE, !.delta = base.exists, !.changed = changed]
        /\ UNCHANGED <<home, name, version, bin, ops, changed, base, refused, resets, fails>>
    BY DEF StartBackup, userVars
  <1>2. Existing' = Existing
    BY <1>1 DEF Existing, Parents
  <1>3. DriveIsGood' /\ BaseFollows'
    BY <1>1, <1>2 DEF DriveIsGood, BaseFollows
  <1>4. /\ job'.running = TRUE /\ job'.delta = base.exists /\ job'.tree = EmptyTree
        /\ job'.changed = changed
    BY <1>1 DEF IdleJob
  <1>5. job' \in Jobs
    <2>1. IdleJob \in Jobs
      BY EmptyTrees DEF IdleJob, Jobs
    <2> QED BY <1>1, <2>1 DEF Jobs, BaseFollows, DriveIsGood
  <1>6. JobIsGood'
    BY <1>1, <1>4, <1>5, EmptyTrees DEF JobIsGood, BaseFollows
  <1>7. TreeFollows'
    <2>0. ~EmptyTree.hadReset
      BY DEF EmptyTree
    <2> SUFFICES ASSUME base.exists, NEW x \in Things \ changed PROVE Follows(x)'
      BY <1>1, <1>4, <2>0 DEF TreeFollows
    <2>1. ~EmptyTree.hadReset /\ Without(EmptyTree, x)
      BY DEF EmptyTree, Without
    <2> QED BY <1>1, <1>4, <2>1 DEF Follows, Without
  <1> QED BY <1>3, <1>6, <1>7

(* Whether it reports what has changed or, after a reset, what there is: a *)
(* page has all that the tree lacks.                                       *)
LEMMA EnumerateKeeps ==
  ASSUME DriveIInv, NEW reset \in BOOLEAN, Enumerate(reset)
  PROVE  DriveIInv'
  <1> USE DEF DriveIInv
  <1> DEFINE t == IF reset THEN ResetTree(job.tree) ELSE job.tree
             R == IF reset \/ ~job.delta THEN Existing ELSE job.changed
             page == PageOf(R)
             u == AddPage(t, page)
  <1>1. /\ job.running /\ (reset => job.delta /\ resets < MaxResets)
        /\ job' = [job EXCEPT !.tree = u, !.delta = TRUE, !.changed = {}]
        /\ resets' = IF reset THEN resets + 1 ELSE resets
        /\ UNCHANGED <<home, name, version, bin, ops, changed, base, refused, fails>>
    BY DEF Enumerate, userVars, JobIsGood, Jobs
  <1>2. Existing' = Existing
    BY <1>1 DEF Existing, Parents
  <1>3. t \in Trees /\ TreeIsOne(t)
    BY EmptyTrees DEF JobIsGood, Jobs
  <1>4. R \in SUBSET Things
    BY ExistingIs DEF JobIsGood, Jobs
  <1> HIDE DEF R
  <1>5. /\ R \subseteq page /\ Root \in page /\ page \subseteq Things \cup {Root}
        /\ \A x \in page \cap Existing : home[x] \in page
        /\ IsFiniteSet(page)
    BY <1>4, PageIs
  <1> HIDE DEF t, page
  <1>6. /\ u \in Trees /\ TreeIsOne(u) /\ u.hadReset = t.hadReset
        /\ \A x \in page : Has(u, x)
        /\ \A x \in (Things \cup {Root}) \ page : SameOf(t, u, x)
    BY <1>3, <1>5, PageComes
  <1> HIDE DEF u
  <1>7. /\ job'.running = TRUE /\ job'.delta = TRUE /\ job'.tree = u /\ job'.changed = {}
        /\ job' \in Jobs
    BY <1>1, <1>6 DEF JobIsGood, Jobs
  <1>8. DriveIsGood' /\ BaseFollows'
    BY <1>1, <1>2, DriveAssumption DEF DriveIsGood, BaseFollows
  <1>9. JobIsGood'
    BY <1>1, <1>6, <1>7 DEF JobIsGood
  <1>10. ASSUME NEW x \in Things
         PROVE  \/ Has(u, x) /\ (x \in Existing => home[x] \in u.live)
                \/ /\ Without(u, x)
                   /\ IF u.hadReset \/ ~base.exists THEN x \notin Existing ELSE x \notin changed
    <2>0. \A y \in page : y \notin Files /\ (y \in Existing \/ y = Root) => y \in u.live
      BY <1>6, ExistingIs, IDAssumption DEF Has, Things
    <2>1. CASE x \in page
      <3>1. x \in Existing => home[x] \in u.live
        <4> SUFFICES ASSUME x \in Existing PROVE home[x] \in u.live
          OBVIOUS
        <4>1. home[x] \in page /\ home[x] \in FoldersNow \cup {Root}
          BY <1>5, <2>1, ExistingIs
        <4> QED BY <2>0, <4>1, IDAssumption DEF FoldersNow
      <3> QED BY <1>6, <2>1, <3>1
    <2>2. CASE x \notin page /\ (reset \/ ~job.delta)
      <3>1. x \notin Existing
        BY <1>5, <2>2 DEF R
      <3>2. SameOf(t, u, x)
        BY <1>6, <2>2
      <3>3. CASE reset
        <4>1. /\ t.live = {} /\ t.tombstones = {} /\ t.hadReset
              /\ \A f \in Files : t.fileParent[f] = Nowhere
          BY <3>3 DEF t, ResetTree, EmptyTree
        <4>2. CASE x \in Files
          BY <1>6, <3>1, <3>2, <4>1, <4>2 DEF Has, Without, SameOf
        <4>3. CASE x \in Folders
          BY <1>6, <3>1, <3>2, <4>1, <4>3, IDAssumption DEF Without, SameOf
        <4> QED BY <4>2, <4>3 DEF Things
      <3>4. CASE ~reset /\ ~job.delta
        <4>1. t = EmptyTree /\ ~base.exists
          BY <1>1, <3>4 DEF t, JobIsGood, BaseFollows
        <4>2. CASE x \in Files
          BY <1>6, <3>1, <3>2, <4>1, <4>2 DEF Without, SameOf, EmptyTree
        <4>3. CASE x \in Folders
          BY <1>6, <3>1, <3>2, <4>1, <4>3, IDAssumption DEF Without, SameOf, EmptyTree
        <4> QED BY <4>2, <4>3 DEF Things
      <3> QED BY <2>2, <3>3, <3>4
    <2>3. CASE x \notin page /\ ~reset /\ job.delta
      <3>1. t = job.tree /\ R = job.changed /\ x \notin job.changed
        BY <1>5, <2>3 DEF t, R
      <3>2. Follows(x) /\ SameOf(t, u, x)
        BY <1>6, <2>3, <3>1 DEF TreeFollows
      <3>3. Has(t, x) => Has(u, x)
        BY <3>2, HasSame
      <3>4. Without(t, x) => Without(u, x)
        BY <3>2, IDAssumption DEF Without, SameOf, Things
      <3>5. x \in Existing /\ home[x] \in t.live \cup job.changed => home[x] \in u.live
        <4> SUFFICES ASSUME x \in Existing, home[x] \in t.live \cup job.changed
                     PROVE  home[x] \in u.live
          OBVIOUS
        <4>1. home[x] \in FoldersNow \cup {Root} /\ home[x] \in Things \cup {Root}
          BY ExistingIs DEF FoldersNow, Things
        <4>2. CASE home[x] \in page
          BY <2>0, <4>1, <4>2, IDAssumption DEF FoldersNow
        <4>3. CASE home[x] \notin page
          <5>1. home[x] \in t.live /\ SameOf(t, u, home[x])
            BY <1>5, <1>6, <3>1, <4>1, <4>3
          <5> QED BY <4>1, <5>1, IDAssumption DEF SameOf, FoldersNow
        <4> QED BY <4>2, <4>3
      <3> QED BY <1>6, <3>1, <3>2, <3>3, <3>4, <3>5 DEF Follows
    <2> QED BY <2>1, <2>2, <2>3
  <1>11. TreeFollows'
    <2>0. Root \in u.live
      BY <1>5, <1>6, ExistingIs, IDAssumption DEF Has, Things
    <2> SUFFICES ASSUME NEW x \in Things PROVE Follows(x)'
      BY <1>7, <2>0 DEF TreeFollows
    <2>1. Has(u, x) => Has(job.tree, x)'
      BY <1>1, <1>2, <1>7 DEF Has
    <2>2. Without(u, x) => Without(job.tree, x)'
      BY <1>7 DEF Without
    <2> QED BY <1>1, <1>2, <1>7, <1>10, <2>1, <2>2 DEF Follows
  <1> QED BY <1>8, <1>9, <1>11

-----------------------------------------------------------------------------
(* The end of a backup.                                                    *)

(* What the tree knows when nothing is left to report: the folders in it   *)
(* are as they are in the drive, those that are not in it are as the base  *)
(* has them, and so are those that are gone, or they are tombstones.       *)
LEMMA TreeAtTheEnd ==
  ASSUME DriveIInv, job.delta, job.changed = {}
  PROVE  /\ \A x \in job.tree.live \ {Root} :
              /\ x \in FoldersNow /\ home[x] \in job.tree.live
              /\ job.tree.up[x] = home[x] /\ job.tree.name[x] = name[x]
         /\ \A x \in FoldersNow \ job.tree.live :
              ~job.tree.hadReset /\ base.exists /\ x \notin changed
         /\ \A x \in Folders \ Existing :
              \/ x \in job.tree.tombstones
              \/ job.tree.hadReset \/ ~base.exists \/ x \notin changed
         /\ job.tree.tombstones \cap Existing = {}
  <1> USE DEF DriveIInv
  <1>1. /\ job.tree \in Trees /\ TreeIsOne(job.tree)
        /\ \A x \in Folders : Follows(x)
    BY DEF JobIsGood, Jobs, TreeFollows, Things
  <1>2. \A x \in Folders : x \notin Files /\ x # Root
    BY IDAssumption
  <1>3. ASSUME NEW x \in job.tree.live \ {Root}
        PROVE  /\ x \in FoldersNow /\ home[x] \in job.tree.live
               /\ job.tree.up[x] = home[x] /\ job.tree.name[x] = name[x]
    <2>1. x \in Folders /\ x \notin job.tree.tombstones
      BY <1>1 DEF Trees, TreeIsOne, Dirs
    <2>2. Has(job.tree, x) /\ (x \in Existing => home[x] \in job.tree.live)
      BY <1>1, <1>2, <2>1 DEF Follows, Without
    <2> QED BY <1>2, <2>1, <2>2 DEF Has, FoldersNow
  <1>4. ASSUME NEW x \in FoldersNow \ job.tree.live
        PROVE  ~job.tree.hadReset /\ base.exists /\ x \notin changed
    BY <1>1, <1>2, <1>4 DEF Follows, Has, FoldersNow
  <1>5. ASSUME NEW x \in Folders \ Existing
        PROVE  \/ x \in job.tree.tombstones
               \/ job.tree.hadReset \/ ~base.exists \/ x \notin changed
    BY <1>1, <1>2, <1>5 DEF Follows, Has
  <1>6. ASSUME NEW x \in job.tree.tombstones, x \in Existing PROVE FALSE
    <2>1. x \in Folders /\ x \notin job.tree.live
      BY <1>1 DEF Trees, TreeIsOne
    <2> QED BY <1>1, <1>2, <1>6, <2>1 DEF Follows, Has, Without
  <1> QED BY <1>3, <1>4, <1>5, <1>6

(* The tree with the previous paths of the base.                           *)
LastTree == AddPrevPathsToTree(job.tree, base.prevs)

(* It takes the paths of what was enumerated, and, after a reset, what was *)
(* not becomes a tombstone.                                                *)
LEMMA LastTreeIs ==
  ASSUME DriveIInv
  PROVE  /\ LastTree.live = job.tree.live /\ LastTree.up = job.tree.up
         /\ LastTree.name = job.tree.name /\ LastTree.files = job.tree.files
         /\ LastTree.version = job.tree.version /\ LastTree.fileParent = job.tree.fileParent
         /\ LastTree.deleted = job.tree.deleted /\ LastTree.hadReset = job.tree.hadReset
         /\ \A x \in Dirs : LastTree.prev[x] =
              IF x \in DOMAIN base.prevs
                 /\ (x \in job.tree.live \cup job.tree.tombstones \/ job.tree.hadReset)
              THEN base.prevs[x] ELSE Nowhere
         /\ LastTree.tombstones = job.tree.tombstones \cup
              {x \in DOMAIN base.prevs :
                 job.tree.hadReset /\ x \notin job.tree.live \cup job.tree.tombstones}
  <1> DEFINE t == job.tree
             p == base.prevs
             kept == {x \in DOMAIN p : x \in t.live \cup t.tombstones \/ t.hadReset}
             prev == [x \in Dirs |-> IF x \in kept THEN p[x] ELSE t.prev[x]]
             dead == t.tombstones \cup (kept \ t.live)
  <1>1. t \in Trees
    BY DEF DriveIInv, JobIsGood, Jobs
  <1>2. LastTree = [t EXCEPT !.prev = prev, !.tombstones = dead]
    BY <1>1 DEF LastTree, AddPrevPathsToTree, TakesPreviousPath, Trees
  <1>3. \A x \in Dirs : prev[x] = IF x \in kept THEN p[x] ELSE Nowhere
    BY <1>1 DEF Trees
  <1>4. dead = t.tombstones \cup {x \in DOMAIN p : t.hadReset /\ x \notin t.live \cup t.tombstones}
    OBVIOUS
  <1>5. /\ LastTree.live = t.live /\ LastTree.up = t.up /\ LastTree.name = t.name
        /\ LastTree.prev = prev /\ LastTree.tombstones = dead
        /\ LastTree.files = t.files /\ LastTree.version = t.version
        /\ LastTree.fileParent = t.fileParent /\ LastTree.deleted = t.deleted
        /\ LastTree.hadReset = t.hadReset
    <2> HIDE DEF prev, dead
    <2> QED BY <1>1, <1>2 DEF Trees
  <1> HIDE DEF prev, dead, t
  <1> QED BY <1>3, <1>4, <1>5 DEF t

(* The paths of the drive: all of them are there, and they are different.  *)
LEMMA PlacesAre ==
  ASSUME DriveIsGood
  PROVE  /\ Forest(Parents) /\ FoldersNow \subseteq DOMAIN Parents
         /\ FoldersNow \subseteq Below(Parents, Root)
         /\ \A x \in FoldersNow : /\ Parents[x] = home[x] /\ home[x] \in FoldersNow \cup {Root}
                                  /\ name[x] \in Names
                                  /\ Paths(Parents, name)[x] =
                                       Append(Paths(Parents, name)[home[x]], name[x])
         /\ Paths(Parents, name)[Root] = <<>>
         /\ \A x \in FoldersNow \cup {Root} :
              Paths(Parents, name)[x] \in Seq(Names) /\ PlaceOf(x) = Paths(Parents, name)[x]
         /\ \A x, y \in FoldersNow \cup {Root} :
              Paths(Parents, name)[x] = Paths(Parents, name)[y] => x = y
  <1>1. /\ Forest(Parents) /\ DOMAIN Parents = Things
        /\ \A x \in Existing : Parents[x] = home[x] /\ x \notin bin
    BY ExistingIsPresent, PresentIs DEF DriveIsGood
  <1>2. \A x \in FoldersNow : /\ x \in Folders /\ x \in Things /\ x \notin bin
                              /\ Parents[x] = home[x] /\ home[x] \in FoldersNow \cup {Root}
    BY <1>1, ExistingIs DEF FoldersNow, Things
  <1>3. \A x \in FoldersNow : home[x] # Nowhere /\ name[x] \in Names
    BY <1>2, IDAssumption DEF DriveIsGood, GoodDrive, FoldersNow
  <1>4. \A x, y \in FoldersNow : Parents[x] = Parents[y] /\ name[x] = name[y] => x = y
    BY <1>2, <1>3 DEF DriveIsGood, GoodDrive
  <1>5. Root \notin FoldersNow
    BY IDAssumption DEF FoldersNow
  <1>6. /\ FoldersNow \subseteq Below(Parents, Root)
        /\ \A x \in FoldersNow \cup {Root} : Paths(Parents, name)[x] \in Seq(Names)
        /\ \A x, y \in FoldersNow \cup {Root} :
             Paths(Parents, name)[x] = Paths(Parents, name)[y] => x = y
    <2> DEFINE up == Parents
               S == FoldersNow
    <2>1. /\ Forest(up) /\ Root \notin S
          /\ \A x \in S : x \in DOMAIN up /\ up[x] \in S \cup {Root} /\ name[x] \in Names
          /\ \A x, y \in S : up[x] = up[y] /\ name[x] = name[y] => x = y
      BY <1>1, <1>2, <1>3, <1>4, <1>5
    <2> HIDE DEF up, S
    <2>2. /\ S \subseteq Below(up, Root)
          /\ \A x \in S \cup {Root} : Paths(up, name)[x] \in Seq(Names)
          /\ \A x, y \in S \cup {Root} : Paths(up, name)[x] = Paths(up, name)[y] => x = y
      BY <2>1, PathsDiffer
    <2> QED BY <2>2 DEF up, S
  <1>7. /\ Paths(Parents, name)[Root] = <<>>
        /\ \A x \in FoldersNow :
             Paths(Parents, name)[x] = Append(Paths(Parents, name)[Parents[x]], name[x])
    BY <1>1, <1>5, <1>6, PathsAre
  <1>8. \A x \in FoldersNow \cup {Root} : x \notin Files
    BY IDAssumption DEF FoldersNow
  <1>9. \A x \in FoldersNow \cup {Root} : PlaceOf(x) = Paths(Parents, name)[x]
    BY <1>8 DEF PlaceOf
  <1> QED BY <1>1, <1>2, <1>3, <1>6, <1>7, <1>9

(* The collections of a backup tell where the folders of the drive are,    *)
(* and which are gone.                                                     *)
LEMMA CollectionsTellPlaces ==
  ASSUME DriveIInv, job.delta, job.changed = {}
  PROVE  /\ CollectionsTell(Collectables(LastTree), base.prevs, job.tree.live,
                            FoldersNow \cup {Root}, Parents, name, Paths(Parents, name))
         /\ \A c \in Collectables(LastTree) :
              /\ c.loc = c.cur /\ c.prevLoc = c.prev
              /\ c.removed = {} /\ c.reset = job.tree.hadReset
              /\ c.cur # Nowhere => c.files = FilesOf(LastTree, c.id)
              /\ c.cur = Nowhere => /\ c.id \in DOMAIN base.prevs \ (FoldersNow \cup {Root})
                                    /\ c.prev = base.prevs[c.id]
         /\ \A c, d \in Collectables(LastTree) : c.id = d.id => c = d
  <1> USE DEF DriveIInv
  <1> DEFINE t == job.tree
             p == base.prevs
             L == t.live
             T == FoldersNow \cup {Root}
             place == Paths(Parents, name)
             u == LastTree
             colls == Collectables(u)
  <1>1. /\ t \in Trees /\ TreeIsOne(t) /\ L \subseteq Dirs
        /\ Root \notin FoldersNow /\ Nowhere \notin Dirs /\ FoldersNow = Folders \cap Existing
    BY IDAssumption DEF JobIsGood, Jobs, Trees, Dirs, FoldersNow
  <1>2. /\ \A x \in L \ {Root} : /\ x \in FoldersNow /\ home[x] \in L
                                 /\ t.up[x] = home[x] /\ t.name[x] = name[x]
        /\ \A x \in FoldersNow \ L : ~t.hadReset /\ base.exists /\ x \notin changed
        /\ \A x \in Folders \ Existing :
             x \in t.tombstones \/ t.hadReset \/ ~base.exists \/ x \notin changed
        /\ t.tombstones \cap Existing = {}
    BY TreeAtTheEnd
  <1>3. /\ u.live = L /\ u.up = t.up /\ u.name = t.name /\ u.hadReset = t.hadReset
        /\ \A x \in Dirs : u.prev[x] = IF x \in DOMAIN p /\ (x \in L \cup t.tombstones \/ t.hadReset)
                                       THEN p[x] ELSE Nowhere
        /\ u.tombstones = t.tombstones \cup
             {x \in DOMAIN p : t.hadReset /\ x \notin L \cup t.tombstones}
    BY LastTreeIs
  <1>4. /\ base.exists \in BOOLEAN
        /\ ~base.exists => DOMAIN p = {}
        /\ base.exists => Root \in DOMAIN p /\ p[Root] = <<>>
        /\ DOMAIN p \subseteq Dirs
        /\ \A x \in DOMAIN p : p[x] \in Seq(Names)
        /\ \A x, y \in DOMAIN p : p[x] = p[y] => x = y
        /\ base.exists => \A x \in Folders \ changed :
             /\ x \in DOMAIN p <=> x \in Existing
             /\ x \in Existing => home[x] \in DOMAIN p /\ p[x] = Append(p[home[x]], name[x])
    BY DEF BaseFollows
  <1>5. L # {} => Root \in L
    BY <1>1 DEF TreeIsOne
  <1>6. t.hadReset \/ ~base.exists => Root \in L
    BY DEF TreeFollows
  <1>7. /\ Forest(Parents) /\ FoldersNow \subseteq DOMAIN Parents
        /\ \A x \in FoldersNow : /\ Parents[x] = home[x] /\ home[x] \in T
                                 /\ name[x] \in Names
                                 /\ place[x] = Append(place[home[x]], name[x])
        /\ place[Root] = <<>> /\ \A x \in T : place[x] \in Seq(Names)
    BY DriveIInv, PlacesAre
  <1>8. Forest(t.up)
    <2>1. DOMAIN t.up = Dirs /\ \A x \in Dirs : x \in L \ {Root} <=> t.up[x] # Nowhere
      BY <1>1 DEF Trees, TreeIsOne
    <2>2. Forest(home) /\ DOMAIN home = Things /\ FoldersNow \subseteq Things
      BY <1>1 DEF DriveIsGood, GoodDrive, Things
    <2> SUFFICES ASSUME NEW S \in SUBSET Dirs, S # {}, \A x \in S : t.up[x] \in S PROVE FALSE
      BY <2>1 DEF Forest
    <2>3. \A x \in S : x \in FoldersNow /\ home[x] \in S
      BY <1>1, <1>2, <2>1
    <2> QED BY <2>2, <2>3 DEF Forest
  <1> HIDE DEF t, p, L, place, u
  <1>9. /\ L \ {Root} \subseteq Below(t.up, Root)
        /\ \A x \in (L \ {Root}) \cup {Root} : Paths(t.up, t.name)[x] = place[x]
    <2> DEFINE S == L \ {Root}
    <2>1. \A x \in S :
            /\ x \in DOMAIN t.up /\ x \in DOMAIN Parents /\ t.up[x] = Parents[x]
            /\ t.name[x] = name[x] /\ t.up[x] \in S \cup {Root}
      BY <1>1, <1>2, <1>7 DEF Trees
    <2>2. Root \notin S
      OBVIOUS
    <2>3. Forest(t.up) /\ Forest(Parents)
      BY <1>7, <1>8
    <2> HIDE DEF S
    <2>4. /\ S \subseteq Below(t.up, Root)
          /\ \A x \in S \cup {Root} : Paths(t.up, t.name)[x] = Paths(Parents, name)[x]
      BY <2>1, <2>2, <2>3, PathsAgree
    <2> QED BY <2>4 DEF S, place
  <1>10. Reachable(u) = L /\ \A x \in L : PathIn(u, x) = place[x]
    BY <1>3, <1>5, <1>9 DEF Reachable, PathIn
  <1>11. L \subseteq T
    BY <1>2
  <1>12. \A x \in T \ L : /\ x \in DOMAIN p
                          /\ x # Root => /\ Parents[x] \in T /\ Parents[x] \in DOMAIN p
                                         /\ name[x] \in Names
                                         /\ p[x] = Append(p[Parents[x]], name[x])
                                         /\ place[x] = Append(place[Parents[x]], name[x])
    BY <1>1, <1>2, <1>4, <1>6, <1>7
  <1>13. {y \in u.tombstones : u.prev[y] # Nowhere} = DOMAIN p \ T
    <2>1. \A x \in DOMAIN p : x \in Dirs /\ p[x] # Nowhere
      BY <1>4, IDAssumption
    <2>2. t.tombstones \subseteq Folders
      BY <1>1 DEF Trees
    <2>3. ASSUME NEW y \in u.tombstones, u.prev[y] # Nowhere PROVE y \in DOMAIN p \ T
      <3>1. y \in DOMAIN p /\ y \in Dirs
        BY <1>3, <2>1, <2>2, <2>3 DEF Dirs
      <3>2. y \notin T
        <4>1. CASE y \in t.tombstones
          BY <1>1, <1>2, <2>2, <4>1, IDAssumption
        <4>2. CASE t.hadReset /\ y \notin L
          <5>1. y # Root
            BY <1>6, <4>2
          <5>2. y \notin FoldersNow
            BY <1>2, <4>2
          <5> QED BY <5>1, <5>2
        <4> QED BY <1>3, <4>1, <4>2
      <3> QED BY <3>1, <3>2
    <2>4. ASSUME NEW y \in DOMAIN p \ T PROVE y \in u.tombstones /\ u.prev[y] # Nowhere
      <3>1. y \in Folders \ Existing /\ y \notin L /\ y \in Dirs
        BY <1>1, <1>11, <2>1 DEF Dirs
      <3>2. y \in t.tombstones \/ t.hadReset
        BY <1>2, <1>4, <3>1
      <3> QED BY <1>3, <2>1, <3>1, <3>2
    <2> QED BY <2>3, <2>4
  <1>14. \A x \in L : u.prev[x] = IF x \in DOMAIN p THEN p[x] ELSE Nowhere
    BY <1>1, <1>3
  <1>15. \A y \in DOMAIN p \ T : u.prev[y] = p[y]
    BY <1>3, <1>4, <1>13
  <1>16. /\ \A c \in colls :
              \/ \E x \in L : c.id = x /\ c.cur = place[x] /\ c.prev = u.prev[x]
              \/ \E y \in DOMAIN p \ T : c.cur = Nowhere /\ c.prev = u.prev[y]
         /\ \A x \in L : \E c \in colls : c.id = x /\ c.cur = place[x]
         /\ \A y \in DOMAIN p \ T : \E c \in colls : c.cur = Nowhere /\ c.prev = u.prev[y]
         /\ \A c \in colls :
              /\ c.loc = c.cur /\ c.prevLoc = c.prev
              /\ c.removed = {} /\ c.reset = t.hadReset
              /\ c.id \in L => c.cur = place[c.id] /\ c.files = FilesOf(u, c.id)
              /\ c.id \notin L => /\ c.cur = Nowhere /\ c.prev = u.prev[c.id]
                                   /\ c.id \in DOMAIN p \ T
         /\ \A c, d \in colls : c.id = d.id => c = d
    <2> DEFINE G == {y \in u.tombstones : u.prev[y] # Nowhere}
               collection(x, cur, files) ==
                 [id |-> x, cur |-> cur, prev |-> u.prev[x], files |-> files, removed |-> {},
                  reset |-> u.hadReset, loc |-> cur, prevLoc |-> u.prev[x]]
    <2>1. colls = {collection(x, PathIn(u, x), FilesOf(u, x)) : x \in L}
                    \cup {collection(x, Nowhere, {}) : x \in G}
      BY <1>10 DEF Collectables
    <2>2. \A x, cur, files : /\ collection(x, cur, files).id = x
                             /\ collection(x, cur, files).cur = cur
                             /\ collection(x, cur, files).files = files
                             /\ collection(x, cur, files).prev = u.prev[x]
                             /\ collection(x, cur, files).loc = cur
                             /\ collection(x, cur, files).prevLoc = u.prev[x]
                             /\ collection(x, cur, files).removed = {}
                             /\ collection(x, cur, files).reset = u.hadReset
      OBVIOUS
    <2>3. G = DOMAIN p \ T
      BY <1>13
    <2> HIDE DEF G, collection, colls
    <2>4. \A c \in colls :
            \/ \E x \in L : c = collection(x, PathIn(u, x), FilesOf(u, x))
            \/ \E y \in DOMAIN p \ T : c = collection(y, Nowhere, {})
      BY <2>1, <2>3
    <2>5. \A c, d \in colls : c.id = d.id => c = d
      BY <1>11, <2>2, <2>4
    <2>6. \A c \in colls :
            /\ c.loc = c.cur /\ c.prevLoc = c.prev
            /\ c.removed = {} /\ c.reset = t.hadReset
      BY <1>3, <2>2, <2>4
    <2>7. \A c \in colls :
            /\ c.id \in L => c.cur = place[c.id] /\ c.files = FilesOf(u, c.id)
            /\ c.id \notin L => /\ c.cur = Nowhere /\ c.prev = u.prev[c.id]
                                 /\ c.id \in DOMAIN p \ T
      BY <1>10, <1>11, <2>2, <2>4
    <2> QED BY <1>10, <2>1, <2>2, <2>3, <2>5, <2>6, <2>7
  <1> HIDE DEF colls
  <1>17. \A x \in L : place[x] # Nowhere
    BY <1>7, <1>11, IDAssumption
  <1>18. /\ \A c \in colls : c.cur # Nowhere =>
              /\ c.id \in L /\ c.cur = place[c.id]
              /\ c.prev = IF c.id \in DOMAIN p THEN p[c.id] ELSE Nowhere
         /\ \A x \in L : \E c \in colls : c.cur # Nowhere /\ c.id = x
         /\ \A c \in colls : c.cur = Nowhere => \E y \in DOMAIN p \ T : c.prev = p[y]
         /\ \A x \in DOMAIN p \ T : \E c \in colls : c.cur = Nowhere /\ c.prev = p[x]
    BY <1>14, <1>15, <1>16, <1>17
  <1>19. /\ T \ {Root} \subseteq DOMAIN Parents /\ Root \in T
         /\ Root \in DOMAIN p => p[Root] = <<>>
    BY <1>4, <1>7
  <1>20. CollectionsTell(colls, p, L, T, Parents, name, place)
    <2>1. /\ T \ L \subseteq DOMAIN p
          /\ \A x \in (T \ L) \ {Root} :
               /\ Parents[x] \in T /\ Parents[x] \in DOMAIN p /\ name[x] \in Names
               /\ p[x] = Append(p[Parents[x]], name[x])
               /\ place[x] = Append(place[Parents[x]], name[x])
      BY <1>12
    <2>2. /\ Forest(Parents) /\ place[Root] = <<>> /\ \A x \in T : place[x] \in Seq(Names)
      BY <1>7
    <2>3. /\ \A x \in DOMAIN p : p[x] \in Seq(Names)
          /\ \A x, y \in DOMAIN p : p[x] = p[y] => x = y
      BY <1>4
    <2> HIDE DEF T
    <2> QED BY <1>11, <1>18, <1>19, <2>1, <2>2, <2>3 DEF CollectionsTell
  <1>21. \A c \in colls :
           /\ c.loc = c.cur /\ c.prevLoc = c.prev
           /\ c.removed = {} /\ c.reset = t.hadReset
           /\ c.cur # Nowhere => c.files = FilesOf(u, c.id)
           /\ c.cur = Nowhere => c.id \in DOMAIN p \ T /\ c.prev = p[c.id]
    BY <1>15, <1>16, <1>17
  <1> QED BY <1>16, <1>20, <1>21 DEF colls, u, p, L, t, place

(* A backup that is finished leaves the paths of the drive, all different; *)
(* one that is refused leaves what there was.                              *)
LEMMA FinishFollows ==
  ASSUME DriveIInv, Finish
  PROVE  /\ base' # base => base'.prevs = [x \in FoldersNow \cup {Root} |-> PlaceOf(x)]
         /\ BaseFollows'
  <1> USE DEF DriveIInv
  <1> DEFINE colls == Collectables(LastTree)
             prevs == NewPreviousPaths(colls, base.prevs)
             T == FoldersNow \cup {Root}
             place == Paths(Parents, name)
  <1>1. /\ job.delta /\ job.changed = {}
        /\ UNCHANGED <<home, name, bin>>
        /\ \/ UNCHANGED <<base, changed>>
           \/ base'.exists = TRUE /\ base'.prevs = prevs /\ changed' = {}
    BY DEF Finish, userVars, LastTree
  <1>2. Existing' = Existing
    BY <1>1 DEF Existing, Parents
  <1>3. prevs = [x \in T |-> place[x]]
    <2>1. CollectionsTell(colls, base.prevs, job.tree.live, T, Parents, name, place)
      BY <1>1, CollectionsTellPlaces
    <2> HIDE DEF colls, T, place
    <2> QED BY <2>1, NewPreviousPathsAre
  <1>4. /\ \A x \in T : place[x] \in Seq(Names) /\ PlaceOf(x) = place[x]
        /\ \A x, y \in T : place[x] = place[y] => x = y
        /\ place[Root] = <<>>
        /\ \A x \in FoldersNow : home[x] \in T /\ place[x] = Append(place[home[x]], name[x])
    BY PlacesAre
  <1> HIDE DEF prevs, place
  <1>5. prevs = [x \in FoldersNow \cup {Root} |-> PlaceOf(x)]
    BY <1>3, <1>4
  <1>6. CASE UNCHANGED <<base, changed>>
    BY <1>1, <1>2, <1>6 DEF BaseFollows
  <1>7. CASE base'.exists = TRUE /\ base'.prevs = prevs /\ changed' = {}
    <2>1. /\ DOMAIN prevs = T /\ T \subseteq Dirs /\ Root \in T
          /\ \A x \in T : prevs[x] = place[x]
          /\ \A x \in Folders : x \in T <=> x \in Existing
          /\ \A x \in Folders : x \in Existing => x \in FoldersNow
      BY <1>3, IDAssumption DEF FoldersNow, Dirs
    <2>2. \A x \in Folders :
            /\ x \in DOMAIN prevs <=> x \in Existing
            /\ x \in Existing => /\ home[x] \in DOMAIN prevs
                                 /\ prevs[x] = Append(prevs[home[x]], name[x])
      BY <1>4, <2>1
    <2>3. /\ \A x \in DOMAIN prevs : prevs[x] \in Seq(Names)
          /\ \A x, y \in DOMAIN prevs : prevs[x] = prevs[y] => x = y
          /\ prevs[Root] = <<>>
      BY <1>4, <2>1
    <2> HIDE DEF T
    <2>4. BaseFollows'
      BY <1>1, <1>2, <1>7, <2>1, <2>2, <2>3 DEF BaseFollows
    <2> QED BY <1>5, <1>7, <2>4
  <1> QED BY <1>1, <1>6, <1>7

LEMMA IdleJobIsGood ==
  /\ IdleJob \in Jobs /\ TreeIsOne(IdleJob.tree) /\ IdleJob.tree = EmptyTree
  /\ ~IdleJob.running /\ ~IdleJob.delta /\ IdleJob.changed = {}
  BY EmptyTrees DEF IdleJob, Jobs

LEMMA FinishKeeps ==
  ASSUME DriveIInv, Finish
  PROVE  DriveIInv'
  <1>1. /\ job' = IdleJob
        /\ UNCHANGED <<home, name, version, bin, ops, resets, fails>>
        /\ changed' = changed \/ changed' = {}
        /\ refused' = TRUE \/ refused' = refused
    BY DEF Finish, userVars
  <1>2. DriveIsGood'
    BY <1>1 DEF DriveIInv, DriveIsGood
  <1>3. JobIsGood'
    BY <1>1, IdleJobIsGood DEF JobIsGood
  <1>4. TreeFollows'
    BY <1>1, IdleJobIsGood DEF TreeFollows
  <1> QED BY <1>2, <1>3, <1>4, FinishFollows DEF DriveIInv

LEMMA FailKeeps ==
  ASSUME DriveIInv, Fail
  PROVE  DriveIInv'
  <1>1. /\ job' = IdleJob /\ fails' = fails + 1 /\ fails < MaxFails
        /\ UNCHANGED <<home, name, version, bin, ops, changed, base, refused, resets>>
    BY DEF Fail, userVars
  <1>2. Existing' = Existing
    BY <1>1 DEF Existing, Parents
  <1>3. DriveIsGood' /\ BaseFollows'
    BY <1>1, <1>2, DriveAssumption DEF DriveIInv, DriveIsGood, BaseFollows
  <1>4. JobIsGood'
    BY <1>1, IdleJobIsGood DEF JobIsGood
  <1>5. TreeFollows'
    BY <1>1, IdleJobIsGood DEF TreeFollows
  <1> QED BY <1>3, <1>4, <1>5 DEF DriveIInv

LEMMA NextDriveIInv ==
  ASSUME DriveIInv, [Next]_vars
  PROVE  DriveIInv'
  <1>1. CASE User
    BY <1>1, UserKeeps
  <1>2. CASE StartBackup
    BY <1>2, StartKeeps
  <1>3. ASSUME NEW reset \in BOOLEAN, Enumerate(reset) PROVE DriveIInv'
    BY <1>3, EnumerateKeeps
  <1>4. CASE Finish
    BY <1>4, FinishKeeps
  <1>5. CASE Fail
    BY <1>5, FailKeeps
  <1>6. CASE UNCHANGED vars
    <2>1. UNCHANGED <<home, name, version, bin, changed, base, job, refused, ops, resets, fails>>
      BY <1>6 DEF vars
    <2>2. Existing' = Existing
      BY <2>1 DEF Existing, Parents
    <2>3. DriveIsGood' /\ JobIsGood' /\ BaseFollows'
      BY <2>1, <2>2 DEF DriveIInv, DriveIsGood, JobIsGood, BaseFollows
    <2>4. TreeFollows'
      BY <2>1, <2>2 DEF DriveIInv, TreeFollows, Follows, Has, Without
    <2> QED BY <2>3, <2>4 DEF DriveIInv
  <1> QED BY <1>1, <1>2, <1>3, <1>4, <1>5, <1>6 DEF Next

LEMMA Typed == DriveIInv => TypeOK
  <1> SUFFICES ASSUME DriveIInv PROVE TypeOK
    OBVIOUS
  <1> USE DEF DriveIInv
  <1>1. /\ home \in [Things -> Dirs \cup {Nowhere}] /\ bin \subseteq Things
        /\ changed \subseteq Things
        /\ ops \in 0..MaxOps /\ resets \in 0..MaxResets /\ fails \in 0..MaxFails
    BY DEF DriveIsGood, GoodDrive
  <1>2. version \in [Files -> 1..MaxOps + 1]
    <2>1. 1..ops + 1 \subseteq 1..MaxOps + 1
      BY <1>1, DriveAssumption
    <2> QED BY <2>1 DEF DriveIsGood
  <1>3. job.tree \in Trees /\ TreeIsOne(job.tree) /\ job.changed \subseteq Things
    BY DEF JobIsGood, Jobs
  <1>4. /\ job.tree.live \subseteq Dirs
        /\ job.tree.live \cap job.tree.tombstones = {}
        /\ \A x \in job.tree.live \ {Root} : job.tree.up[x] \in Dirs
        /\ \A f \in Files : \A x \in Dirs :
             f \in job.tree.files[x] => job.tree.fileParent[f] = x
    BY <1>3 DEF Trees, TreeIsOne
  <1> QED BY <1>1, <1>2, <1>3, <1>4 DEF TypeOK

LEMMA AlwaysDriveIInv == Spec => []DriveIInv
  <1>1. Init => DriveIInv
    BY InitDriveIInv
  <1>2. DriveIInv /\ [Next]_vars => DriveIInv'
    BY NextDriveIInv
  <1> QED BY <1>1, <1>2, PTL DEF Spec

-----------------------------------------------------------------------------
(* What is stored follows the drive.                                       *)

Entry(dir, n, content) == [dir |-> dir, name |-> n, content |-> content]

(* The base has the metadata of all its folders, at their paths, and files *)
(* in them; a file that has not changed since is in it as it is in the     *)
(* drive, or not at all.                                                   *)
SnapFollows ==
  /\ ~base.exists => base.snap = {}
  /\ \A x \in DOMAIN base.prevs \ {Root} :
       /\ base.prevs[x] # <<>>
       /\ \E y \in DOMAIN base.prevs : base.prevs[y] = Front(base.prevs[x])
       /\ Entry(base.prevs[x], ".dirmeta", x) \in base.snap
  /\ \A e \in base.snap : \E x \in DOMAIN base.prevs :
       \/ x # Root /\ e = Entry(base.prevs[x], ".dirmeta", x)
       \/ \E f \in Files : e = Entry(base.prevs[x], f, e.content)
  /\ base.exists =>
       \A f \in Files \ changed :
         /\ f \in Existing => /\ home[f] \in DOMAIN base.prevs
                              /\ Entry(base.prevs[home[f]], f, version[f]) \in base.snap
         /\ \A e \in base.snap : e.name = f =>
              /\ f \in Existing /\ home[f] \in DOMAIN base.prevs
              /\ e = Entry(base.prevs[home[f]], f, version[f])

(* The items that are stored have their details.                           *)
DetailsFollow ==
  \A e \in base.snap : e.name # ".dirmeta" =>
    \E d \in base.details : d.dir = e.dir /\ d.name = e.name /\ d.content = e.content

SnapIInv == ~refused /\ SnapFollows /\ DetailsFollow

-----------------------------------------------------------------------------
(* Paths and their prefixes.                                               *)

LEMMA AppendedSeq ==
  ASSUME NEW S, NEW s \in Seq(S), NEW n \in S
  PROVE  /\ Append(s, n) \in Seq(S) /\ Len(Append(s, n)) = Len(s) + 1
         /\ Append(s, n)[Len(s) + 1] = n
         /\ \A i \in 1..Len(s) : Append(s, n)[i] = s[i]
  OBVIOUS

LEMMA EqualSeq ==
  ASSUME NEW S, NEW s \in Seq(S), NEW t \in Seq(S), Len(s) = Len(t),
         \A i \in 1..Len(s) : s[i] = t[i]
  PROVE  s = t
  OBVIOUS

LEMMA SuffixAppended ==
  ASSUME NEW S, NEW s \in Seq(S), NEW n \in S, NEW k \in 1..Len(s) + 1
  PROVE  SubSeq(Append(s, n), k, Len(s) + 1) = Append(SubSeq(s, k, Len(s)), n)
  <1> DEFINE u == Append(s, n)
             q == SubSeq(s, k, Len(s))
             r == SubSeq(u, k, Len(s) + 1)
             v == Append(q, n)
  <1>1. Len(s) \in Nat
    OBVIOUS
  <1>2. u \in Seq(S) /\ Len(u) = Len(s) + 1 /\ u[Len(s) + 1] = n /\ \A i \in 1..Len(s) : u[i] = s[i]
    BY AppendedSeq
  <1> HIDE DEF u
  <1>3. q \in Seq(S) /\ Len(q) = Len(s) + 1 - k /\ \A i \in 1..Len(s) + 1 - k : q[i] = s[k + i - 1]
    BY <1>1
  <1>4. r \in Seq(S) /\ Len(r) = Len(s) + 2 - k /\ \A i \in 1..Len(s) + 2 - k : r[i] = u[k + i - 1]
    BY <1>1, <1>2
  <1> HIDE DEF q, r
  <1>5. v \in Seq(S) /\ Len(v) = Len(q) + 1 /\ v[Len(q) + 1] = n /\ \A i \in 1..Len(q) : v[i] = q[i]
    BY <1>3, AppendedSeq
  <1> HIDE DEF v
  <1>6. ASSUME NEW i \in 1..Len(r) PROVE r[i] = v[i]
    <2> DEFINE K == Len(s) + 2 - k
    <2>0. Len(s) \in Nat /\ k \in Nat /\ k <= Len(s) + 1 /\ K \in Nat /\ K - 1 = Len(s) + 1 - k
      BY <1>1
    <2>1. i \in 1..K /\ r[i] = u[k + i - 1]
      BY <1>4
    <2> HIDE DEF K
    <2>2. CASE i = K
      <3>1. k + i - 1 = Len(s) + 1 /\ i = Len(q) + 1
        BY <1>3, <2>0, <2>2 DEF K
      <3> QED BY <1>2, <1>5, <2>1, <3>1
    <2>3. CASE i \in 1..K - 1
      <3>1. i \in 1..Len(q) /\ i \in 1..Len(s) + 1 - k
        BY <1>3, <2>0, <2>3
      <3>2. k + i - 1 \in 1..Len(s)
        BY <2>0, <3>1
      <3>3. r[i] = s[k + i - 1] /\ q[i] = s[k + i - 1]
        BY <1>2, <1>3, <2>1, <3>1, <3>2
      <3> QED BY <1>5, <3>1, <3>3
    <2> QED BY <2>0, <2>1, <2>2, <2>3
  <1>7. Len(r) = Len(v)
    BY <1>1, <1>3, <1>4, <1>5
  <1>8. r = v
    BY <1>4, <1>5, <1>6, <1>7, EqualSeq
  <1> QED BY <1>8 DEF r, v, u, q

LEMMA ConcatAppended ==
  ASSUME NEW S, NEW s \in Seq(S), NEW t \in Seq(S), NEW n \in S
  PROVE  s \o Append(t, n) = Append(s \o t, n)
  OBVIOUS

LEMMA PrefixAt ==
  ASSUME NEW S, NEW t \in Seq(S), NEW n \in 0..Len(t)
  PROVE  /\ SubSeq(t, 1, n) \in Seq(S) /\ Len(SubSeq(t, 1, n)) = n
         /\ IsPrefix(SubSeq(t, 1, n), t)
         /\ \A m \in 0..n : SubSeq(SubSeq(t, 1, n), 1, m) = SubSeq(t, 1, m)
  <1>1. SubSeq(t, 1, n) \in Seq(S) /\ Len(SubSeq(t, 1, n)) = n
    OBVIOUS
  <1>2. \A i \in 1..n : SubSeq(t, 1, n)[i] = t[i]
    OBVIOUS
  <1>3. ASSUME NEW m \in 0..n PROVE SubSeq(SubSeq(t, 1, n), 1, m) = SubSeq(t, 1, m)
    <2> DEFINE u == SubSeq(t, 1, n)
    <2>1. u \in Seq(S) /\ Len(u) = n /\ \A i \in 1..n : u[i] = t[i]
      BY <1>1, <1>2
    <2> HIDE DEF u
    <2>2. /\ SubSeq(u, 1, m) \in Seq(S) /\ Len(SubSeq(u, 1, m)) = m
          /\ SubSeq(t, 1, m) \in Seq(S) /\ Len(SubSeq(t, 1, m)) = m
          /\ \A i \in 1..m : SubSeq(u, 1, m)[i] = u[i] /\ SubSeq(t, 1, m)[i] = t[i]
      BY <2>1
    <2>3. SubSeq(u, 1, m) = SubSeq(t, 1, m)
      BY <2>1, <2>2
    <2> QED BY <2>3 DEF u
  <1>4. IsPrefix(SubSeq(t, 1, n), t)
    BY <1>1, <1>3 DEF IsPrefix
  <1> QED BY <1>1, <1>3, <1>4

LEMMA PrefixIs ==
  ASSUME NEW S, NEW s \in Seq(S), NEW t \in Seq(S)
  PROVE  /\ IsPrefix(s, t) <=> Len(s) <= Len(t) /\ s = SubSeq(t, 1, Len(s))
         /\ IsPrefix(s, t) <=> s \in Merge!PrefixesOf(t)
         /\ IsStrictPrefix(s, t) => Len(s) < Len(t)
  <1>1. SubSeq(s, 1, Len(s)) = s /\ SubSeq(t, 1, Len(t)) = t
    OBVIOUS
  <1>2. Len(s) \in Nat /\ Len(t) \in Nat
    OBVIOUS
  <1>3. IsPrefix(s, t) <=> Len(s) <= Len(t) /\ s = SubSeq(t, 1, Len(s))
    BY <1>1 DEF IsPrefix
  <1>4. IsPrefix(s, t) <=> s \in Merge!PrefixesOf(t)
    <2>1. ASSUME NEW n \in 0..Len(t), s = SubSeq(t, 1, n) PROVE IsPrefix(s, t)
      BY <2>1, PrefixAt
    <2>2. ASSUME IsPrefix(s, t) PROVE s \in Merge!PrefixesOf(t)
      <3>1. Len(s) \in 0..Len(t) /\ s = SubSeq(t, 1, Len(s))
        BY <1>2, <1>3, <2>2
      <3> QED BY <3>1 DEF Merge!PrefixesOf
    <2> QED BY <2>1, <2>2 DEF Merge!PrefixesOf
  <1>5. IsStrictPrefix(s, t) => Len(s) < Len(t)
    BY <1>1, <1>2, <1>3 DEF IsStrictPrefix
  <1> QED BY <1>3, <1>4, <1>5

(* A prefix of a path with one more name is the path with it, or a prefix  *)
(* of the path.                                                            *)
LEMMA PrefixOfAppended ==
  ASSUME NEW S, NEW a \in Seq(S), NEW b \in Seq(S), NEW n \in S
  PROVE  /\ IsPrefix(a, Append(b, n)) <=> a = Append(b, n) \/ IsPrefix(a, b)
         /\ IsStrictPrefix(a, Append(b, n)) <=> IsPrefix(a, b)
  <1> DEFINE t == Append(b, n)
  <1>1. /\ t \in Seq(S) /\ Len(t) = Len(b) + 1 /\ Len(b) \in Nat /\ Len(a) \in Nat
        /\ \A i \in 1..Len(b) : t[i] = b[i]
    OBVIOUS
  <1> HIDE DEF t
  <1>2. ASSUME NEW k \in 0..Len(b) PROVE SubSeq(t, 1, k) = SubSeq(b, 1, k)
    <2>1. /\ SubSeq(t, 1, k) \in Seq(S) /\ Len(SubSeq(t, 1, k)) = k
          /\ SubSeq(b, 1, k) \in Seq(S) /\ Len(SubSeq(b, 1, k)) = k
          /\ \A i \in 1..k : SubSeq(t, 1, k)[i] = t[i] /\ SubSeq(b, 1, k)[i] = b[i]
      BY <1>1
    <2> QED BY <1>1, <2>1
  <1>3. CASE Len(a) <= Len(b)
    <2>1. IsPrefix(a, t) <=> IsPrefix(a, b)
      BY <1>1, <1>2, <1>3, PrefixIs
    <2>2. a # t
      BY <1>1, <1>3
    <2> QED BY <2>1, <2>2 DEF IsStrictPrefix, t
  <1>4. CASE Len(a) > Len(b)
    <2>1. ~IsPrefix(a, b)
      BY <1>1, <1>4, PrefixIs
    <2>2. IsPrefix(a, t) => a = t
      <3>1. IsPrefix(a, t) => Len(a) = Len(t) /\ a = SubSeq(t, 1, Len(t))
        BY <1>1, <1>4, PrefixIs
      <3>2. SubSeq(t, 1, Len(t)) = t
        BY <1>1
      <3> QED BY <3>1, <3>2
    <2>3. IsPrefix(t, t)
      BY <1>1 DEF IsPrefix
    <2> QED BY <2>1, <2>2, <2>3 DEF IsStrictPrefix, t
  <1> QED BY <1>1, <1>3, <1>4

(* Two prefixes of one path: one is a prefix of the other.                 *)
LEMMA PrefixesCompare ==
  ASSUME NEW S, NEW a \in Seq(S), NEW b \in Seq(S), NEW t \in Seq(S),
         IsPrefix(a, t), IsPrefix(b, t)
  PROVE  IsPrefix(a, b) \/ IsPrefix(b, a)
  <1>1. /\ Len(a) \in 0..Len(t) /\ a = SubSeq(t, 1, Len(a))
        /\ Len(b) \in 0..Len(t) /\ b = SubSeq(t, 1, Len(b))
    BY PrefixIs
  <1>2. \A n \in 0..Len(t) : \A m \in 0..n : IsPrefix(SubSeq(t, 1, m), SubSeq(t, 1, n))
    <2> SUFFICES ASSUME NEW n \in 0..Len(t), NEW m \in 0..n
                 PROVE  IsPrefix(SubSeq(t, 1, m), SubSeq(t, 1, n))
      OBVIOUS
    <2>1. m \in 0..Len(t)
      OBVIOUS
    <2> DEFINE u == SubSeq(t, 1, m)
               v == SubSeq(t, 1, n)
    <2>2. u \in Seq(S) /\ Len(u) = m /\ v \in Seq(S) /\ Len(v) = n /\ SubSeq(v, 1, m) = u
      BY <2>1, PrefixAt
    <2> HIDE DEF u, v
    <2>3. Len(u) <= Len(v) /\ u = SubSeq(v, 1, Len(u))
      BY <2>2
    <2>4. IsPrefix(u, v)
      BY <2>2, <2>3, PrefixIs
    <2> QED BY <2>4 DEF u, v
  <1>3. Len(a) \in 0..Len(b) \/ Len(b) \in 0..Len(a)
    BY <1>1
  <1> QED BY <1>1, <1>2, <1>3

(* What is below a path moves with it.                                     *)
Moves(a, b, t) == b \o SubSeq(t, Len(a) + 1, Len(t))

LEMMA MovesBelow ==
  ASSUME NEW S, NEW a \in Seq(S), NEW b \in Seq(S)
  PROVE  /\ Moves(a, b, a) = b
         /\ \A t \in Seq(S), n \in S :
              IsPrefix(a, t) => Moves(a, b, Append(t, n)) = Append(Moves(a, b, t), n)
  <1>1. Moves(a, b, a) = b
    <2>1. SubSeq(a, Len(a) + 1, Len(a)) = <<>>
      OBVIOUS
    <2> QED BY <2>1 DEF Moves
  <1>2. ASSUME NEW t \in Seq(S), NEW n \in S, IsPrefix(a, t)
        PROVE  Moves(a, b, Append(t, n)) = Append(Moves(a, b, t), n)
    <2> DEFINE s == SubSeq(t, Len(a) + 1, Len(t))
    <2>1. Len(a) + 1 \in 1..Len(t) + 1 /\ s \in Seq(S)
      <3>1. Len(a) \in Nat /\ Len(t) \in Nat /\ Len(a) <= Len(t)
        BY <1>2, PrefixIs
      <3> QED BY <3>1
    <2>2. SubSeq(Append(t, n), Len(a) + 1, Len(t) + 1) = Append(s, n)
      BY <2>1, SuffixAppended
    <2>3. Len(Append(t, n)) = Len(t) + 1
      BY AppendedSeq
    <2> HIDE DEF s
    <2>4. b \o Append(s, n) = Append(b \o s, n)
      BY <2>1, ConcatAppended
    <2> QED BY <2>2, <2>3, <2>4 DEF Moves, s
  <1> QED BY <1>1, <1>2

(* What stays in place does not move.                                      *)
LEMMA MovesInPlace ==
  ASSUME NEW S, NEW a \in Seq(S), NEW t \in Seq(S), IsPrefix(a, t)
  PROVE  Moves(a, a, t) = t
  <1> DEFINE rest == SubSeq(t, Len(a) + 1, Len(t))
             u == a \o rest
  <1>1. Len(a) \in 0..Len(t) /\ Len(t) \in Nat /\ a = SubSeq(t, 1, Len(a))
    BY PrefixIs
  <1>2. \A i \in 1..Len(a) : a[i] = t[i]
    BY <1>1
  <1>3. /\ rest \in Seq(S) /\ Len(rest) = Len(t) - Len(a)
        /\ \A i \in 1..Len(t) - Len(a) : rest[i] = t[Len(a) + i]
    BY <1>1
  <1> HIDE DEF rest
  <1>4. /\ u \in Seq(S) /\ Len(u) = Len(t)
        /\ \A i \in 1..Len(a) : u[i] = a[i]
        /\ \A i \in 1..Len(rest) : u[Len(a) + i] = rest[i]
    BY <1>1, <1>3
  <1> HIDE DEF u
  <1>5. ASSUME NEW i \in 1..Len(t) PROVE u[i] = t[i]
    <2>1. CASE i \in 1..Len(a)
      BY <1>2, <1>4, <2>1
    <2>2. CASE i \notin 1..Len(a)
      <3>1. i - Len(a) \in 1..Len(rest) /\ Len(a) + (i - Len(a)) = i
        BY <1>1, <1>3, <2>2
      <3> QED BY <1>3, <1>4, <3>1
    <2> QED BY <2>1, <2>2
  <1>6. u = t
    BY <1>4, <1>5, EqualSeq
  <1> QED BY <1>6 DEF Moves, u, rest

-----------------------------------------------------------------------------
(* The merge with the base.                                                *)

(* The collections tell where the folders of the base are, and everything  *)
(* in the base is in one of its folders.                                   *)
BaseTells(colls, snap, prevs, L, T, up, names, place) ==
  /\ CollectionsTell(colls, prevs, L, T, up, names, place)
  /\ \A x, y \in T : place[x] = place[y] => x = y
  /\ \A c \in colls : c.cur = Nowhere => c.id \in DOMAIN prevs \ T /\ c.prev = prevs[c.id]
  /\ \A c, d \in colls : c.id = d.id => c = d
  /\ Root \in DOMAIN prevs
  /\ \A x \in DOMAIN prevs \ {Root} :
       prevs[x] # <<>> /\ \E y \in DOMAIN prevs : prevs[y] = Front(prevs[x])
  /\ \A e \in snap : \E x \in DOMAIN prevs : e.dir = prevs[x]

(* A directory of the base is a folder of the base.                        *)
LEMMA BaseDirsAre ==
  ASSUME NEW colls, NEW snap, NEW prevs, NEW L, NEW T, NEW up, NEW names, NEW place,
         BaseTells(colls, snap, prevs, L, T, up, names, place)
  PROVE  /\ \A d \in Merge!BaseDirs(snap) : \E x \in DOMAIN prevs : d = prevs[x]
         /\ \A x \in DOMAIN prevs : \A d \in Merge!PrefixesOf(prevs[x]) :
              \E y \in DOMAIN prevs : d = prevs[y]
         /\ \A e \in snap : Merge!PrefixesOf(e.dir) \subseteq Merge!BaseDirs(snap)
  <1> DEFINE R == {prevs[y] : y \in DOMAIN prevs}
  <1>0. /\ \A x \in DOMAIN prevs : prevs[x] \in Seq(Names)
        /\ Root \in DOMAIN prevs /\ prevs[Root] = <<>>
        /\ \A x \in DOMAIN prevs \ {Root} :
             prevs[x] # <<>> /\ \E y \in DOMAIN prevs : prevs[y] = Front(prevs[x])
        /\ \A e \in snap : \E x \in DOMAIN prevs : e.dir = prevs[x]
    BY DEF BaseTells, CollectionsTell
  <1>1. ASSUME NEW x \in DOMAIN prevs PROVE Merge!PrefixesOf(prevs[x]) \subseteq R
    <2> DEFINE p == prevs[x]
               N == Len(p)
               S == {k \in Nat : k <= N => SubSeq(p, 1, N - k) \in R}
    <2>1. p \in Seq(Names) /\ p \in R /\ N \in Nat
      BY <1>0
    <2> HIDE DEF p
    <2>2. 0 \in S
      <3>1. SubSeq(p, 1, N - 0) = p
        BY <2>1
      <3> QED BY <2>1, <3>1
    <2>3. ASSUME NEW k \in Nat, k \in S PROVE k + 1 \in S
      <3> SUFFICES ASSUME k + 1 <= N PROVE SubSeq(p, 1, N - (k + 1)) \in R
        OBVIOUS
      <3> DEFINE q == SubSeq(p, 1, N - k)
      <3>1. N - k \in 1..N /\ N - (k + 1) \in 0..N - k /\ N - (k + 1) = N - k - 1
        BY <2>1
      <3>2. q \in R
        BY <2>1, <2>3
      <3>3. q \in Seq(Names) /\ Len(q) = N - k /\ SubSeq(q, 1, N - k - 1) = SubSeq(p, 1, N - k - 1)
        BY <2>1, <3>1, PrefixAt
      <3> HIDE DEF q
      <3>4. PICK z \in DOMAIN prevs : q = prevs[z]
        BY <3>2
      <3>5. q # <<>>
        BY <3>1, <3>3
      <3>6. z # Root /\ Front(q) \in R
        BY <1>0, <3>4, <3>5
      <3> QED BY <3>1, <3>3, <3>6 DEF Front
    <2> HIDE DEF S
    <2>4. Nat \subseteq S
      BY <2>2, <2>3, Induction
    <2>5. ASSUME NEW n \in 0..N PROVE SubSeq(p, 1, n) \in R
      <3>1. N - n \in Nat /\ N - n <= N /\ N - (N - n) = n
        BY <2>1
      <3>2. N - n \in S
        BY <2>4, <3>1
      <3> QED BY <3>1, <3>2 DEF S
    <2> QED BY <2>5 DEF Merge!PrefixesOf, p
  <1>2. ASSUME NEW d \in Merge!BaseDirs(snap) PROVE d \in R
    <2>1. CASE d = <<>>
      BY <1>0, <2>1
    <2>2. CASE d # <<>>
      <3>1. PICK e \in snap : d \in Merge!PrefixesOf(e.dir)
        BY <2>2 DEF Merge!BaseDirs
      <3>2. PICK x \in DOMAIN prevs : e.dir = prevs[x]
        BY <1>0
      <3> HIDE DEF R
      <3> QED BY <1>1, <3>1, <3>2
    <2> QED BY <2>1, <2>2
  <1>3. \A e \in snap : Merge!PrefixesOf(e.dir) \subseteq Merge!BaseDirs(snap)
    BY DEF Merge!BaseDirs
  <1> QED BY <1>1, <1>2, <1>3

(* updatedPaths has the folders that have a collection, and those that are *)
(* gone.                                                                   *)
LEMMA UpdatedPathsAre ==
  ASSUME NEW colls, NEW snap, NEW prevs, NEW L, NEW T, NEW up, NEW names, NEW place,
         BaseTells(colls, snap, prevs, L, T, up, names, place)
  PROVE  LET updated == Merge!UpdatedPaths(colls)
         IN  /\ DOMAIN updated \subseteq {prevs[x] : x \in DOMAIN prevs}
             /\ \A x \in DOMAIN prevs :
                  /\ prevs[x] \in DOMAIN updated <=> x \in L \/ x \notin T
                  /\ prevs[x] \in DOMAIN updated =>
                       updated[prevs[x]] = IF x \in T THEN place[x] ELSE Nowhere
  <1> DEFINE named == {c \in colls : c.prev # Nowhere}
             updated == Merge!UpdatedPaths(colls)
  <1>1. updated = [p \in {c.prev : c \in named} |-> (CHOOSE c \in named : c.prev = p).cur]
    BY DEF Merge!UpdatedPaths
  <1>2. /\ \A x \in DOMAIN prevs : prevs[x] \in Seq(Names)
        /\ \A x, y \in DOMAIN prevs : prevs[x] = prevs[y] => x = y
        /\ L \subseteq T
        /\ \A c \in colls : c.cur # Nowhere =>
             /\ c.id \in L /\ c.cur = place[c.id]
             /\ c.prev = IF c.id \in DOMAIN prevs THEN prevs[c.id] ELSE Nowhere
        /\ \A x \in L : \E c \in colls : c.cur # Nowhere /\ c.id = x
        /\ \A x \in DOMAIN prevs \ T : \E c \in colls : c.cur = Nowhere /\ c.prev = prevs[x]
        /\ \A c \in colls : c.cur = Nowhere => c.id \in DOMAIN prevs \ T /\ c.prev = prevs[c.id]
    BY DEF BaseTells, CollectionsTell
  <1>3. \A x \in DOMAIN prevs : prevs[x] # Nowhere
    BY <1>2, IDAssumption
  <1>4. ASSUME NEW c \in named
        PROVE  /\ c.id \in DOMAIN prevs /\ c.prev = prevs[c.id]
               /\ c.cur = IF c.id \in T THEN place[c.id] ELSE Nowhere
               /\ c.id \in L \/ c.id \notin T
    BY <1>2, <1>3
  <1>5. ASSUME NEW x \in DOMAIN prevs, x \in L \/ x \notin T
        PROVE  \E c \in named : c.prev = prevs[x]
    BY <1>2, <1>3, <1>5
  <1> HIDE DEF updated, named
  <1>6. DOMAIN updated = {c.prev : c \in named}
    BY <1>1
  <1>7. ASSUME NEW x \in DOMAIN prevs, prevs[x] \in DOMAIN updated
        PROVE  /\ updated[prevs[x]] = IF x \in T THEN place[x] ELSE Nowhere
               /\ x \in L \/ x \notin T
    <2> DEFINE d == CHOOSE c \in named : c.prev = prevs[x]
    <2>1. \E c \in named : c.prev = prevs[x]
      BY <1>6, <1>7
    <2>2. d \in named /\ d.prev = prevs[x]
      BY <2>1
    <2>3. updated[prevs[x]] = d.cur
      BY <1>1, <1>6, <1>7
    <2> HIDE DEF d
    <2>4. d.id = x
      BY <1>2, <1>4, <2>2
    <2> QED BY <1>4, <2>2, <2>3, <2>4
  <1>8. DOMAIN updated \subseteq {prevs[x] : x \in DOMAIN prevs}
    BY <1>4, <1>6
  <1>9. ASSUME NEW x \in DOMAIN prevs, x \in L \/ x \notin T
        PROVE  prevs[x] \in DOMAIN updated
    BY <1>5, <1>6, <1>9
  <1> QED BY <1>7, <1>8, <1>9 DEF updated

(* Where a directory goes, when current is where others go.                *)
CurrentPath(current, updated, d) ==
  IF d \in DOMAIN updated THEN updated[d]
  ELSE IF d = <<>> THEN <<>>
  ELSE IF current[Front(d)] = Nowhere THEN Nowhere ELSE Append(current[Front(d)], Last(d))

LEMMA CurrentPathsAt ==
  ASSUME NEW snap, NEW updated
  PROVE  Merge!CurrentPaths(snap, updated) =
           CHOOSE f : f = [d \in Merge!BaseDirs(snap) |-> CurrentPath(f, updated, d)]
  BY DEF Merge!CurrentPaths, CurrentPath, Front, Last, Merge!Front, Merge!Last

(* Every directory goes where its folder is.                               *)
LEMMA CurrentPathsAre ==
  ASSUME NEW colls, NEW snap, NEW prevs, NEW L, NEW T, NEW up, NEW names, NEW place,
         BaseTells(colls, snap, prevs, L, T, up, names, place)
  PROVE  \A x \in DOMAIN prevs : prevs[x] \in Merge!BaseDirs(snap) =>
           Merge!CurrentPaths(snap, Merge!UpdatedPaths(colls))[prevs[x]] =
             IF x \in T THEN place[x] ELSE Nowhere
  <1> DEFINE updated == Merge!UpdatedPaths(colls)
             D == Merge!BaseDirs(snap)
             Goal(f) == \A x \in DOMAIN prevs :
                          prevs[x] \in D => f[prevs[x]] = IF x \in T THEN place[x] ELSE Nowhere
             F(f) == [d \in D |-> CurrentPath(f, updated, d)]
  <1>1. Merge!CurrentPaths(snap, updated) = CHOOSE f : f = F(f)
    BY CurrentPathsAt
  <1>2. /\ Forest(up) /\ T \ {Root} \subseteq DOMAIN up
        /\ place[Root] = <<>> /\ \A x \in T : place[x] \in Seq(Names)
        /\ \A x \in DOMAIN prevs : prevs[x] \in Seq(Names)
        /\ \A x, y \in DOMAIN prevs : prevs[x] = prevs[y] => x = y
        /\ Root \in DOMAIN prevs /\ prevs[Root] = <<>>
        /\ \A x \in (T \ L) \ {Root} :
             /\ up[x] \in T /\ up[x] \in DOMAIN prevs /\ names[x] \in Names
             /\ prevs[x] = Append(prevs[up[x]], names[x])
             /\ place[x] = Append(place[up[x]], names[x])
    BY DEF BaseTells, CollectionsTell
  <1>3. \A x \in DOMAIN prevs :
          /\ prevs[x] \in DOMAIN updated <=> x \in L \/ x \notin T
          /\ prevs[x] \in DOMAIN updated =>
               updated[prevs[x]] = IF x \in T THEN place[x] ELSE Nowhere
    BY UpdatedPathsAre
  <1>4. \A d \in D : \E x \in DOMAIN prevs : d = prevs[x]
    BY BaseDirsAre
  <1>5. \A x \in DOMAIN prevs : prevs[x] \in D /\ x # Root /\ x \in T \ L => prevs[up[x]] \in D
    <2> SUFFICES ASSUME NEW x \in DOMAIN prevs, prevs[x] \in D, x # Root, x \in T \ L
                 PROVE  prevs[up[x]] \in D
      OBVIOUS
    <2>1. /\ prevs[up[x]] \in Seq(Names) /\ names[x] \in Names
          /\ prevs[x] = Append(prevs[up[x]], names[x])
      BY <1>2
    <2>2. prevs[x] # <<>>
      BY <2>1, Appended
    <2>3. PICK e \in snap : prevs[x] \in Merge!PrefixesOf(e.dir)
      BY <2>2 DEF Merge!BaseDirs
    <2>4. e.dir \in Seq(Names)
      BY <1>2 DEF BaseTells
    <2>5. PICK n \in 0..Len(e.dir) : prevs[x] = SubSeq(e.dir, 1, n)
      BY <2>3 DEF Merge!PrefixesOf
    <2>6. Len(prevs[x]) = n /\ \A m \in 0..n : SubSeq(prevs[x], 1, m) = SubSeq(e.dir, 1, m)
      BY <2>4, <2>5, PrefixAt
    <2>7. Front(prevs[x]) = prevs[up[x]] /\ n \in Nat /\ n # 0
      <3>1. Front(prevs[x]) = prevs[up[x]]
        BY <2>1, Appended
      <3>2. n # 0
        <4>1. Len(prevs[x]) = Len(prevs[up[x]]) + 1 /\ Len(prevs[up[x]]) \in Nat
          BY <2>1
        <4> QED BY <2>6, <4>1
      <3> QED BY <3>1, <3>2
    <2>8. n - 1 \in 0..n /\ n - 1 \in 0..Len(e.dir)
      BY <2>4, <2>7
    <2>9. prevs[up[x]] = SubSeq(e.dir, 1, n - 1)
      BY <2>6, <2>7, <2>8 DEF Front
    <2>10. prevs[up[x]] \in Merge!PrefixesOf(e.dir)
      BY <2>8, <2>9 DEF Merge!PrefixesOf
    <2> QED BY <2>10, BaseDirsAre
  <1> HIDE DEF updated, D
  (* One step of the recursion.                                            *)
  <1>6. ASSUME NEW f, NEW x \in DOMAIN prevs, prevs[x] \in D,
               x \in T \ L /\ x # Root => f[prevs[up[x]]] = place[up[x]]
        PROVE  CurrentPath(f, updated, prevs[x]) = IF x \in T THEN place[x] ELSE Nowhere
    <2>1. CASE prevs[x] \in DOMAIN updated
      BY <1>3, <2>1 DEF CurrentPath
    <2>2. CASE prevs[x] \notin DOMAIN updated /\ x = Root
      BY <1>2, <1>3, <2>2 DEF CurrentPath
    <2>3. CASE prevs[x] \notin DOMAIN updated /\ x # Root
      <3>1. /\ x \in T \ L
            /\ prevs[up[x]] \in Seq(Names) /\ names[x] \in Names
            /\ prevs[x] = Append(prevs[up[x]], names[x])
            /\ place[x] = Append(place[up[x]], names[x])
            /\ place[up[x]] # Nowhere
        BY <1>2, <1>3, <2>3, IDAssumption
      <3>2. prevs[x] # <<>> /\ Front(prevs[x]) = prevs[up[x]] /\ Last(prevs[x]) = names[x]
        BY <3>1, Appended
      <3>3. CurrentPath(f, updated, prevs[x]) = Append(f[prevs[up[x]]], names[x])
        <4> DEFINE d == prevs[x]
        <4>1. f[Front(d)] # Nowhere /\ d # <<>> /\ d \notin DOMAIN updated
          BY <1>6, <2>3, <3>1, <3>2
        <4>2. CurrentPath(f, updated, d) = Append(f[Front(d)], Last(d))
          <5> HIDE DEF d
          <5> QED BY <4>1 DEF CurrentPath
        <4> QED BY <3>2, <4>2
      <3> QED BY <1>6, <2>3, <3>1, <3>3
    <2> QED BY <2>1, <2>2, <2>3
  <1>7. \E f : f = F(f)
    <2> DEFINE g == [d \in D |-> LET x == CHOOSE x \in DOMAIN prevs : d = prevs[x]
                                 IN  IF x \in T THEN place[x] ELSE Nowhere]
    <2>1. ASSUME NEW x \in DOMAIN prevs, prevs[x] \in D
          PROVE  g[prevs[x]] = IF x \in T THEN place[x] ELSE Nowhere
      <3>1. (CHOOSE y \in DOMAIN prevs : prevs[x] = prevs[y]) = x
        BY <1>2
      <3> QED BY <2>1, <3>1
    <2>2. DOMAIN g = D /\ g = [d \in D |-> g[d]]
      OBVIOUS
    <2> HIDE DEF g
    <2>3. ASSUME NEW d \in D PROVE g[d] = CurrentPath(g, updated, d)
      <3>1. PICK x \in DOMAIN prevs : d = prevs[x]
        BY <1>4
      <3>2. x \in T \ L /\ x # Root => g[prevs[up[x]]] = place[up[x]]
        BY <1>2, <1>5, <2>1, <3>1
      <3>3. CurrentPath(g, updated, prevs[x]) = IF x \in T THEN place[x] ELSE Nowhere
        BY <1>6, <3>1, <3>2
      <3> QED BY <2>1, <3>1, <3>3
    <2>4. g = F(g)
      BY <2>2, <2>3
    <2> QED BY <2>4
  <1>8. ASSUME NEW f, f = F(f) PROVE Goal(f)
    <2> DEFINE Bad == {x \in T \ L : /\ x # Root /\ x \in DOMAIN prevs /\ prevs[x] \in D
                                     /\ f[prevs[x]] # place[x]}
    <2>0. \A d \in D : f[d] = CurrentPath(f, updated, d)
      BY <1>8
    <2>1. Bad = {}
      <3> SUFFICES ASSUME Bad # {} PROVE FALSE
        OBVIOUS
      <3>1. PICK x \in Bad : up[x] \notin Bad
        BY <1>2 DEF Forest
      <3>2. /\ x \in T \ L /\ x # Root /\ x \in DOMAIN prevs /\ prevs[x] \in D
            /\ up[x] \in T /\ up[x] \in DOMAIN prevs /\ prevs[up[x]] \in D
        BY <1>2, <1>5, <3>1
      <3>3. f[prevs[up[x]]] = place[up[x]]
        <4>1. CASE up[x] \in T \ L /\ up[x] # Root
          BY <3>1, <3>2, <4>1
        <4>2. CASE ~(up[x] \in T \ L /\ up[x] # Root)
          <5>1. CurrentPath(f, updated, prevs[up[x]]) = place[up[x]]
            BY <1>6, <3>2, <4>2
          <5> QED BY <2>0, <3>2, <5>1
        <4> QED BY <4>1, <4>2
      <3>4. CurrentPath(f, updated, prevs[x]) = place[x]
        BY <1>6, <3>2, <3>3
      <3> QED BY <2>0, <3>1, <3>2, <3>4
    <2>2. ASSUME NEW x \in DOMAIN prevs, prevs[x] \in D
          PROVE  f[prevs[x]] = IF x \in T THEN place[x] ELSE Nowhere
      <3>1. x \in T \ L /\ x # Root => f[prevs[up[x]]] = place[up[x]]
        <4> SUFFICES ASSUME x \in T \ L, x # Root PROVE f[prevs[up[x]]] = place[up[x]]
          OBVIOUS
        <4>1. up[x] \in T /\ up[x] \in DOMAIN prevs /\ prevs[up[x]] \in D
          BY <1>2, <1>5, <2>2
        <4>2. CASE up[x] \in T \ L /\ up[x] # Root
          BY <2>1, <4>1, <4>2
        <4>3. CASE ~(up[x] \in T \ L /\ up[x] # Root)
          <5>1. CurrentPath(f, updated, prevs[up[x]]) = place[up[x]]
            BY <1>6, <4>1, <4>3
          <5> QED BY <2>0, <4>1, <5>1
        <4> QED BY <4>2, <4>3
      <3>2. CurrentPath(f, updated, prevs[x]) = IF x \in T THEN place[x] ELSE Nowhere
        BY <1>6, <2>2, <3>1
      <3> QED BY <2>0, <2>2, <3>2
    <2> QED BY <2>2
  <1> HIDE DEF F, Goal
  <1>9. Goal(CHOOSE f : f = F(f))
    BY <1>7, <1>8
  <1> QED BY <1>1, <1>9 DEF Goal, updated, D

LEMMA PrefixesAreOne ==
  ASSUME NEW a, NEW b
  PROVE  /\ Merge!IsPrefix(a, b) = IsPrefix(a, b)
         /\ Merge!IsStrictPrefix(a, b) = IsStrictPrefix(a, b)
  BY DEF IsPrefix, IsStrictPrefix, Merge!IsPrefix, Merge!IsStrictPrefix

(* Below a folder under which nothing has a collection or is gone, all is  *)
(* where it was in the folder.                                             *)
LEMMA SubtreeMoves ==
  ASSUME NEW colls, NEW snap, NEW prevs, NEW L, NEW T, NEW up, NEW names, NEW place,
         BaseTells(colls, snap, prevs, L, T, up, names, place),
         NEW x \in DOMAIN prevs,
         \A p \in DOMAIN Merge!UpdatedPaths(colls) : ~IsStrictPrefix(prevs[x], p)
  PROVE  \A y \in DOMAIN prevs : IsPrefix(prevs[x], prevs[y]) /\ y # x =>
           /\ x \in T /\ y \in T \ L
           /\ place[y] = Moves(prevs[x], place[x], prevs[y])
  <1> DEFINE Under(y) == IsPrefix(prevs[x], prevs[y]) /\ y # x
             Goal(y) == x \in T /\ y \in T \ L /\ place[y] = Moves(prevs[x], place[x], prevs[y])
             Bad == {y \in DOMAIN prevs : Under(y) /\ ~Goal(y)}
  <1>1. /\ Forest(up) /\ T \ {Root} \subseteq DOMAIN up
        /\ \A y \in T : place[y] \in Seq(Names)
        /\ \A y \in DOMAIN prevs : prevs[y] \in Seq(Names)
        /\ \A y, z \in DOMAIN prevs : prevs[y] = prevs[z] => y = z
        /\ Root \in DOMAIN prevs /\ prevs[Root] = <<>>
        /\ \A y \in (T \ L) \ {Root} :
             /\ up[y] \in T /\ up[y] \in DOMAIN prevs /\ names[y] \in Names
             /\ prevs[y] = Append(prevs[up[y]], names[y])
             /\ place[y] = Append(place[up[y]], names[y])
    BY DEF BaseTells, CollectionsTell
  <1>2. \A y \in DOMAIN prevs :
          prevs[y] \in DOMAIN Merge!UpdatedPaths(colls) <=> y \in L \/ y \notin T
    BY UpdatedPathsAre
  <1>3. ASSUME NEW y \in DOMAIN prevs, Under(y)
        PROVE  /\ y \in (T \ L) \ {Root} /\ y \in DOMAIN up
               /\ IsPrefix(prevs[x], prevs[up[y]])
    <2>1. IsStrictPrefix(prevs[x], prevs[y])
      BY <1>1, <1>3 DEF IsStrictPrefix
    <2>2. y \in T \ L
      BY <1>2, <2>1
    <2>3. y # Root
      <3> SUFFICES ASSUME y = Root PROVE FALSE
        OBVIOUS
      <3>1. Len(prevs[x]) \in Nat /\ Len(prevs[x]) < Len(<<>>)
        BY <1>1, <2>1, PrefixIs
      <3> QED BY <3>1
    <2>4. IsPrefix(prevs[x], prevs[up[y]])
      <3>1. /\ prevs[x] \in Seq(Names) /\ prevs[up[y]] \in Seq(Names) /\ names[y] \in Names
            /\ prevs[y] = Append(prevs[up[y]], names[y])
        BY <1>1, <2>2, <2>3
      <3> QED BY <2>1, <3>1, PrefixOfAppended
    <2> QED BY <1>1, <2>2, <2>3, <2>4
  <1>4. Bad = {}
    <2> SUFFICES ASSUME Bad # {} PROVE FALSE
      OBVIOUS
    <2>1. Bad \in SUBSET DOMAIN up
      BY <1>3
    <2>2. PICK y \in Bad : up[y] \notin Bad
      BY <1>1, <2>1 DEF Forest
    <2>3. /\ y \in (T \ L) \ {Root} /\ up[y] \in T /\ up[y] \in DOMAIN prevs
          /\ IsPrefix(prevs[x], prevs[up[y]])
          /\ prevs[x] \in Seq(Names) /\ prevs[up[y]] \in Seq(Names) /\ names[y] \in Names
          /\ prevs[y] = Append(prevs[up[y]], names[y])
          /\ place[y] = Append(place[up[y]], names[y])
      BY <1>1, <1>3, <2>2
    <2>4. x \in T /\ place[up[y]] = Moves(prevs[x], place[x], prevs[up[y]])
      <3>1. CASE up[y] = x
        <4>1. x \in T /\ prevs[x] \in Seq(Names) /\ place[x] \in Seq(Names)
          BY <1>1, <2>3, <3>1
        <4>2. Moves(prevs[x], place[x], prevs[x]) = place[x]
          BY <4>1, MovesBelow
        <4> QED BY <3>1, <4>1, <4>2
      <3>2. CASE up[y] # x
        <4>1. up[y] \in DOMAIN prevs /\ Under(up[y])
          BY <2>3, <3>2
        <4>2. Goal(up[y])
          BY <2>2, <4>1
        <4> QED BY <4>2
      <3> QED BY <3>1, <3>2
    <2>5. Moves(prevs[x], place[x], prevs[y]) = Append(Moves(prevs[x], place[x], prevs[up[y]]), names[y])
      <3>1. place[x] \in Seq(Names)
        BY <1>1, <2>4
      <3> QED BY <2>3, <3>1, MovesBelow
    <2>6. Goal(y)
      BY <2>3, <2>4, <2>5
    <2> QED BY <2>2, <2>6
  <1> QED BY <1>4

(* Whether something is new in the subtree of a base directory, or left it.*)
Changed(colls, snap, d) ==
  Merge!SubtreeChanged(colls, Merge!UpdatedPaths(colls), d,
                       Merge!CurrentPaths(snap, Merge!UpdatedPaths(colls))[d])

LEMMA SourcesAre ==
  ASSUME NEW colls, NEW snap
  PROVE  LET current == Merge!CurrentPaths(snap, Merge!UpdatedPaths(colls))
         IN  /\ \A s \in Merge!Sources(colls, snap) :
                  /\ s.from \in Merge!BaseDirs(snap) /\ s.to = current[s.from] /\ s.to # Nowhere
                  /\ s.whole = ~Changed(colls, snap, s.from)
                  /\ s = [from |-> s.from, to |-> s.to, whole |-> s.whole]
                  /\ \A a \in Merge!PrefixesOf(s.from) \ {s.from} :
                       a \in Merge!BaseDirs(snap) => Changed(colls, snap, a)
                  /\ ~\E c \in colls : c.cur = s.to /\ (c.reset \/ Merge!New(c))
             /\ \A d \in Merge!BaseDirs(snap) :
                  /\ \A a \in Merge!PrefixesOf(d) \ {d} :
                       a \in Merge!BaseDirs(snap) /\ Changed(colls, snap, a)
                  /\ current[d] # Nowhere
                  /\ Changed(colls, snap, d) => \E e \in snap : e.dir = d
                  /\ ~\E c \in colls : c.cur = current[d] /\ (c.reset \/ Merge!New(c))
                  => [from |-> d, to |-> current[d], whole |-> ~Changed(colls, snap, d)]
                       \in Merge!Sources(colls, snap)
  <1> DEFINE updated == Merge!UpdatedPaths(colls)
             current == Merge!CurrentPaths(snap, updated)
             D == Merge!BaseDirs(snap)
             changed_ == [d \in D |-> Changed(colls, snap, d)]
             OK(x) == /\ \A a \in Merge!PrefixesOf(x) \ {x} : changed_[a]
                      /\ current[x] # Nowhere
                      /\ changed_[x] => \E e \in snap : e.dir = x
                      /\ ~\E c \in colls : c.cur = current[x] /\ (c.reset \/ Merge!New(c))
             source(d) == [from |-> d, to |-> current[d], whole |-> ~changed_[d]]
  <1>1. Merge!Sources(colls, snap) = {source(d) : d \in {x \in D : OK(x)}}
    BY DEF Merge!Sources, Changed
  <1>2. \A d \in D : changed_[d] = Changed(colls, snap, d)
    OBVIOUS
  <1>3. \A d : source(d).from = d /\ source(d).to = current[d] /\ source(d).whole = ~changed_[d]
    OBVIOUS
  <1> HIDE DEF updated, current, D, changed_, source
  <1>4. ASSUME NEW s \in Merge!Sources(colls, snap)
        PROVE  /\ s.from \in D /\ s.to = current[s.from] /\ s.to # Nowhere
               /\ s.whole = ~Changed(colls, snap, s.from)
               /\ s = [from |-> s.from, to |-> s.to, whole |-> s.whole]
               /\ \A a \in Merge!PrefixesOf(s.from) \ {s.from} :
                    a \in D => Changed(colls, snap, a)
               /\ ~\E c \in colls : c.cur = s.to /\ (c.reset \/ Merge!New(c))
    <2>1. PICK d \in D : OK(d) /\ s = source(d)
      BY <1>1
    <2>2. s.from = d /\ s.to = current[d] /\ s.whole = ~changed_[d]
      BY <1>3, <2>1
    <2>3. s = [from |-> s.from, to |-> s.to, whole |-> s.whole]
      BY <2>1, <2>2 DEF source
    <2> QED BY <1>2, <2>1, <2>2, <2>3
  <1>5. ASSUME NEW d \in D,
               \A a \in Merge!PrefixesOf(d) \ {d} : a \in D /\ Changed(colls, snap, a),
               current[d] # Nowhere,
               Changed(colls, snap, d) => \E e \in snap : e.dir = d,
               ~\E c \in colls : c.cur = current[d] /\ (c.reset \/ Merge!New(c))
        PROVE  [from |-> d, to |-> current[d], whole |-> ~Changed(colls, snap, d)]
                 \in Merge!Sources(colls, snap)
    <2>1. OK(d)
      BY <1>2, <1>5
    <2>2. source(d) \in Merge!Sources(colls, snap)
      BY <1>1, <2>1
    <2> QED BY <1>2, <2>2 DEF source
  <1> QED BY <1>4, <1>5 DEF updated, current, D

(* What a source streams: a directory, or all that is below it too.        *)
Covers(s, d) == IF s.whole THEN IsPrefix(s.from, d) ELSE d = s.from

(* What is streamed of a folder goes where the folder is.                  *)
LEMMA SourceIs ==
  ASSUME NEW colls, NEW snap, NEW prevs, NEW L, NEW T, NEW up, NEW names, NEW place,
         BaseTells(colls, snap, prevs, L, T, up, names, place),
         NEW s \in Merge!Sources(colls, snap)
  PROVE  \E x \in DOMAIN prevs \cap T :
           /\ s.from = prevs[x] /\ s.to = place[x]
           /\ \A c \in colls : c.cur = place[x] => ~c.reset
           /\ \A y \in DOMAIN prevs : Covers(s, prevs[y]) =>
                /\ y \in T /\ place[y] = Moves(prevs[x], place[x], prevs[y])
                /\ y # x => y \notin L
  <1> DEFINE updated == Merge!UpdatedPaths(colls)
             current == Merge!CurrentPaths(snap, updated)
  <1>1. /\ s.from \in Merge!BaseDirs(snap) /\ s.to = current[s.from] /\ s.to # Nowhere
        /\ s.whole = ~Changed(colls, snap, s.from)
        /\ ~\E c \in colls : c.cur = s.to /\ (c.reset \/ Merge!New(c))
    BY SourcesAre
  <1>2. PICK x \in DOMAIN prevs : s.from = prevs[x]
    BY <1>1, BaseDirsAre
  <1>3. current[prevs[x]] = IF x \in T THEN place[x] ELSE Nowhere
    BY <1>1, <1>2, CurrentPathsAre
  <1>4. x \in T /\ s.to = place[x]
    BY <1>1, <1>2, <1>3
  <1>5. ASSUME NEW y \in DOMAIN prevs, Covers(s, prevs[y])
        PROVE  /\ y \in T /\ place[y] = Moves(prevs[x], place[x], prevs[y])
               /\ y # x => y \notin L
    <2>1. CASE y = x
      <3>1. prevs[x] \in Seq(Names) /\ place[x] \in Seq(Names)
        BY <1>4 DEF BaseTells, CollectionsTell
      <3>2. Moves(prevs[x], place[x], prevs[x]) = place[x]
        BY <3>1, MovesBelow
      <3> QED BY <1>4, <2>1, <3>2
    <2>2. CASE y # x
      <3>1. prevs[y] # prevs[x]
        BY <2>2 DEF BaseTells, CollectionsTell
      <3>2. s.whole /\ IsPrefix(prevs[x], prevs[y])
        BY <1>2, <1>5, <3>1 DEF Covers
      <3>3. \A p \in DOMAIN updated : ~IsStrictPrefix(prevs[x], p)
        BY <1>1, <1>2, <3>2, PrefixesAreOne DEF Changed, Merge!SubtreeChanged
      <3> QED BY <2>2, <3>2, <3>3, SubtreeMoves
    <2> QED BY <2>1, <2>2
  <1> QED BY <1>1, <1>2, <1>4, <1>5

(* Every entry of the base whose folder is still there is streamed, unless *)
(* the enumeration started over: from its folder, or, if nothing changed   *)
(* below a folder above it, with that one.                                 *)
LEMMA SourceCovers ==
  ASSUME NEW colls, NEW snap, NEW prevs, NEW L, NEW T, NEW up, NEW names, NEW place,
         BaseTells(colls, snap, prevs, L, T, up, names, place),
         NEW e \in snap, NEW y \in DOMAIN prevs \cap T, e.dir = prevs[y],
         \A c \in colls : ~c.reset
  PROVE  \E s \in Merge!Sources(colls, snap) : Covers(s, e.dir)
  <1> DEFINE updated == Merge!UpdatedPaths(colls)
             current == Merge!CurrentPaths(snap, updated)
             d == e.dir
             N == Len(d)
             at(n) == SubSeq(d, 1, n)
             Fixed == {n \in 0..N : ~Changed(colls, snap, at(n))}
  <1>1. /\ \A x \in DOMAIN prevs : prevs[x] \in Seq(Names)
        /\ \A x, z \in DOMAIN prevs : prevs[x] = prevs[z] => x = z
        /\ \A x, z \in T : place[x] = place[z] => x = z
        /\ \A x \in T : place[x] \in Seq(Names)
        /\ \A c \in colls : c.cur # Nowhere =>
             /\ c.id \in L /\ c.cur = place[c.id]
             /\ c.prev = IF c.id \in DOMAIN prevs THEN prevs[c.id] ELSE Nowhere
        /\ L \subseteq T
    BY DEF BaseTells, CollectionsTell
  <1>2. d \in Seq(Names) /\ N \in Nat /\ at(N) = d
    BY <1>1
  <1>3. Merge!PrefixesOf(d) \subseteq Merge!BaseDirs(snap)
    BY BaseDirsAre
  <1>4. \A n \in 0..N : /\ at(n) \in Seq(Names) /\ Len(at(n)) = n /\ IsPrefix(at(n), d)
                        /\ \A m \in 0..n : SubSeq(at(n), 1, m) = at(m)
    BY <1>2, PrefixAt
  <1>5. \A n \in 0..N : at(n) \in Merge!BaseDirs(snap)
    BY <1>3 DEF Merge!PrefixesOf
  <1> HIDE DEF d, updated, current, at
  (* A folder of which all folders above have changed.                     *)
  <1>6. ASSUME NEW n \in 0..N, \A m \in 0..n : m # n => Changed(colls, snap, at(m)),
               NEW x \in DOMAIN prevs, at(n) = prevs[x], x \in T,
               Changed(colls, snap, at(n)) => n = N
        PROVE  \E s \in Merge!Sources(colls, snap) :
                 s.from = at(n) /\ s.whole = ~Changed(colls, snap, at(n))
    <2>1. \A a \in Merge!PrefixesOf(at(n)) \ {at(n)} :
            a \in Merge!BaseDirs(snap) /\ Changed(colls, snap, a)
      <3> SUFFICES ASSUME NEW m \in 0..Len(at(n)), SubSeq(at(n), 1, m) # at(n)
                   PROVE  /\ SubSeq(at(n), 1, m) \in Merge!BaseDirs(snap)
                          /\ Changed(colls, snap, SubSeq(at(n), 1, m))
        BY DEF Merge!PrefixesOf
      <3>1. m \in 0..n /\ m \in 0..N /\ SubSeq(at(n), 1, m) = at(m) /\ m # n
        BY <1>2, <1>4
      <3> QED BY <1>5, <1>6, <3>1
    <2>2. current[at(n)] = place[x] /\ place[x] # Nowhere
      BY <1>1, <1>5, <1>6, CurrentPathsAre, IDAssumption DEF current, updated
    <2>3. Changed(colls, snap, at(n)) => \E f \in snap : f.dir = at(n)
      BY <1>2, <1>6 DEF d
    <2>4. ~\E c \in colls : c.cur = current[at(n)] /\ (c.reset \/ Merge!New(c))
      <3> SUFFICES ASSUME NEW c \in colls, c.cur = place[x], Merge!New(c) PROVE FALSE
        BY <2>2
      <3>1. c.id = x /\ c.prev = prevs[x]
        BY <1>1, <1>6, <2>2
      <3> QED BY <1>1, <3>1, IDAssumption DEF Merge!New
    <2>5. [from |-> at(n), to |-> current[at(n)], whole |-> ~Changed(colls, snap, at(n))]
            \in Merge!Sources(colls, snap)
      BY <1>5, <2>1, <2>2, <2>3, <2>4, SourcesAre DEF current, updated
    <2> QED BY <2>5
  <1>7. CASE \A n \in 0..N : n # N => Changed(colls, snap, at(n))
    <2>1. N \in 0..N /\ at(N) = prevs[y] /\ y \in DOMAIN prevs /\ y \in T
      BY <1>2 DEF d
    <2>2. PICK s \in Merge!Sources(colls, snap) : s.from = at(N)
      BY <1>6, <1>7, <2>1
    <2>3. IsPrefix(d, d)
      BY <1>2 DEF IsPrefix
    <2> QED BY <1>2, <2>2, <2>3 DEF Covers, d
  <1>8. CASE \E n \in 0..N : n # N /\ ~Changed(colls, snap, at(n))
    <2> DEFINE Fix == {n \in 0..N : n # N /\ ~Changed(colls, snap, at(n))}
    <2>1. PICK n \in Fix : \A m \in Fix : n <= m
      <3>1. Fix \in SUBSET Nat /\ Fix # {}
        BY <1>8
      <3> HIDE DEF Fix
      <3> QED BY <3>1, Smallest
    <2>2. n \in 0..N /\ n # N /\ \A m \in 0..n : m # n => Changed(colls, snap, at(m))
      <3> SUFFICES ASSUME NEW m \in 0..n, m # n, ~Changed(colls, snap, at(m)) PROVE FALSE
        BY <2>1
      <3>1. m \in Fix /\ m < n
        BY <1>2, <2>1
      <3> QED BY <2>1, <3>1
    <2>3. PICK x \in DOMAIN prevs : at(n) = prevs[x]
      BY <1>5, <2>2, BaseDirsAre
    <2>4. x \in T
      <3>1. \A p \in DOMAIN updated : ~IsStrictPrefix(prevs[x], p)
        BY <2>1, <2>3, PrefixesAreOne DEF Changed, Merge!SubtreeChanged, updated
      <3>2. IsPrefix(prevs[x], prevs[y])
        BY <1>4, <2>2, <2>3 DEF d
      <3>3. y # x
        <4>1. Len(prevs[x]) = n /\ Len(prevs[y]) = N
          BY <1>4, <2>2, <2>3 DEF d
        <4> QED BY <2>2, <4>1
      <3> QED BY <3>1, <3>2, <3>3, SubtreeMoves DEF updated
    <2>5. PICK s \in Merge!Sources(colls, snap) : s.from = at(n) /\ s.whole
      BY <1>6, <2>1, <2>2, <2>3, <2>4
    <2> QED BY <1>4, <2>2, <2>5 DEF Covers, d
  <1> QED BY <1>7, <1>8

(* Nothing is streamed twice.                                              *)
LEMMA SourcesApart ==
  ASSUME NEW colls, NEW snap, NEW prevs, NEW L, NEW T, NEW up, NEW names, NEW place,
         BaseTells(colls, snap, prevs, L, T, up, names, place),
         NEW s \in Merge!Sources(colls, snap), NEW t \in Merge!Sources(colls, snap),
         NEW d \in Seq(Names), Covers(s, d), Covers(t, d)
  PROVE  s = t
  <1>1. ASSUME NEW q \in Merge!Sources(colls, snap)
        PROVE  q.from \in Merge!BaseDirs(snap) /\ q.from \in Seq(Names)
    <2>1. q.from \in Merge!BaseDirs(snap)
      BY SourcesAre
    <2>2. \E x \in DOMAIN prevs : q.from = prevs[x]
      BY <2>1, BaseDirsAre
    <2> QED BY <2>1, <2>2 DEF BaseTells, CollectionsTell
  <1>2. ASSUME NEW q \in Merge!Sources(colls, snap), NEW r \in Merge!Sources(colls, snap),
               q.whole, IsPrefix(q.from, r.from), q.from # r.from
        PROVE  FALSE
    <2>1. q.from \in Merge!PrefixesOf(r.from)
      BY <1>1, <1>2, PrefixIs
    <2>2. Changed(colls, snap, q.from)
      BY <1>1, <1>2, <2>1, SourcesAre
    <2> QED BY <1>2, <2>2, SourcesAre
  <1>3. IsPrefix(d, d)
    BY DEF IsPrefix
  <1>4. IsPrefix(s.from, d) /\ IsPrefix(t.from, d)
    BY <1>3 DEF Covers
  <1>5. s.from = t.from
    <2> SUFFICES ASSUME s.from # t.from PROVE FALSE
      OBVIOUS
    <2>1. IsPrefix(s.from, t.from) \/ IsPrefix(t.from, s.from)
      BY <1>1, <1>4, PrefixesCompare
    <2>3. CASE s.whole /\ t.whole
      BY <1>2, <2>1, <2>3
    <2>4. CASE s.whole /\ ~t.whole
      BY <1>2, <1>4, <2>4 DEF Covers
    <2>5. CASE ~s.whole /\ t.whole
      BY <1>2, <1>4, <2>5 DEF Covers
    <2>6. CASE ~s.whole /\ ~t.whole
      BY <2>6 DEF Covers
    <2> QED BY <2>3, <2>4, <2>5, <2>6
  <1>6. s.to = t.to /\ s.whole = t.whole
    BY <1>5, SourcesAre
  <1>7. /\ s = [from |-> s.from, to |-> s.to, whole |-> s.whole]
        /\ t = [from |-> t.from, to |-> t.to, whole |-> t.whole]
    BY SourcesAre
  <1> QED BY <1>5, <1>6, <1>7

-----------------------------------------------------------------------------
(* What is merged when a backup finishes.                                  *)

Colls == Collectables(LastTree)

Excluded == IF LastTree.hadReset \/ ~base.exists THEN {} ELSE ExcludeItemIDs(LastTree)

MergedNow == Merge!Merged(Colls, Excluded, base.snap)

Here == FoldersNow \cup {Root}

Place == Paths(Parents, name)

AtTheEnd == DriveIInv /\ SnapFollows /\ DetailsFollow /\ job.delta /\ job.changed = {}

LEMMA BaseTellsNow ==
  ASSUME AtTheEnd, base.exists
  PROVE  BaseTells(Colls, base.snap, base.prevs, job.tree.live, Here, Parents, name, Place)
  <1>1. /\ CollectionsTell(Colls, base.prevs, job.tree.live, Here, Parents, name, Place)
        /\ \A c \in Colls : c.cur = Nowhere => c.id \in DOMAIN base.prevs \ Here
                                               /\ c.prev = base.prevs[c.id]
        /\ \A c, d \in Colls : c.id = d.id => c = d
    BY CollectionsTellPlaces DEF AtTheEnd, Colls, Here, Place
  <1>2. \A x, y \in Here : Place[x] = Place[y] => x = y
    BY PlacesAre DEF AtTheEnd, DriveIInv, Here, Place
  <1>3. Root \in DOMAIN base.prevs
    BY DEF AtTheEnd, DriveIInv, BaseFollows
  <1>4. \A x \in DOMAIN base.prevs \ {Root} :
          /\ base.prevs[x] # <<>>
          /\ \E y \in DOMAIN base.prevs : base.prevs[y] = Front(base.prevs[x])
    BY DEF AtTheEnd, SnapFollows
  <1>5. \A e \in base.snap : \E x \in DOMAIN base.prevs : e.dir = base.prevs[x]
    BY DEF AtTheEnd, SnapFollows, Entry
  <1> QED BY <1>1, <1>2, <1>3, <1>4, <1>5 DEF BaseTells

(* What the tree knows of files: a file in the tree is as it is in the     *)
(* drive; one that is not is as it was in the base, or is gone.            *)
LEMMA FilesAtTheEnd ==
  ASSUME AtTheEnd, NEW f \in Files
  PROVE  \/ /\ f \in Existing /\ home[f] \in job.tree.live
            /\ job.tree.fileParent[f] = home[f] /\ job.tree.version[f] = version[f]
         \/ f \notin Existing /\ f \in job.tree.deleted /\ job.tree.fileParent[f] = Nowhere
         \/ /\ f \notin job.tree.deleted /\ job.tree.fileParent[f] = Nowhere
            /\ IF job.tree.hadReset \/ ~base.exists THEN f \notin Existing ELSE f \notin changed
  <1>1. Follows(f)
    BY DEF AtTheEnd, DriveIInv, TreeFollows, Things
  <1>2. TreeIsOne(job.tree)
    BY DEF AtTheEnd, DriveIInv, JobIsGood
  <1>3. job.changed = {}
    BY DEF AtTheEnd
  <1> QED BY <1>1, <1>2, <1>3 DEF Follows, Has, Without, TreeIsOne

(* What is not excluded of the base has not changed.                       *)
LEMMA ExcludedAre ==
  ASSUME AtTheEnd, base.exists, ~job.tree.hadReset
  PROVE  /\ Excluded \subseteq Files
         /\ \A f \in Files \ Excluded : f \notin changed /\ job.tree.fileParent[f] = Nowhere
         /\ \A f \in Files : job.tree.fileParent[f] \in job.tree.live => f \in Excluded
         /\ \A f \in Files : f \notin job.tree.deleted /\ job.tree.fileParent[f] = Nowhere
                               => f \notin Excluded
  <1>1. /\ LastTree.hadReset = FALSE /\ LastTree.live = job.tree.live
        /\ LastTree.deleted = job.tree.deleted /\ LastTree.fileParent = job.tree.fileParent
    BY LastTreeIs DEF AtTheEnd
  <1>2. job.tree.deleted \subseteq Files /\ job.tree.live \subseteq Dirs /\ Nowhere \notin Dirs
    BY IDAssumption DEF AtTheEnd, DriveIInv, JobIsGood, Jobs, Trees, Dirs
  <1>3. Excluded = {f \in Files : job.tree.fileParent[f] \in job.tree.live} \cup job.tree.deleted
    BY <1>1 DEF Excluded, ExcludeItemIDs
  <1>4. ASSUME NEW f \in Files, f \notin Excluded
        PROVE  f \notin changed /\ job.tree.fileParent[f] = Nowhere
    BY <1>3, <1>4, FilesAtTheEnd
  <1> QED BY <1>2, <1>3, <1>4

(* What the drive holds.                                                   *)
LEMMA DriveNowIs ==
  ASSUME DriveIsGood, NEW e
  PROVE  e \in DriveNow <=> \/ \E f \in Files \cap Existing : e = Entry(Place[home[f]], f, version[f])
                            \/ \E x \in FoldersNow : e = Entry(Place[x], ".dirmeta", x)
  <1>1. \A x \in FoldersNow : PlaceOf(x) = Place[x]
    BY PlacesAre DEF Place
  <1>2. \A f \in Files : PlaceOf(f) = Place[home[f]]
    BY DEF PlaceOf, Place
  <1> QED BY <1>1, <1>2 DEF DriveNow, Entry

(* What the collections stream is as it is in the drive.                   *)
LEMMA StreamIs ==
  ASSUME AtTheEnd, NEW m \in Merge!StreamEntries(Colls, base.snap)
  PROVE  \E x \in job.tree.live :
           /\ m = [dir |-> Place[x], name |-> m.name, content |-> m.content, loc |-> Place[x],
                   from |-> m.from]
           /\ m.from # Nowhere => /\ m.from = Place[x]
                                  /\ Entry(Place[x], m.name, m.content) \in base.snap
           /\ m.from = Nowhere => Entry(Place[x], m.name, m.content) \notin base.snap
           /\ \/ x # Root /\ m.name = ".dirmeta" /\ m.content = x
              \/ /\ m.name \in Files \cap Existing /\ m.content = version[m.name]
                 /\ home[m.name] = x /\ job.tree.fileParent[m.name] = x
  <1> DEFINE t == job.tree
  <1>1. PICK c \in Colls : c.cur # Nowhere /\ \E f \in c.files :
          m = [dir |-> c.cur, name |-> f.name, content |-> f.content, loc |-> c.loc,
               from |-> IF [dir |-> c.cur, name |-> f.name, content |-> f.content] \in base.snap
                        THEN c.cur ELSE Nowhere]
    BY DEF Merge!StreamEntries, Merge!Deleted
  <1>2. PICK f \in c.files :
          m = [dir |-> c.cur, name |-> f.name, content |-> f.content, loc |-> c.loc,
               from |-> IF [dir |-> c.cur, name |-> f.name, content |-> f.content] \in base.snap
                        THEN c.cur ELSE Nowhere]
    BY <1>1
  <1>3. /\ c.id \in t.live /\ c.cur = Place[c.id] /\ c.loc = c.cur
        /\ c.files = FilesOf(LastTree, c.id)
    BY <1>1, CollectionsTellPlaces DEF AtTheEnd, Colls, Place, CollectionsTell
  <1>4. /\ m.name = f.name /\ m.content = f.content
        /\ m.from = IF Entry(c.cur, f.name, f.content) \in base.snap THEN c.cur ELSE Nowhere
    BY <1>2 DEF Entry
  <1>5. LastTree.files = t.files /\ LastTree.version = t.version
    BY LastTreeIs DEF AtTheEnd
  <1>6. /\ t.live \subseteq Dirs /\ Nowhere \notin Dirs
        /\ \A g \in Files, x \in Dirs : g \in t.files[x] <=> t.fileParent[g] = x
        /\ t.files \in [Dirs -> SUBSET Files]
    BY IDAssumption DEF AtTheEnd, DriveIInv, JobIsGood, Jobs, Trees, TreeIsOne, Dirs
  <1>7. \/ c.id # Root /\ f.name = ".dirmeta" /\ f.content = c.id
        \/ /\ f.name \in Files \cap Existing /\ f.content = version[f.name]
           /\ home[f.name] = c.id /\ t.fileParent[f.name] = c.id
    <2>1. CASE c.id # Root /\ f = DirMeta(c.id)
      BY <2>1 DEF DirMeta
    <2>2. CASE \E g \in t.files[c.id] : f = File(g, t.version[g])
      <3>1. PICK g \in t.files[c.id] : f = File(g, t.version[g])
        BY <2>2
      <3>2. g \in Files /\ t.fileParent[g] = c.id /\ t.fileParent[g] # Nowhere
        BY <1>3, <1>6
      <3>3. g \in Existing /\ home[g] = c.id /\ t.version[g] = version[g]
        BY <3>2, FilesAtTheEnd
      <3> QED BY <3>1, <3>2, <3>3 DEF File
    <2> QED BY <1>2, <1>3, <1>5, <2>1, <2>2 DEF FilesOf
  <1>8. Place[c.id] # Nowhere
    BY <1>1, <1>3
  <1> QED BY <1>2, <1>3, <1>4, <1>7, <1>8

(* The collections stream every folder and file of the tree.               *)
LEMMA StreamHas ==
  ASSUME AtTheEnd, NEW x \in job.tree.live, NEW n, NEW v,
         \/ x # Root /\ n = ".dirmeta" /\ v = x
         \/ n \in Files /\ v = job.tree.version[n] /\ job.tree.fileParent[n] = x
  PROVE  \E m \in Merge!StreamEntries(Colls, base.snap) :
           m.dir = Place[x] /\ m.name = n /\ m.content = v
  <1> DEFINE t == job.tree
             f == [name |-> n, content |-> v]
  <1>1. PICK c \in Colls : c.cur # Nowhere /\ c.id = x
    BY CollectionsTellPlaces DEF AtTheEnd, Colls, CollectionsTell
  <1>2. c.cur = Place[x] /\ c.files = FilesOf(LastTree, x)
    BY <1>1, CollectionsTellPlaces DEF AtTheEnd, Colls, Place, CollectionsTell
  <1>3. LastTree.files = t.files /\ LastTree.version = t.version
    BY LastTreeIs DEF AtTheEnd
  <1>4. /\ t.live \subseteq Dirs
        /\ \A g \in Files, y \in Dirs : g \in t.files[y] <=> t.fileParent[g] = y
    BY DEF AtTheEnd, DriveIInv, JobIsGood, Jobs, Trees, TreeIsOne
  <1>5. f \in c.files
    <2>1. CASE x # Root /\ n = ".dirmeta" /\ v = x
      <3>1. f = DirMeta(x)
        BY <2>1 DEF DirMeta
      <3> QED BY <1>2, <2>1, <3>1 DEF FilesOf
    <2>2. CASE n \in Files /\ v = t.version[n] /\ t.fileParent[n] = x
      <3>1. n \in t.files[x] /\ f = File(n, t.version[n])
        BY <1>4, <2>2 DEF File
      <3> QED BY <1>2, <1>3, <3>1 DEF FilesOf
    <2> QED BY <2>1, <2>2
  <1> DEFINE of(d, g) ==
               [dir |-> d.cur, name |-> g.name, content |-> g.content, loc |-> d.loc,
                from |-> IF [dir |-> d.cur, name |-> g.name, content |-> g.content] \in base.snap
                         THEN d.cur ELSE Nowhere]
             all(d) == {of(d, g) : g \in d.files}
             live == {d \in Colls : ~Merge!Deleted(d)}
  <1>6. Merge!StreamEntries(Colls, base.snap) = UNION {all(d) : d \in live}
    BY DEF Merge!StreamEntries
  <1>7. c \in live
    BY <1>1 DEF Merge!Deleted
  <1>8. of(c, f) \in all(c)
    BY <1>5
  <1>9. of(c, f).dir = Place[x] /\ of(c, f).name = n /\ of(c, f).content = v
    BY <1>2
  <1> HIDE DEF of, all, live
  <1>10. of(c, f) \in Merge!StreamEntries(Colls, base.snap)
    BY <1>6, <1>7, <1>8
  <1> QED BY <1>9, <1>10

(* An entry e of the base, streamed from the source s.                     *)
LocationAt(colls, to) ==
  LET there == {c \in colls : c.cur = to}
  IN  IF there = {} THEN Nowhere ELSE (CHOOSE c \in there : TRUE).loc

SeenAt(colls, to) ==
  UNION {{f.name : f \in c.files} \cup c.removed : c \in {c \in colls : c.cur = to}}

BaseEntry(colls, s, e) ==
  [dir |-> Moves(s.from, s.to, e.dir), name |-> e.name, content |-> e.content, from |-> e.dir,
   loc |-> IF e.dir = s.from THEN LocationAt(colls, s.to) ELSE Nowhere]

Streamed(colls, exclude, s, e) ==
  /\ Covers(s, e.dir) /\ e.name \notin exclude
  /\ e.dir = s.from => e.name \notin SeenAt(colls, s.to)

LEMMA BaseEntriesAre ==
  ASSUME NEW colls, NEW exclude, NEW snap, NEW s
  PROVE  Merge!BaseEntriesOf(colls, exclude, snap, s) =
           {BaseEntry(colls, s, e) : e \in {e \in snap : Streamed(colls, exclude, s, e)}}
  <1>1. Merge!IsPrefix(s.from, s.from) = IsPrefix(s.from, s.from)
    BY PrefixesAreOne
  <1>2. {e \in snap : Streamed(colls, exclude, s, e)} =
          {e \in snap : /\ IF s.whole THEN Merge!IsPrefix(s.from, e.dir) ELSE e.dir = s.from
                        /\ e.name \notin exclude
                        /\ e.dir = s.from => e.name \notin SeenAt(colls, s.to)}
    BY PrefixesAreOne DEF Streamed, Covers
  <1> QED BY <1>2 DEF Merge!BaseEntriesOf, BaseEntry, Moves, SeenAt, LocationAt

(* Nothing of the base is streamed when the enumeration started over.      *)
LEMMA NoSourcesAfterReset ==
  ASSUME AtTheEnd, base.exists, job.tree.hadReset
  PROVE  Merge!Sources(Colls, base.snap) = {}
  <1> SUFFICES ASSUME NEW s \in Merge!Sources(Colls, base.snap) PROVE FALSE
    OBVIOUS
  <1>1. PICK x \in DOMAIN base.prevs \cap Here : \A c \in Colls : c.cur = Place[x] => ~c.reset
    BY BaseTellsNow, SourceIs
  <1>2. x \in job.tree.live
    <2>1. Root \in job.tree.live
      BY DEF AtTheEnd, DriveIInv, TreeFollows
    <2>2. \A y \in FoldersNow : y \in job.tree.live
      BY TreeAtTheEnd DEF AtTheEnd
    <2> QED BY <1>1, <2>1, <2>2 DEF Here
  <1>3. PICK c \in Colls : c.cur # Nowhere /\ c.id = x
    BY <1>2, CollectionsTellPlaces DEF AtTheEnd, Colls, CollectionsTell
  <1>4. c.cur = Place[x] /\ c.reset
    BY <1>3, CollectionsTellPlaces DEF AtTheEnd, Colls, CollectionsTell, Place
  <1> QED BY <1>1, <1>4

(* What comes from the base is as it is in the drive.                      *)
LEMMA BaseEntryIs ==
  ASSUME AtTheEnd, base.exists, NEW s \in Merge!Sources(Colls, base.snap),
         NEW m \in Merge!BaseEntriesOf(Colls, Excluded, base.snap, s)
  PROVE  \E e \in base.snap, y \in DOMAIN base.prevs \cap Here :
           /\ m = BaseEntry(Colls, s, e)
           /\ e.dir = base.prevs[y] /\ Covers(s, e.dir) /\ m.dir = Place[y]
           /\ m.loc = Place[y] \/ (m.loc = Nowhere /\ y \notin job.tree.live)
           /\ \/ y # Root /\ e.name = ".dirmeta" /\ e.content = y
              \/ /\ e.name \in (Files \cap Existing) \ Excluded /\ e.content = version[e.name]
                 /\ home[e.name] = y
                 /\ e = Entry(base.prevs[y], e.name, version[e.name])
  <1>1. BaseTells(Colls, base.snap, base.prevs, job.tree.live, Here, Parents, name, Place)
    BY BaseTellsNow
  <1>2. PICK x \in DOMAIN base.prevs \cap Here :
          /\ s.from = base.prevs[x] /\ s.to = Place[x]
          /\ \A y \in DOMAIN base.prevs : Covers(s, base.prevs[y]) =>
               /\ y \in Here /\ Place[y] = Moves(base.prevs[x], Place[x], base.prevs[y])
               /\ y # x => y \notin job.tree.live
    BY <1>1, SourceIs
  <1>3. PICK e \in base.snap : Streamed(Colls, Excluded, s, e) /\ m = BaseEntry(Colls, s, e)
    BY BaseEntriesAre
  <1>4. PICK y \in DOMAIN base.prevs :
          \/ y # Root /\ e = Entry(base.prevs[y], ".dirmeta", y)
          \/ \E f \in Files : e = Entry(base.prevs[y], f, e.content)
    BY DEF AtTheEnd, SnapFollows
  <1>5. e.dir = base.prevs[y] /\ Covers(s, e.dir) /\ e.name \notin Excluded
    BY <1>3, <1>4 DEF Entry, Streamed
  <1>6. y \in Here /\ m.dir = Place[y]
    BY <1>2, <1>3, <1>5 DEF BaseEntry
  <1>7. m.loc = Place[y] \/ (m.loc = Nowhere /\ y \notin job.tree.live)
    <2>1. m.loc = IF e.dir = s.from THEN LocationAt(Colls, s.to) ELSE Nowhere
      BY <1>3 DEF BaseEntry
    <2>2. \A z, w \in DOMAIN base.prevs : base.prevs[z] = base.prevs[w] => z = w
      BY <1>1 DEF BaseTells, CollectionsTell
    <2>3. CASE e.dir # s.from
      BY <1>2, <1>5, <2>1, <2>3
    <2>4. CASE e.dir = s.from
      <3> DEFINE there == {c \in Colls : c.cur = s.to}
      <3>1. y = x /\ s.to = Place[y]
        BY <1>2, <1>5, <2>2, <2>4
      <3>2. \A c \in there : c.loc = Place[y]
        BY <3>1, CollectionsTellPlaces DEF AtTheEnd, Colls
      <3>3. y \in job.tree.live => there # {}
        <4> SUFFICES ASSUME y \in job.tree.live PROVE there # {}
          OBVIOUS
        <4>1. PICK c \in Colls : c.cur # Nowhere /\ c.id = y
          BY CollectionsTellPlaces DEF AtTheEnd, Colls, CollectionsTell
        <4>2. c.cur = Place[y]
          BY <4>1, CollectionsTellPlaces DEF AtTheEnd, Colls, CollectionsTell, Place
        <4> QED BY <3>1, <4>2
      <3>4. LocationAt(Colls, s.to) = IF there = {} THEN Nowhere ELSE (CHOOSE c \in there : TRUE).loc
        BY DEF LocationAt
      <3> HIDE DEF there
      <3> QED BY <2>1, <2>4, <3>2, <3>3, <3>4
    <2> QED BY <2>3, <2>4
  <1>8. \/ y # Root /\ e.name = ".dirmeta" /\ e.content = y
        \/ /\ e.name \in (Files \cap Existing) \ Excluded /\ e.content = version[e.name]
           /\ home[e.name] = y
           /\ e = Entry(base.prevs[y], e.name, version[e.name])
    <2>1. CASE y # Root /\ e = Entry(base.prevs[y], ".dirmeta", y)
      BY <2>1 DEF Entry
    <2>2. CASE \E f \in Files : e = Entry(base.prevs[y], f, e.content)
      <3>1. PICK f \in Files : e = Entry(base.prevs[y], f, e.content)
        BY <2>2
      <3>2. e.name = f
        BY <3>1 DEF Entry
      <3>3. ~job.tree.hadReset
        BY NoSourcesAfterReset
      <3>4. f \notin changed
        BY <1>5, <3>1, <3>2, <3>3, ExcludedAre
      <3>5. f \in Existing /\ e = Entry(base.prevs[home[f]], f, version[f]) /\ home[f] \in DOMAIN base.prevs
        BY <3>1, <3>2, <3>4 DEF AtTheEnd, SnapFollows
      <3>6. base.prevs[home[f]] = base.prevs[y] /\ e.content = version[f]
        BY <1>5, <3>5 DEF Entry
      <3>7. home[f] = y
        BY <1>1, <3>5, <3>6 DEF BaseTells, CollectionsTell
      <3> QED BY <1>5, <3>1, <3>2, <3>5, <3>6, <3>7
    <2> QED BY <1>4, <2>1, <2>2
  <1> QED BY <1>3, <1>5, <1>6, <1>7, <1>8

(* What the collections do not bring comes from the base, if it is there.  *)
LEMMA BaseHas ==
  ASSUME AtTheEnd, base.exists, ~job.tree.hadReset,
         NEW y \in DOMAIN base.prevs \cap Here, NEW n, NEW v,
         Entry(base.prevs[y], n, v) \in base.snap, n \notin Excluded,
         n # ".dirmeta" \/ y \notin job.tree.live,
         n \in Files => job.tree.fileParent[n] = Nowhere
  PROVE  \E s \in Merge!Sources(Colls, base.snap) :
           \E m \in Merge!BaseEntriesOf(Colls, Excluded, base.snap, s) :
             m.dir = Place[y] /\ m.name = n /\ m.content = v
  <1> DEFINE e == Entry(base.prevs[y], n, v)
  <1>1. BaseTells(Colls, base.snap, base.prevs, job.tree.live, Here, Parents, name, Place)
    BY BaseTellsNow
  <1>2. e \in base.snap /\ e.dir = base.prevs[y] /\ e.name = n /\ e.content = v
    BY DEF Entry
  <1> HIDE DEF e
  <1>3. \A c \in Colls : ~c.reset
    BY CollectionsTellPlaces DEF AtTheEnd, Colls
  <1>4. PICK s \in Merge!Sources(Colls, base.snap) : Covers(s, e.dir)
    BY <1>1, <1>2, <1>3, SourceCovers
  <1>5. PICK x \in DOMAIN base.prevs \cap Here :
          /\ s.from = base.prevs[x] /\ s.to = Place[x]
          /\ Place[y] = Moves(base.prevs[x], Place[x], base.prevs[y])
    BY <1>1, <1>2, <1>4, SourceIs
  <1>6. ASSUME NEW c \in Colls, c.cur = Place[y], NEW f \in c.files PROVE f.name # n
    <2>1. Place[y] # Nowhere
      BY <1>1, IDAssumption DEF BaseTells, CollectionsTell
    <2>2. c.id \in job.tree.live /\ Place[c.id] = Place[y] /\ c.files = FilesOf(LastTree, c.id)
      BY <1>6, <2>1, CollectionsTellPlaces DEF AtTheEnd, Colls, CollectionsTell, Place
    <2>3. c.id = y
      BY <1>1, <2>2 DEF BaseTells, CollectionsTell
    <2>4. LastTree.files = job.tree.files
      BY LastTreeIs DEF AtTheEnd
    <2>5. CASE f.name = ".dirmeta"
      BY <2>2, <2>3, <2>5
    <2>6. CASE \E g \in job.tree.files[y] : f.name = g
      <3>1. PICK g \in job.tree.files[y] : f.name = g
        BY <2>6
      <3>2. /\ job.tree.live \subseteq Dirs /\ Nowhere \notin Dirs
            /\ \A h \in Files, z \in Dirs : h \in job.tree.files[z] <=> job.tree.fileParent[h] = z
            /\ job.tree.files \in [Dirs -> SUBSET Files]
        BY IDAssumption DEF AtTheEnd, DriveIInv, JobIsGood, Jobs, Trees, TreeIsOne, Dirs
      <3>3. g \in Files /\ job.tree.fileParent[g] # Nowhere
        BY <2>2, <2>3, <3>1, <3>2
      <3> QED BY <3>1, <3>3
    <2>7. f.name = ".dirmeta" \/ \E g \in job.tree.files[y] : f.name = g
      BY <1>6, <2>2, <2>3, <2>4 DEF FilesOf, File, DirMeta
    <2> QED BY <2>5, <2>6, <2>7
  <1>7. e.dir = s.from => e.name \notin SeenAt(Colls, s.to)
    <2> SUFFICES ASSUME e.dir = s.from, e.name \in SeenAt(Colls, s.to) PROVE FALSE
      OBVIOUS
    <2>1. x = y
      <3>1. \A z, w \in DOMAIN base.prevs : base.prevs[z] = base.prevs[w] => z = w
        BY <1>1 DEF BaseTells, CollectionsTell
      <3>2. base.prevs[x] = base.prevs[y]
        BY <1>2, <1>5
      <3> QED BY <3>1, <3>2
    <2>2. PICK c \in Colls : c.cur = s.to /\ (n \in {f.name : f \in c.files} \/ n \in c.removed)
      BY <1>2 DEF SeenAt
    <2>3. c.removed = {}
      BY CollectionsTellPlaces DEF AtTheEnd, Colls
    <2> QED BY <1>5, <1>6, <2>1, <2>2, <2>3
  <1>8. Streamed(Colls, Excluded, s, e)
    BY <1>2, <1>4, <1>7 DEF Streamed
  <1>9. BaseEntry(Colls, s, e) \in Merge!BaseEntriesOf(Colls, Excluded, base.snap, s)
    BY <1>2, <1>8, BaseEntriesAre
  <1>10. /\ BaseEntry(Colls, s, e).dir = Place[y]
         /\ BaseEntry(Colls, s, e).name = n /\ BaseEntry(Colls, s, e).content = v
    BY <1>2, <1>5 DEF BaseEntry
  <1> QED BY <1>9, <1>10

LEMMA MergedIs ==
  /\ \A m : m \in MergedNow <=>
       \/ m \in Merge!StreamEntries(Colls, base.snap)
       \/ \E s \in Merge!Sources(Colls, base.snap) :
            m \in Merge!BaseEntriesOf(Colls, Excluded, base.snap, s)
  /\ \A e : e \in Merge!Snapshot(MergedNow) <=>
       \E m \in MergedNow : e = Entry(m.dir, m.name, m.content)
  <1> DEFINE from(s) == Merge!BaseEntriesOf(Colls, Excluded, base.snap, s)
             S == Merge!Sources(Colls, base.snap)
             stream == Merge!StreamEntries(Colls, base.snap)
             all == UNION {from(s) : s \in S}
  <1>1. MergedNow = stream \cup all
    BY DEF MergedNow, Merge!Merged
  <1> HIDE DEF from, S, stream
  <1>2. \A m : m \in all <=> \E s \in S : m \in from(s)
    OBVIOUS
  <1> HIDE DEF all
  <1>3. \A m : m \in MergedNow <=> m \in stream \/ \E s \in S : m \in from(s)
    BY <1>1, <1>2
  <1>4. \A e : e \in Merge!Snapshot(MergedNow) <=>
          \E m \in MergedNow : e = Entry(m.dir, m.name, m.content)
    BY DEF Merge!Snapshot, Entry
  <1> QED BY <1>3, <1>4 DEF from, S, stream

LEMMA NoBaseNoSources ==
  ASSUME AtTheEnd, ~base.exists
  PROVE  /\ \A s : Merge!BaseEntriesOf(Colls, Excluded, base.snap, s) = {}
         /\ Here \subseteq job.tree.live
  <1>1. base.snap = {}
    BY DEF AtTheEnd, SnapFollows
  <1>2. \A s : Merge!BaseEntriesOf(Colls, Excluded, base.snap, s) = {}
    BY <1>1, BaseEntriesAre
  <1>3. Root \in job.tree.live
    BY DEF AtTheEnd, DriveIInv, TreeFollows
  <1>4. \A y \in FoldersNow : y \in job.tree.live
    BY TreeAtTheEnd DEF AtTheEnd
  <1> QED BY <1>2, <1>3, <1>4 DEF Here

(* The snapshot that is made holds what the drive holds, and nothing else. *)
LEMMA SnapshotIsDrive ==
  ASSUME AtTheEnd
  PROVE  Merge!Snapshot(MergedNow) = DriveNow
  <1> DEFINE t == job.tree
  <1>1. DriveIsGood
    BY DEF AtTheEnd, DriveIInv
  <1>2. /\ \A x \in t.live \ {Root} : x \in FoldersNow
        /\ \A x \in FoldersNow \ t.live : ~t.hadReset /\ base.exists /\ x \notin changed
    BY TreeAtTheEnd DEF AtTheEnd
  <1>3. ASSUME NEW m \in Merge!StreamEntries(Colls, base.snap)
        PROVE  Entry(m.dir, m.name, m.content) \in DriveNow
    <2>1. PICK x \in t.live :
            /\ m.dir = Place[x]
            /\ \/ x # Root /\ m.name = ".dirmeta" /\ m.content = x
               \/ /\ m.name \in Files \cap Existing /\ m.content = version[m.name]
                  /\ home[m.name] = x
      BY StreamIs
    <2> QED BY <1>1, <1>2, <2>1, DriveNowIs
  <1>4. ASSUME NEW s \in Merge!Sources(Colls, base.snap),
               NEW m \in Merge!BaseEntriesOf(Colls, Excluded, base.snap, s)
        PROVE  Entry(m.dir, m.name, m.content) \in DriveNow
    <2>1. base.exists
      BY NoBaseNoSources
    <2>2. PICK e \in base.snap, y \in DOMAIN base.prevs \cap Here :
            /\ m = BaseEntry(Colls, s, e) /\ m.dir = Place[y]
            /\ \/ y # Root /\ e.name = ".dirmeta" /\ e.content = y
               \/ /\ e.name \in (Files \cap Existing) \ Excluded /\ e.content = version[e.name]
                  /\ home[e.name] = y
      BY <2>1, BaseEntryIs
    <2>3. m.name = e.name /\ m.content = e.content
      BY <2>2 DEF BaseEntry
    <2> QED BY <1>1, <2>2, <2>3, DriveNowIs DEF Here
  <1>5. ASSUME NEW x \in FoldersNow
        PROVE  Entry(Place[x], ".dirmeta", x) \in Merge!Snapshot(MergedNow)
    <2>0. x # Root /\ x \in Folders /\ x \in Here
      BY IDAssumption DEF FoldersNow, Here
    <2>1. CASE x \in t.live
      <3>1. PICK m \in Merge!StreamEntries(Colls, base.snap) :
              m.dir = Place[x] /\ m.name = ".dirmeta" /\ m.content = x
        BY <2>0, <2>1, StreamHas
      <3> QED BY <3>1, MergedIs
    <2>2. CASE x \notin t.live
      <3>1. ~t.hadReset /\ base.exists /\ x \notin changed
        BY <1>2, <2>2
      <3>2. x \in DOMAIN base.prevs
        BY <2>0, <3>1 DEF AtTheEnd, DriveIInv, BaseFollows, FoldersNow
      <3>3. Entry(base.prevs[x], ".dirmeta", x) \in base.snap
        BY <2>0, <3>2 DEF AtTheEnd, SnapFollows
      <3>4. ".dirmeta" \notin Excluded
        BY <3>1, ExcludedAre, IDAssumption
      <3>5. \E s \in Merge!Sources(Colls, base.snap) :
              \E m \in Merge!BaseEntriesOf(Colls, Excluded, base.snap, s) :
                m.dir = Place[x] /\ m.name = ".dirmeta" /\ m.content = x
        <4> DEFINE n == ".dirmeta"
        <4>1. /\ n \notin Files /\ n \notin Excluded /\ x \notin t.live
              /\ Entry(base.prevs[x], n, x) \in base.snap
              /\ x \in DOMAIN base.prevs \cap Here
          BY <2>0, <2>2, <3>2, <3>3, <3>4, IDAssumption
        <4> HIDE DEF n
        <4>2. \E s \in Merge!Sources(Colls, base.snap) :
                \E m \in Merge!BaseEntriesOf(Colls, Excluded, base.snap, s) :
                  m.dir = Place[x] /\ m.name = n /\ m.content = x
          BY <3>1, <4>1, BaseHas
        <4> QED BY <4>2 DEF n
      <3> QED BY <3>5, MergedIs
    <2> QED BY <2>1, <2>2
  <1>6. ASSUME NEW f \in Files \cap Existing
        PROVE  Entry(Place[home[f]], f, version[f]) \in Merge!Snapshot(MergedNow)
    <2>0. home[f] \in Here
      BY <1>1, ExistingIs DEF Here
    <2>1. CASE home[f] \in t.live /\ t.fileParent[f] = home[f] /\ t.version[f] = version[f]
      <3>1. PICK m \in Merge!StreamEntries(Colls, base.snap) :
              m.dir = Place[home[f]] /\ m.name = f /\ m.content = version[f]
        BY <2>1, StreamHas
      <3> QED BY <3>1, MergedIs
    <2>2. CASE /\ f \notin t.deleted /\ t.fileParent[f] = Nowhere
               /\ ~t.hadReset /\ base.exists /\ f \notin changed
      <3>1. home[f] \in DOMAIN base.prevs /\ Entry(base.prevs[home[f]], f, version[f]) \in base.snap
        BY <2>2 DEF AtTheEnd, SnapFollows
      <3>2. f \notin Excluded
        BY <2>2, ExcludedAre
      <3>3. f # ".dirmeta"
        BY IDAssumption
      <3>4. \E s \in Merge!Sources(Colls, base.snap) :
              \E m \in Merge!BaseEntriesOf(Colls, Excluded, base.snap, s) :
                m.dir = Place[home[f]] /\ m.name = f /\ m.content = version[f]
        BY <2>0, <2>2, <3>1, <3>2, <3>3, BaseHas
      <3> QED BY <3>4, MergedIs
    <2> QED BY <2>1, <2>2, FilesAtTheEnd
  <1>7. ASSUME NEW e \in Merge!Snapshot(MergedNow) PROVE e \in DriveNow
    <2>1. PICK m \in MergedNow : e = Entry(m.dir, m.name, m.content)
      BY MergedIs
    <2> QED BY <1>3, <1>4, <2>1, MergedIs
  <1>8. ASSUME NEW e \in DriveNow PROVE e \in Merge!Snapshot(MergedNow)
    BY <1>1, <1>5, <1>6, DriveNowIs
  <1> QED BY <1>7, <1>8

(* The collections do not contradict each other.                           *)
LEMMA NoConflict ==
  ASSUME AtTheEnd
  PROVE  ~Merge!Conflict(Colls)
  <1> SUFFICES ASSUME NEW c \in Colls, NEW d \in Colls,
                      \/ c # d /\ c.prev # Nowhere /\ c.prev = d.prev
                      \/ c # d /\ c.cur # Nowhere /\ c.cur = d.cur
                      \/ (Merge!Deleted(c) \/ Merge!Moved(c)) /\ Merge!NotMoved(d) /\ c.prev = d.cur
               PROVE  FALSE
    BY DEF Merge!Conflict
  <1>1. /\ \A a \in Colls : a.cur # Nowhere =>
             /\ a.id \in job.tree.live /\ a.cur = Place[a.id]
             /\ a.prev = IF a.id \in DOMAIN base.prevs THEN base.prevs[a.id] ELSE Nowhere
        /\ \A a \in Colls : a.cur = Nowhere => a.id \in DOMAIN base.prevs
                                               /\ a.prev = base.prevs[a.id]
        /\ \A a, b \in Colls : a.id = b.id => a = b
        /\ \A x, y \in DOMAIN base.prevs : base.prevs[x] = base.prevs[y] => x = y
        /\ job.tree.live \subseteq Here
    BY CollectionsTellPlaces DEF AtTheEnd, Colls, CollectionsTell, Place, Here
  <1>2. \A x, y \in Here : Place[x] = Place[y] => x = y
    BY PlacesAre DEF AtTheEnd, DriveIInv, Here, Place
  <1>3. ASSUME c.prev # Nowhere, c.prev = d.prev PROVE c = d
    BY <1>1, <1>3
  <1>4. ASSUME c.cur # Nowhere, c.cur = d.cur PROVE c = d
    BY <1>1, <1>2, <1>4
  <1>5. ASSUME Merge!Deleted(c) \/ Merge!Moved(c), Merge!NotMoved(d), c.prev = d.cur PROVE FALSE
    <2>1. c.prev # Nowhere /\ c.prev = d.prev
      BY <1>5 DEF Merge!NotMoved
    <2> QED BY <1>3, <1>5, <2>1 DEF Merge!Deleted, Merge!Moved, Merge!NotMoved
  <1> QED BY <1>3, <1>4, <1>5

(* The details of every item that comes from the base are found, once.     *)
LEMMA DetailsAreFound ==
  ASSUME AtTheEnd
  PROVE  ~Merge!MergeFails(MergedNow, base.details)
  <1> DEFINE stream == Merge!StreamEntries(Colls, base.snap)
             from(s) == Merge!BaseEntriesOf(Colls, Excluded, base.snap, s)
             S == Merge!Sources(Colls, base.snap)
  <1>1. \A m \in Merge!Items(MergedNow) : m \in MergedNow /\ m.name # ".dirmeta"
    BY DEF Merge!Items
  <1>2. ASSUME NEW m \in stream, m.from # Nowhere
        PROVE  /\ Entry(m.from, m.name, m.content) \in base.snap
               /\ m.name # ".dirmeta" =>
                    /\ m.name \in Files /\ m.name \in Existing
                    /\ job.tree.fileParent[m.name] = home[m.name]
                    /\ home[m.name] \in job.tree.live
    BY <1>2, StreamIs
  <1>3. ASSUME NEW s \in S, NEW m \in from(s)
        PROVE  /\ base.exists
               /\ Entry(m.from, m.name, m.content) \in base.snap
               /\ m.name # ".dirmeta" => m.name \in Files \ Excluded
    <2>1. base.exists
      BY NoBaseNoSources
    <2>2. PICK e \in base.snap, y \in DOMAIN base.prevs \cap Here :
            /\ m = BaseEntry(Colls, s, e)
            /\ \/ e.name = ".dirmeta"
               \/ e.name \in Files \ Excluded /\ e = Entry(base.prevs[y], e.name, version[e.name])
      BY <2>1, BaseEntryIs
    <2>3. m.name = e.name /\ m.content = e.content /\ m.from = e.dir
      BY <2>2 DEF BaseEntry
    <2>4. e = Entry(e.dir, e.name, e.content)
      BY DEF AtTheEnd, SnapFollows, Entry
    <2> QED BY <2>1, <2>2, <2>3, <2>4
  <1>4. ASSUME NEW m \in Merge!Items(MergedNow), m.from # Nowhere, Merge!Old(base.details, m) = {}
        PROVE  FALSE
    <2>1. Entry(m.from, m.name, m.content) \in base.snap /\ m.name # ".dirmeta"
      BY <1>1, <1>2, <1>3, <1>4, MergedIs
    <2>2. PICK d \in base.details : d.dir = m.from /\ d.name = m.name /\ d.content = m.content
      BY <2>1 DEF AtTheEnd, DetailsFollow, Entry
    <2> QED BY <1>4, <2>2 DEF Merge!Old
  <1>5. ASSUME NEW m \in Merge!Items(MergedNow), NEW n \in Merge!Items(MergedNow),
               m.from # Nowhere, m.from = n.from, m.name = n.name
        PROVE  m = n
    <2>0. /\ m \in MergedNow /\ n \in MergedNow
          /\ m.name # ".dirmeta" /\ n.name # ".dirmeta"
      BY <1>1
    <2>1. CASE m \in stream /\ n \in stream
      <3>1. PICK x \in job.tree.live :
              /\ m = [dir |-> Place[x], name |-> m.name, content |-> m.content, loc |-> Place[x],
                      from |-> m.from]
              /\ m.content = version[m.name] /\ home[m.name] = x
        BY <2>0, <2>1, StreamIs
      <3>2. PICK y \in job.tree.live :
              /\ n = [dir |-> Place[y], name |-> n.name, content |-> n.content, loc |-> Place[y],
                      from |-> n.from]
              /\ n.content = version[n.name] /\ home[n.name] = y
        BY <2>0, <2>1, StreamIs
      <3> QED BY <1>5, <3>1, <3>2
    <2>2. \A a \in stream, s \in S : \A b \in from(s) :
            a.from # Nowhere /\ a.name = b.name => a.name = ".dirmeta"
      <3> SUFFICES ASSUME NEW a \in stream, NEW s \in S, NEW b \in from(s),
                          a.from # Nowhere, a.name = b.name, a.name # ".dirmeta"
                   PROVE  FALSE
        OBVIOUS
      <3>1. base.exists /\ a.name \in Files \ Excluded
        BY <1>3
      <3>2. ~job.tree.hadReset
        BY <3>1, NoSourcesAfterReset
      <3>3. job.tree.fileParent[a.name] \in job.tree.live
        BY <1>2
      <3> QED BY <3>1, <3>2, <3>3, ExcludedAre
    <2>3. CASE \E s, r \in S : m \in from(s) /\ n \in from(r)
      <3>1. PICK s \in S, r \in S : m \in from(s) /\ n \in from(r)
        BY <2>3
      <3>2. base.exists
        BY <3>1, NoBaseNoSources
      <3>3. PICK e \in base.snap, y \in DOMAIN base.prevs \cap Here :
              /\ m = BaseEntry(Colls, s, e) /\ Covers(s, e.dir) /\ e.dir = base.prevs[y]
              /\ e.name = ".dirmeta" \/ e = Entry(base.prevs[y], e.name, version[e.name])
        BY <3>1, <3>2, BaseEntryIs
      <3>4. PICK f \in base.snap, z \in DOMAIN base.prevs \cap Here :
              /\ n = BaseEntry(Colls, r, f) /\ Covers(r, f.dir) /\ f.dir = base.prevs[z]
              /\ f.name = ".dirmeta" \/ f = Entry(base.prevs[z], f.name, version[f.name])
        BY <3>1, <3>2, BaseEntryIs
      <3>5. m.name = e.name /\ m.from = e.dir /\ n.name = f.name /\ n.from = f.dir
        BY <3>3, <3>4 DEF BaseEntry
      <3>6. e = f
        BY <1>5, <2>0, <3>3, <3>4, <3>5
      <3>7. BaseTells(Colls, base.snap, base.prevs, job.tree.live, Here, Parents, name, Place)
        BY <3>2, BaseTellsNow
      <3>8. e.dir \in Seq(Names)
        BY <3>3, <3>7 DEF BaseTells, CollectionsTell
      <3>9. s = r
        BY <3>1, <3>3, <3>4, <3>6, <3>7, <3>8, SourcesApart
      <3> QED BY <3>3, <3>4, <3>6, <3>9
    <2> QED BY <1>5, <2>0, <2>1, <2>2, <2>3, MergedIs
  <1> QED BY <1>4, <1>5 DEF Merge!MergeFails

-----------------------------------------------------------------------------
(* The invariant of what is stored.                                        *)

(* A backup that finishes is not refused, and stores the drive.            *)
LEMMA FinishStores ==
  ASSUME DriveIInv, SnapIInv, Finish
  PROVE  /\ AtTheEnd
         /\ base' = [exists   |-> TRUE,
                     prevs    |-> [x \in Here |-> Place[x]],
                     snap     |-> DriveNow,
                     details  |-> Merge!Details(Colls, MergedNow, base.details),
                     straight |-> base.straight /\ ~Replaces(Colls)]
         /\ changed' = {} /\ UNCHANGED refused
  <1>1. AtTheEnd
    BY DEF AtTheEnd, SnapIInv, Finish
  <1>2. ~Merge!Conflict(Colls) /\ ~Merge!MergeFails(MergedNow, base.details)
    BY <1>1, NoConflict, DetailsAreFound
  <1>3. /\ base' = [exists   |-> TRUE,
                    prevs    |-> NewPreviousPaths(Colls, base.prevs),
                    snap     |-> Merge!Snapshot(MergedNow),
                    details  |-> Merge!Details(Colls, MergedNow, base.details),
                    straight |-> base.straight /\ ~Replaces(Colls)]
        /\ changed' = {} /\ UNCHANGED refused
    BY <1>2 DEF Finish, Colls, MergedNow, Excluded, LastTree
  <1>4. NewPreviousPaths(Colls, base.prevs) = [x \in Here |-> Place[x]]
    <2>1. CollectionsTell(Colls, base.prevs, job.tree.live, Here, Parents, name, Place)
      BY <1>1, CollectionsTellPlaces DEF AtTheEnd, Colls, Here, Place
    <2> QED BY <2>1, NewPreviousPathsAre
  <1> QED BY <1>1, <1>3, <1>4, SnapshotIsDrive

LEMMA FinishKeepsSnap ==
  ASSUME DriveIInv, SnapIInv, Finish
  PROVE  SnapIInv'
  <1>1. /\ AtTheEnd
        /\ base'.exists = TRUE /\ base'.prevs = [x \in Here |-> Place[x]]
        /\ base'.snap = DriveNow
        /\ base'.details = Merge!Details(Colls, MergedNow, base.details)
        /\ changed' = {} /\ refused' = refused
    BY FinishStores
  <1>2. /\ UNCHANGED <<home, name, version, bin>> /\ Existing' = Existing
    BY DEF Finish, userVars, Existing, Parents
  <1>3. DriveIsGood
    BY DEF DriveIInv
  <1>4. /\ \A x \in FoldersNow : /\ home[x] \in Here /\ Place[x] = Append(Place[home[x]], name[x])
                                 /\ name[x] \in Names
        /\ \A x \in Here : Place[x] \in Seq(Names)
        /\ \A x \in FoldersNow : x # Root
        /\ \A f \in Files \cap Existing : home[f] \in Here
    BY <1>3, PlacesAre, ExistingIs, IDAssumption DEF Here, Place, FoldersNow
  <1>5. /\ DOMAIN base'.prevs = Here /\ \A x \in Here : base'.prevs[x] = Place[x]
    BY <1>1
  <1>6. SnapFollows'
    <2>1. ASSUME NEW x \in Here \ {Root}
          PROVE  /\ Place[x] # <<>>
                 /\ \E y \in Here : Place[y] = Front(Place[x])
                 /\ Entry(Place[x], ".dirmeta", x) \in DriveNow
      <3>1. x \in FoldersNow /\ Place[home[x]] \in Seq(Names) /\ home[x] \in Here
        BY <1>4 DEF Here
      <3>2. Place[x] # <<>> /\ Front(Place[x]) = Place[home[x]]
        <4>1. Place[x] = Append(Place[home[x]], name[x]) /\ name[x] \in Names
          BY <1>4, <3>1
        <4> HIDE DEF Place
        <4> QED BY <3>1, <4>1, Appended
      <3>3. Entry(Place[x], ".dirmeta", x) \in DriveNow
        BY <1>3, <3>1, DriveNowIs
      <3> QED BY <3>1, <3>2, <3>3
    <2>2. ASSUME NEW e \in DriveNow
          PROVE  \E x \in Here : \/ x # Root /\ e = Entry(Place[x], ".dirmeta", x)
                                 \/ \E f \in Files : e = Entry(Place[x], f, e.content)
      <3>1. CASE \E f \in Files \cap Existing : e = Entry(Place[home[f]], f, version[f])
        BY <1>4, <3>1 DEF Entry
      <3>2. CASE \E x \in FoldersNow : e = Entry(Place[x], ".dirmeta", x)
        BY <1>4, <3>2 DEF Here
      <3> QED BY <1>3, <3>1, <3>2, DriveNowIs
    <2>3. ASSUME NEW f \in Files, f \in Existing
          PROVE  home[f] \in Here /\ Entry(Place[home[f]], f, version[f]) \in DriveNow
      BY <1>3, <1>4, <2>3, DriveNowIs
    <2>4. ASSUME NEW f \in Files, NEW e \in DriveNow, e.name = f
          PROVE  f \in Existing /\ home[f] \in Here /\ e = Entry(Place[home[f]], f, version[f])
      <3>1. CASE \E g \in Files \cap Existing : e = Entry(Place[home[g]], g, version[g])
        BY <1>4, <2>4, <3>1 DEF Entry
      <3>2. CASE \E x \in FoldersNow : e = Entry(Place[x], ".dirmeta", x)
        BY <2>4, <3>2, IDAssumption DEF Entry
      <3> QED BY <1>3, <3>1, <3>2, DriveNowIs
    <2> HIDE DEF Here
    <2> QED BY <1>1, <1>2, <1>5, <2>1, <2>2, <2>3, <2>4 DEF SnapFollows
  <1>7. DetailsFollow'
    <2> SUFFICES ASSUME NEW e \in DriveNow, e.name # ".dirmeta"
                 PROVE  \E d \in base'.details :
                          d.dir = e.dir /\ d.name = e.name /\ d.content = e.content
      BY <1>1 DEF DetailsFollow
    <2>1. e \in Merge!Snapshot(MergedNow)
      BY <1>1, SnapshotIsDrive
    <2>2. PICK m \in MergedNow : e = Entry(m.dir, m.name, m.content)
      BY <2>1, MergedIs
    <2>3. m \in Merge!Items(MergedNow)
      BY <2>2 DEF Entry, Merge!Items
    <2> DEFINE loc(n) == IF n.loc # Nowhere THEN n.loc
                         ELSE Merge!NewLocation(Colls,
                                (CHOOSE d \in Merge!Old(base.details, n) : TRUE).loc)
               detail(n) == [dir |-> n.dir, name |-> n.name, content |-> n.content,
                             loc |-> loc(n)]
    <2>4. base'.details = {detail(n) : n \in Merge!Items(MergedNow)}
      BY <1>1 DEF Merge!Details
    <2> HIDE DEF loc
    <2>5. detail(m) \in base'.details
      BY <2>3, <2>4
    <2>6. detail(m).dir = e.dir /\ detail(m).name = e.name /\ detail(m).content = e.content
      BY <2>2 DEF Entry
    <2> QED BY <2>5, <2>6
  <1> QED BY <1>1, <1>6, <1>7 DEF SnapIInv

(* No other step changes what is stored, and a file that the user changes  *)
(* is one that has changed.                                                *)
LEMMA OthersKeepSnap ==
  ASSUME DriveIInv, SnapIInv, base' = base, refused' = refused,
         \/ UNCHANGED <<home, name, version, bin, changed>>
         \/ Reports
  PROVE  SnapIInv'
  <1>1. DetailsFollow' /\ ~refused'
    BY DEF SnapIInv, DetailsFollow
  <1>2. PICK S \in SUBSET Things : AsBefore(S) /\ changed' = IF base.exists THEN changed \cup S ELSE changed
    <2>1. CASE UNCHANGED <<home, name, version, bin, changed>>
      <3>1. Existing' = Existing
        BY <2>1 DEF Existing, Parents
      <3>2. AsBefore({}) /\ {} \in SUBSET Things
        BY <2>1, <3>1 DEF AsBefore
      <3> QED BY <2>1, <3>2
    <2>2. CASE Reports
      BY <2>2 DEF Reports, Report
    <2> QED BY <2>1, <2>2
  <1>3. ASSUME base.exists, NEW f \in Files, f \notin changed'
        PROVE  /\ f \notin changed
               /\ f \in Existing' <=> f \in Existing
               /\ home'[f] = home[f] /\ version'[f] = version[f]
    BY <1>2, <1>3 DEF AsBefore, Things
  <1>4. ASSUME base.exists, NEW f \in Files, f \notin changed'
        PROVE  /\ f \in Existing' => /\ home'[f] \in DOMAIN base.prevs
                                     /\ Entry(base.prevs[home'[f]], f, version'[f]) \in base.snap
               /\ \A e \in base.snap : e.name = f =>
                    /\ f \in Existing' /\ home'[f] \in DOMAIN base.prevs
                    /\ e = Entry(base.prevs[home'[f]], f, version'[f])
    <2>1. /\ f \notin changed
          /\ f \in Existing' <=> f \in Existing
          /\ home'[f] = home[f] /\ version'[f] = version[f]
      BY <1>3, <1>4
    <2>2. /\ f \in Existing => /\ home[f] \in DOMAIN base.prevs
                               /\ Entry(base.prevs[home[f]], f, version[f]) \in base.snap
          /\ \A e \in base.snap : e.name = f =>
               /\ f \in Existing /\ home[f] \in DOMAIN base.prevs
               /\ e = Entry(base.prevs[home[f]], f, version[f])
      BY <1>4, <2>1 DEF SnapIInv, SnapFollows
    <2> QED BY <2>1, <2>2
  <1>5. SnapFollows'
    BY <1>4 DEF SnapIInv, SnapFollows
  <1> QED BY <1>1, <1>5 DEF SnapIInv

LEMMA NextSnapIInv ==
  ASSUME DriveIInv, SnapIInv, [Next]_vars
  PROVE  SnapIInv'
  <1>1. CASE User
    <2>1. Reports
      BY <1>1, UserReports DEF DriveIInv
    <2>2. base' = base /\ refused' = refused
      BY <2>1 DEF Reports, Report
    <2> QED BY <2>1, <2>2, OthersKeepSnap
  <1>2. CASE Finish
    BY <1>2, FinishKeepsSnap
  <1>3. CASE StartBackup \/ (\E reset \in BOOLEAN : Enumerate(reset)) \/ Fail \/ UNCHANGED vars
    <2>1. /\ base' = base /\ refused' = refused
          /\ UNCHANGED <<home, name, version, bin, changed>>
      BY <1>3 DEF StartBackup, Enumerate, Fail, vars, userVars
    <2> QED BY <2>1, OthersKeepSnap
  <1> QED BY <1>1, <1>2, <1>3 DEF Next

LEMMA InitSnapIInv == Init => SnapIInv
  <1> SUFFICES ASSUME Init PROVE SnapIInv
    OBVIOUS
  <1>1. /\ base.exists = FALSE /\ base.snap = {} /\ base.prevs = <<>> /\ refused = FALSE
        /\ DOMAIN base.prevs = {}
    BY DEF Init, NoBase
  <1> QED BY <1>1 DEF SnapIInv, SnapFollows, DetailsFollow

LEMMA AlwaysSnapIInv == Spec => [](DriveIInv /\ SnapIInv)
  <1>1. Init => SnapIInv
    BY InitSnapIInv
  <1>2. DriveIInv /\ SnapIInv /\ [Next]_vars => SnapIInv'
    BY NextSnapIInv
  <1> QED BY <1>1, <1>2, AlwaysDriveIInv, PTL DEF Spec

(* Only a backup that finishes changes the base.                           *)
LEMMA OthersKeepBase ==
  ASSUME DriveIInv,
         User \/ StartBackup \/ (\E reset \in BOOLEAN : Enumerate(reset)) \/ Fail \/ UNCHANGED vars
  PROVE  base' = base
  <1>1. CASE User
    BY <1>1, UserReports DEF DriveIInv, Reports, Report
  <1>2. CASE StartBackup \/ (\E reset \in BOOLEAN : Enumerate(reset)) \/ Fail \/ UNCHANGED vars
    BY <1>2 DEF StartBackup, Enumerate, Fail, vars
  <1> QED BY <1>1, <1>2

-----------------------------------------------------------------------------
(* The locations of details.                                               *)

(* No name of a folder starts with the whole name of another.              *)
NoNameStartsAnother == \A n, m \in Names : <<n, m>> \in StartsWith => n = m

(* Then the string of one location starts with that of another only below  *)
(* it.                                                                     *)
LEMMA StringPrefixIsPrefix ==
  ASSUME NoNameStartsAnother, NEW p \in Seq(Names), NEW q \in Seq(Names)
  PROVE  Merge!HasPrefix(p, q) <=> IsPrefix(q, p)
  <1>1. IsPrefix(q, p) => Merge!HasPrefix(p, q)
    BY PrefixesAreOne DEF Merge!HasPrefix
  <1>2. ASSUME q # <<>>, Len(q) <= Len(p), SubSeq(p, 1, Len(q) - 1) = Merge!Front(q),
               <<Merge!Last(q), p[Len(q)]>> \in StartsWith
        PROVE  IsPrefix(q, p)
    <2>1. Len(q) \in Nat /\ Len(q) \in 1..Len(p) /\ Len(p) \in Nat
      BY <1>2
    <2>2. q[Len(q)] \in Names /\ p[Len(q)] \in Names
      BY <2>1
    <2>3. q[Len(q)] = p[Len(q)]
      BY <1>2, <2>2 DEF NoNameStartsAnother, Merge!Last
    <2>4. SubSeq(p, 1, Len(q) - 1) = SubSeq(q, 1, Len(q) - 1)
      BY <1>2 DEF Merge!Front
    <2>5. ASSUME NEW i \in 1..Len(q) - 1 PROVE p[i] = q[i]
      <3>1. SubSeq(p, 1, Len(q) - 1)[i] = p[i] /\ SubSeq(q, 1, Len(q) - 1)[i] = q[i]
        BY <2>1
      <3> QED BY <2>4, <3>1
    <2>6. \A i \in 1..Len(q) : p[i] = q[i]
      BY <2>1, <2>3, <2>5
    <2>7. /\ SubSeq(p, 1, Len(q)) \in Seq(Names) /\ Len(SubSeq(p, 1, Len(q))) = Len(q)
          /\ \A i \in 1..Len(q) : SubSeq(p, 1, Len(q))[i] = p[i]
      BY <2>1
    <2>8. SubSeq(p, 1, Len(q)) = q
      BY <2>6, <2>7, EqualSeq
    <2> QED BY <2>1, <2>8, PrefixIs
  <1> QED BY <1>1, <1>2, PrefixesAreOne DEF Merge!HasPrefix

(* A folder without a collection is where it was in the nearest folder     *)
(* above that has one, if any; nothing in between has one.                 *)
LEMMA NearestCollection ==
  ASSUME NEW colls, NEW snap, NEW prevs, NEW L, NEW T, NEW up, NEW names, NEW place,
         BaseTells(colls, snap, prevs, L, T, up, names, place),
         NEW y \in T \ L
  PROVE  \E z \in DOMAIN prevs \cap T :
           /\ z \in L \/ z = Root
           /\ IsPrefix(prevs[z], prevs[y])
           /\ place[y] = Moves(prevs[z], place[z], prevs[y])
           /\ \A w \in DOMAIN prevs :
                IsStrictPrefix(prevs[z], prevs[w]) /\ IsPrefix(prevs[w], prevs[y]) => w \notin L
  <1> DEFINE Nearest(x, z) ==
               /\ z \in L \/ z = Root
               /\ IsPrefix(prevs[z], prevs[x])
               /\ place[x] = Moves(prevs[z], place[z], prevs[x])
               /\ \A w \in DOMAIN prevs :
                    IsStrictPrefix(prevs[z], prevs[w]) /\ IsPrefix(prevs[w], prevs[x]) => w \notin L
             Bad == {x \in (T \ L) \ {Root} : ~\E z \in DOMAIN prevs \cap T : Nearest(x, z)}
  <1>1. /\ Forest(up) /\ T \ {Root} \subseteq DOMAIN up
        /\ \A x \in T : place[x] \in Seq(Names)
        /\ \A x \in DOMAIN prevs : prevs[x] \in Seq(Names)
        /\ \A x, w \in DOMAIN prevs : prevs[x] = prevs[w] => x = w
        /\ Root \in T /\ T \ L \subseteq DOMAIN prevs
        /\ \A x \in (T \ L) \ {Root} :
             /\ up[x] \in T /\ up[x] \in DOMAIN prevs /\ names[x] \in Names
             /\ prevs[x] = Append(prevs[up[x]], names[x])
             /\ place[x] = Append(place[up[x]], names[x])
    BY DEF BaseTells, CollectionsTell
  <1>2. ASSUME NEW z \in DOMAIN prevs \cap T, z \in L \/ z = Root
        PROVE  Nearest(z, z)
    <2>1. prevs[z] \in Seq(Names) /\ place[z] \in Seq(Names)
      BY <1>1
    <2>2. IsPrefix(prevs[z], prevs[z]) /\ place[z] = Moves(prevs[z], place[z], prevs[z])
      BY <2>1, PrefixIs, MovesBelow
    <2>3. ASSUME NEW w \in DOMAIN prevs,
                 IsStrictPrefix(prevs[z], prevs[w]), IsPrefix(prevs[w], prevs[z])
          PROVE  FALSE
      <3>1. prevs[w] \in Seq(Names) /\ Len(prevs[w]) \in Nat /\ Len(prevs[z]) \in Nat
        BY <1>1, <2>1
      <3>2. Len(prevs[z]) < Len(prevs[w]) /\ Len(prevs[w]) <= Len(prevs[z])
        BY <2>1, <2>3, <3>1, PrefixIs
      <3> QED BY <3>1, <3>2
    <2> QED BY <1>2, <2>2, <2>3
  <1>3. Bad = {}
    <2> SUFFICES ASSUME Bad # {} PROVE FALSE
      OBVIOUS
    <2>1. Bad \in SUBSET DOMAIN up
      BY <1>1
    <2>2. PICK x \in Bad : up[x] \notin Bad
      BY <1>1, <2>1 DEF Forest
    <2> DEFINE u == up[x]
               n == names[x]
    <2>3. /\ x \in (T \ L) \ {Root} /\ u \in DOMAIN prevs \cap T /\ n \in Names
          /\ prevs[x] = Append(prevs[u], n) /\ place[x] = Append(place[u], n)
          /\ prevs[u] \in Seq(Names)
      BY <1>1, <2>2
    <2>4. PICK z \in DOMAIN prevs \cap T : Nearest(u, z)
      <3>1. CASE u \in L \/ u = Root
        BY <1>2, <2>3, <3>1
      <3>2. CASE ~(u \in L \/ u = Root)
        <4>1. u \in (T \ L) \ {Root} /\ u \notin Bad
          BY <2>2, <2>3, <3>2
        <4> HIDE DEF Nearest
        <4> QED BY <4>1
      <3> QED BY <3>1, <3>2
    <2>5. prevs[z] \in Seq(Names) /\ place[z] \in Seq(Names)
      BY <1>1
    <2> HIDE DEF u, n
    <2>6. IsPrefix(prevs[z], prevs[x])
      BY <2>3, <2>4, <2>5, PrefixOfAppended
    <2>7. place[x] = Moves(prevs[z], place[z], prevs[x])
      <3>1. IsPrefix(prevs[z], prevs[u]) /\ place[u] = Moves(prevs[z], place[z], prevs[u])
        BY <2>4
      <3>2. Moves(prevs[z], place[z], Append(prevs[u], n)) =
              Append(Moves(prevs[z], place[z], prevs[u]), n)
        BY <2>3, <2>5, <3>1, MovesBelow
      <3> QED BY <2>3, <3>1, <3>2
    <2>8. ASSUME NEW w \in DOMAIN prevs,
                 IsStrictPrefix(prevs[z], prevs[w]), IsPrefix(prevs[w], prevs[x])
          PROVE  w \notin L
      <3>1. prevs[w] = prevs[x] \/ IsPrefix(prevs[w], prevs[u])
        BY <1>1, <2>3, <2>8, PrefixOfAppended
      <3>2. CASE prevs[w] = prevs[x]
        BY <1>1, <2>3, <3>2
      <3>3. CASE IsPrefix(prevs[w], prevs[u])
        BY <2>4, <2>8, <3>3
      <3> QED BY <3>1, <3>2, <3>3
    <2>9. Nearest(x, z)
      BY <2>4, <2>6, <2>7, <2>8
    <2> HIDE DEF Nearest
    <2> QED BY <2>2, <2>9
  <1>4. \E z \in DOMAIN prevs \cap T : Nearest(y, z)
    <2>1. CASE y = Root
      BY <1>1, <1>2, <2>1
    <2>2. CASE y # Root
      <3> HIDE DEF Nearest
      <3> QED BY <1>3, <2>2
    <2> QED BY <2>1, <2>2
  <1> QED BY <1>4

(* The moved location that is looked up for what has no collection gives   *)
(* where it is, if nothing stays where a folder was before it moved.       *)
LEMMA NewLocationIs ==
  ASSUME NoNameStartsAnother,
         NEW colls, NEW snap, NEW prevs, NEW L, NEW T, NEW up, NEW names, NEW place,
         BaseTells(colls, snap, prevs, L, T, up, names, place),
         \A c \in colls : c.loc = c.cur /\ c.prevLoc = c.prev,
         ~Replaces(colls),
         NEW y \in T \ L
  PROVE  Merge!NewLocation(colls, prevs[y]) = place[y]
  <1> DEFINE keys == {c \in colls : /\ Merge!Moved(c) /\ c.prevLoc # Nowhere
                                    /\ Merge!HasPrefix(prevs[y], c.prevLoc)}
             longest == CHOOSE k \in keys : \A j \in keys : Merge!HasPrefix(k.prevLoc, j.prevLoc)
             loc == prevs[y]
  <1>1. /\ \A x \in T : place[x] \in Seq(Names)
        /\ \A x \in DOMAIN prevs : prevs[x] \in Seq(Names)
        /\ \A x, w \in DOMAIN prevs : prevs[x] = prevs[w] => x = w
        /\ Root \in DOMAIN prevs /\ prevs[Root] = <<>> /\ place[Root] = <<>>
        /\ T \ L \subseteq DOMAIN prevs
        /\ \A c \in colls : c.cur # Nowhere =>
             /\ c.id \in L /\ c.cur = place[c.id]
             /\ c.prev = IF c.id \in DOMAIN prevs THEN prevs[c.id] ELSE Nowhere
        /\ \A x \in L : \E c \in colls : c.cur # Nowhere /\ c.id = x
        /\ \A c, d \in colls : c.id = d.id => c = d
    BY DEF BaseTells, CollectionsTell
  <1>2. PICK z \in DOMAIN prevs \cap T :
          /\ z \in L \/ z = Root
          /\ IsPrefix(prevs[z], prevs[y])
          /\ place[y] = Moves(prevs[z], place[z], prevs[y])
          /\ \A w \in DOMAIN prevs :
               IsStrictPrefix(prevs[z], prevs[w]) /\ IsPrefix(prevs[w], prevs[y]) => w \notin L
    BY NearestCollection
  <1>3. loc \in Seq(Names) /\ prevs[z] \in Seq(Names) /\ place[z] \in Seq(Names)
    BY <1>1
  <1>4. ASSUME NEW c \in keys
        PROVE  /\ c \in colls /\ Merge!Moved(c) /\ c.id \in L /\ c.id \in DOMAIN prevs
               /\ c.prev = prevs[c.id] /\ c.prevLoc = c.prev /\ c.loc = c.cur
               /\ c.cur = place[c.id] /\ c.prev \in Seq(Names)
               /\ IsPrefix(c.prev, prevs[z])
    <2>1. /\ c \in colls /\ c.cur # Nowhere /\ c.prev # Nowhere /\ Merge!Moved(c)
          /\ c.prevLoc = c.prev /\ c.loc = c.cur
      BY DEF Merge!Moved
    <2>2. c.id \in L /\ c.id \in DOMAIN prevs /\ c.prev = prevs[c.id] /\ c.cur = place[c.id]
      BY <1>1, <2>1
    <2>3. c.prev \in Seq(Names) /\ IsPrefix(c.prev, loc)
      <3>1. c.prev \in Seq(Names) /\ Merge!HasPrefix(loc, c.prev)
        BY <1>1, <2>1, <2>2
      <3> QED BY <1>3, <3>1, StringPrefixIsPrefix
    <2>4. IsPrefix(c.prev, prevs[z]) \/ IsPrefix(prevs[z], c.prev)
      BY <1>2, <1>3, <2>3, PrefixesCompare
    <2>5. ~IsStrictPrefix(prevs[z], c.prev)
      BY <1>2, <2>2, <2>3
    <2>6. IsPrefix(c.prev, c.prev)
      BY <2>3, PrefixIs
    <2>7. IsPrefix(c.prev, prevs[z])
      BY <2>4, <2>5, <2>6 DEF IsStrictPrefix
    <2> QED BY <2>1, <2>2, <2>3, <2>7
  <1>5. Merge!NewLocation(colls, loc) =
          IF keys = {} THEN loc
          ELSE IF IsPrefix(longest.prevLoc, loc)
               THEN longest.loc \o SubSeq(loc, Len(longest.prevLoc) + 1, Len(loc))
               ELSE loc
    BY PrefixesAreOne DEF Merge!NewLocation
  <1> HIDE DEF keys, loc
  <1>6. ASSUME place[z] = prevs[z], keys = {} PROVE Merge!NewLocation(colls, loc) = place[y]
    <2>1. Moves(prevs[z], prevs[z], loc) = loc
      BY <1>2, <1>3, MovesInPlace DEF loc
    <2> QED BY <1>2, <1>5, <1>6, <2>1 DEF loc
  <1>7. CASE z \notin L
    <2>1. z = Root /\ place[z] = prevs[z] /\ prevs[z] = <<>>
      BY <1>1, <1>2, <1>7
    <2>2. keys = {}
      <3> SUFFICES ASSUME NEW c \in keys PROVE FALSE
        OBVIOUS
      <3>1. c.prev = <<>> /\ c.prev = prevs[c.id] /\ c.id \in L /\ c.id \in DOMAIN prevs
        <4>1. c.prev \in Seq(Names) /\ IsPrefix(c.prev, <<>>)
          BY <1>4, <2>1
        <4>2. <<>> \in Seq(Names) /\ Len(c.prev) \in Nat
          BY <4>1
        <4>3. Len(c.prev) <= Len(<<>>)
          BY <4>1, <4>2, PrefixIs
        <4> QED BY <1>4, <4>1, <4>2, <4>3
      <3>2. c.id = z
        BY <1>1, <2>1, <3>1
      <3> QED BY <1>7, <3>1, <3>2
    <2> QED BY <1>6, <2>1, <2>2 DEF loc
  <1>8. CASE z \in L
    <2>1. PICK c \in colls : c.cur # Nowhere /\ c.id = z
      BY <1>1, <1>8
    <2>2. c.cur = place[z] /\ c.prev = prevs[z] /\ c.loc = c.cur /\ c.prevLoc = c.prev
      BY <1>1, <2>1
    <2>3. Nowhere \notin Seq(Names)
      BY IDAssumption
    <2>4. CASE place[z] = prevs[z]
      <3>1. keys = {}
        <4> SUFFICES ASSUME NEW k \in keys PROVE FALSE
          OBVIOUS
        <4>1. k \in colls /\ Merge!Moved(k) /\ IsPrefix(k.prev, prevs[z]) /\ k.prev = prevs[k.id]
              /\ k.cur = place[k.id]
          BY <1>4
        <4>2. k.prev # prevs[z]
          BY <1>1, <1>4, <2>4, <4>1 DEF Merge!Moved
        <4>3. Merge!NotMoved(c) /\ IsStrictPrefix(k.prev, c.cur)
          BY <2>1, <2>2, <2>4, <4>1, <4>2 DEF Merge!NotMoved, IsStrictPrefix
        <4> QED BY <4>1, <4>3 DEF Replaces
      <3> QED BY <1>6, <2>4, <3>1 DEF loc
    <2>5. CASE place[z] # prevs[z]
      <3>1. c \in keys
        <4>1. Merge!Moved(c) /\ c.prevLoc # Nowhere
          BY <1>3, <2>1, <2>2, <2>3, <2>5 DEF Merge!Moved
        <4>2. Merge!HasPrefix(prevs[y], c.prevLoc)
          BY <1>2, <1>3, <2>2, StringPrefixIsPrefix DEF loc
        <4> QED BY <4>1, <4>2 DEF keys
      <3>2. \A j \in keys : Merge!HasPrefix(c.prevLoc, j.prevLoc)
        BY <1>3, <1>4, <2>2, StringPrefixIsPrefix
      <3>3. longest \in keys /\ Merge!HasPrefix(longest.prevLoc, c.prevLoc)
        BY <3>1, <3>2
      <3> HIDE DEF longest
      <3>4. IsPrefix(prevs[z], longest.prev) /\ IsPrefix(longest.prev, prevs[z])
        BY <1>3, <1>4, <2>2, <3>3, StringPrefixIsPrefix
      <3>5. longest.prev = prevs[z]
        <4>1. longest.prev \in Seq(Names) /\ prevs[z] \in Seq(Names)
          BY <1>3, <1>4, <3>3
        <4>2. Len(longest.prev) \in Nat /\ Len(prevs[z]) \in Nat
          BY <4>1
        <4>3. IsStrictPrefix(longest.prev, prevs[z]) => Len(longest.prev) < Len(prevs[z])
          BY <4>1, PrefixIs
        <4>4. IsStrictPrefix(prevs[z], longest.prev) => Len(prevs[z]) < Len(longest.prev)
          BY <4>1, PrefixIs
        <4> QED BY <3>4, <4>2, <4>3, <4>4 DEF IsStrictPrefix
      <3>6. longest.prevLoc = prevs[z] /\ longest.loc = place[z]
        BY <1>1, <1>4, <3>3, <3>5
      <3>7. keys # {} /\ IsPrefix(longest.prevLoc, loc)
        BY <1>2, <3>1, <3>6 DEF loc
      <3>8. Merge!NewLocation(colls, loc) = Moves(prevs[z], place[z], loc)
        BY <1>5, <3>6, <3>7 DEF Moves
      <3> QED BY <1>2, <3>8 DEF loc
    <2> QED BY <2>4, <2>5
  <1> QED BY <1>7, <1>8

(* A backup that finishes gives every item the location it is at, if the   *)
(* base did and nothing stays where a folder was before it moved.          *)
LEMMA FinishLocates ==
  ASSUME NoNameStartsAnother, DriveIInv, SnapIInv, LocationsMatchUnlessReplaced, Finish
  PROVE  LocationsMatchUnlessReplaced'
  <1>1. /\ AtTheEnd
        /\ base'.details = Merge!Details(Colls, MergedNow, base.details)
        /\ base'.straight = (base.straight /\ ~Replaces(Colls))
    BY FinishStores
  <1> DEFINE loc(n) == IF n.loc # Nowhere THEN n.loc
                       ELSE Merge!NewLocation(Colls,
                              (CHOOSE d \in Merge!Old(base.details, n) : TRUE).loc)
             detail(n) == [dir |-> n.dir, name |-> n.name, content |-> n.content,
                           loc |-> loc(n)]
             stream == Merge!StreamEntries(Colls, base.snap)
             from(s) == Merge!BaseEntriesOf(Colls, Excluded, base.snap, s)
             S == Merge!Sources(Colls, base.snap)
  <1>2. base'.details = {detail(n) : n \in Merge!Items(MergedNow)}
    BY <1>1 DEF Merge!Details
  <1>3. ASSUME NEW m \in Merge!Items(MergedNow), base.straight, ~Replaces(Colls)
        PROVE  loc(m) = m.dir
    <2>0. m \in MergedNow
      BY DEF Merge!Items
    <2>1. CASE m \in stream
      <3>1. PICK x \in job.tree.live :
              m = [dir |-> Place[x], name |-> m.name, content |-> m.content, loc |-> Place[x],
                   from |-> m.from]
        BY <1>1, <2>1, StreamIs
      <3>2. x \in Here /\ Place[x] \in Seq(Names)
        BY <1>1, CollectionsTellPlaces DEF AtTheEnd, CollectionsTell, Here, Place
      <3>3. Place[x] # Nowhere
        BY <3>2, IDAssumption
      <3> QED BY <3>1, <3>3
    <2>2. CASE \E s \in S : m \in from(s)
      <3>1. PICK s \in S : m \in from(s)
        BY <2>2
      <3>2. base.exists
        BY <1>1, <3>1, NoBaseNoSources
      <3>3. PICK e \in base.snap, y \in DOMAIN base.prevs \cap Here :
              /\ m = BaseEntry(Colls, s, e)
              /\ e.dir = base.prevs[y] /\ m.dir = Place[y]
              /\ m.loc = Place[y] \/ (m.loc = Nowhere /\ y \notin job.tree.live)
        BY <1>1, <3>1, <3>2, BaseEntryIs
      <3>4. BaseTells(Colls, base.snap, base.prevs, job.tree.live, Here, Parents, name, Place)
        BY <1>1, <3>2, BaseTellsNow
      <3>5. CASE m.loc # Nowhere
        BY <3>3, <3>5
      <3>6. CASE m.loc = Nowhere
        <4>1. y \in Here \ job.tree.live
          <5>1. Place[y] # Nowhere
            BY <3>4, IDAssumption DEF BaseTells, CollectionsTell
          <5> QED BY <3>3, <3>6, <5>1
        <4>2. m.from = base.prevs[y] /\ m.from # Nowhere
          BY <3>3, <3>4, IDAssumption DEF BaseTells, CollectionsTell, BaseEntry
        <4>3. Merge!Old(base.details, m) # {}
          BY <1>1, <4>2, DetailsAreFound DEF Merge!MergeFails
        <4>4. \A d \in Merge!Old(base.details, m) : d.loc = base.prevs[y]
          BY <1>3, <4>2 DEF Merge!Old, LocationsMatchUnlessReplaced
        <4>5. loc(m) = Merge!NewLocation(Colls, base.prevs[y])
          BY <3>6, <4>3, <4>4
        <4>6. \A c \in Colls : c.loc = c.cur /\ c.prevLoc = c.prev
          BY <1>1, CollectionsTellPlaces DEF AtTheEnd, Colls
        <4>7. Merge!NewLocation(Colls, base.prevs[y]) = Place[y]
          BY <1>3, <3>4, <4>1, <4>6, NewLocationIs
        <4> QED BY <3>3, <4>5, <4>7
      <3> QED BY <3>5, <3>6
    <2> QED BY <2>0, <2>1, <2>2, MergedIs
  <1> HIDE DEF loc
  <1>4. ASSUME NEW e \in base'.details, base'.straight
        PROVE  e.loc = e.dir
    <2>1. PICK m \in Merge!Items(MergedNow) : e = detail(m)
      BY <1>2
    <2>2. loc(m) = m.dir
      BY <1>1, <1>3, <1>4
    <2> QED BY <2>1, <2>2
  <1> QED BY <1>4 DEF LocationsMatchUnlessReplaced

-----------------------------------------------------------------------------
(* The theorems.                                                           *)

(* The variables have their types, and the tree of a backup is one tree:   *)
(* its live nodes are in nodes of it, none of them is a tombstone too, and *)
(* a file is in no other collection than the one it is registered for      *)
(* (SetFolder, SetTombstone, AddFile and DeleteFile of delta_tree.go).     *)
THEOREM DriveTypeCorrect == Spec => []TypeOK
  BY AlwaysDriveIInv, Typed, PTL

(* Whatever the user does between and during the enumerations, and however *)
(* often the token expires, what is not to be reported any more is in the  *)
(* tree as it is in the drive, or, unless the enumeration started over, is *)
(* as it was when the base was made (populateTree).                        *)
THEOREM TreeFollowsDrive == Spec => []TreeFollows
  BY AlwaysDriveIInv, PTL DEF DriveIInv

(* A backup that is finished leaves to the next one the paths of all the   *)
(* folders of the drive, and no others, also of those whose path changed   *)
(* without a delta that names them (generateNewPreviousPaths).             *)
THEOREM PrevPathsFollow == Spec => PrevPathsFollowFolders
  <1>1. DriveIInv /\ [Next]_vars =>
          [base' # base =>
             base'.prevs = [x \in FoldersNow \cup {Root} |-> PlaceOf(x)]]_vars
    <2> SUFFICES ASSUME DriveIInv, [Next]_vars, base' # base
                 PROVE  base'.prevs = [x \in FoldersNow \cup {Root} |-> PlaceOf(x)]
      OBVIOUS
    <2>1. CASE Finish
      BY <2>1, FinishFollows
    <2>2. CASE User
      BY <2>2, UserReports DEF Reports, Report, DriveIInv
    <2>3. CASE StartBackup \/ (\E reset \in BOOLEAN : Enumerate(reset)) \/ Fail \/ UNCHANGED vars
      BY <2>3 DEF StartBackup, Enumerate, Fail, vars
    <2> QED BY <2>1, <2>2, <2>3 DEF Next
  <1> QED BY <1>1, AlwaysDriveIInv, PTL DEF Spec, PrevPathsFollowFolders

(* No sequence of operations makes the collections of a backup contradict  *)
(* each other or its base, or loses the details of an item                 *)
(* (inflateCollectionTree, mergeDetails).                                  *)
THEOREM NothingIsRefused == Spec => []NeverRefused
  BY AlwaysSnapIInv, PTL DEF SnapIInv, NeverRefused

(* Every backup that is finished stores what the drive holds then: the     *)
(* drive and its backups are what Mirror promises.                         *)
THEOREM DriveImplementsMirror == Spec => ImplementsMirror
  <1>1. Init => MirrorOfDrive!Init
    BY DEF Init, NoBase, MirrorOfDrive!Init
  <1>2. DriveIInv /\ SnapIInv /\ [Next]_vars => [MirrorOfDrive!Next]_<<DriveNow, base.snap>>
    <2> SUFFICES ASSUME DriveIInv, SnapIInv, [Next]_vars
                 PROVE  MirrorOfDrive!Next \/ UNCHANGED <<DriveNow, base.snap>>
      OBVIOUS
    <2>1. CASE Finish
      <3>1. base'.snap = DriveNow
        BY <2>1, FinishStores
      <3>2. DriveNow' = DriveNow
        BY <2>1 DEF Finish, userVars, DriveNow, PlaceOf, FoldersNow, Existing, Parents
      <3> QED BY <3>1, <3>2 DEF MirrorOfDrive!Next, MirrorOfDrive!Backup
    <2>2. CASE User \/ StartBackup \/ (\E reset \in BOOLEAN : Enumerate(reset)) \/ Fail \/ UNCHANGED vars
      <3>1. base' = base
        BY <2>2, OthersKeepBase
      <3> QED BY <3>1 DEF MirrorOfDrive!Next, MirrorOfDrive!Change
    <2> QED BY <2>1, <2>2 DEF Next
  <1> QED BY <1>1, <1>2, AlwaysSnapIInv, PTL
          DEF Spec, ImplementsMirror, MirrorOfDrive!Spec

(* Where no name of a folder starts another, every item is shown at the    *)
(* folder that it is in, also when only a folder above it was renamed or   *)
(* moved, as long as nothing was put where a folder was before it moved    *)
(* (GetNewPathRefs, UpdateParent).                                         *)
THEOREM LocationsFollow ==
  ASSUME NoNameStartsAnother
  PROVE  Spec => []LocationsMatchUnlessReplaced
  <1>1. Init => LocationsMatchUnlessReplaced
    BY DEF Init, NoBase, LocationsMatchUnlessReplaced
  <1>2. DriveIInv /\ SnapIInv /\ LocationsMatchUnlessReplaced /\ [Next]_vars
          => LocationsMatchUnlessReplaced'
    <2> SUFFICES ASSUME DriveIInv, SnapIInv, LocationsMatchUnlessReplaced, [Next]_vars
                 PROVE  LocationsMatchUnlessReplaced'
      OBVIOUS
    <2>1. CASE Finish
      BY <2>1, FinishLocates
    <2>2. CASE User \/ StartBackup \/ (\E reset \in BOOLEAN : Enumerate(reset)) \/ Fail
                 \/ UNCHANGED vars
      <3>1. base' = base
        BY <2>2, OthersKeepBase
      <3> QED BY <3>1 DEF LocationsMatchUnlessReplaced
    <2> QED BY <2>1, <2>2 DEF Next
  <1> QED BY <1>1, <1>2, AlwaysSnapIInv, PTL DEF Spec
=============================================================================
