------------------------- MODULE ExchangeBackup_proofs -------------------------
(***************************************************************************)
(* Proofs about ExchangeBackup: that what idToPath leaves in the cache are *)
(* the paths of a tree, whatever it finds moved, deleted or not listed;    *)
(* and that backups are what CatchUp says, whatever the user does while    *)
(* they run.  For any mailbox, any number of operations and of backups.    *)
(***************************************************************************)
EXTENDS ExchangeBackup, Forests_proofs

-----------------------------------------------------------------------------
(* Caches.                                                                 *)

IsMailbox(mailbox) ==
  /\ DOMAIN mailbox \subseteq Folders
  /\ \A f \in DOMAIN mailbox : mailbox[f] \in [up : Dirs, name : Names]

(* The folders whose path is set, and those which still lack one.          *)
Paved(c)   == {g \in Dirs : c[g] # Nowhere /\ c[g].path # Nowhere}
Unpaved(c) == {f \in Folders : c[f] # Nowhere /\ c[f].path = Nowhere}

(* The entry extends that of the folder that it is in, if it has a path.   *)
Extends(c, f, e) ==
  e.path # Nowhere =>
    /\ e.up \in Paved(c)
    /\ e.path = Append(c[e.up].path, f) /\ e.loc = Append(c[e.up].loc, e.name)

IsTree(c) == \A f \in Paved(c) \ {Root} : Extends(c, f, c[f])

(* The folders of C are in each other or in the root, and what the cache   *)
(* has of them is what the mailbox has.                                    *)
Knows(mailbox, C, c) ==
  \A f \in C : /\ mailbox[f].up \in C \cup {Root}
               /\ c[f] # Nowhere => c[f].up = mailbox[f].up /\ c[f].name = mailbox[f].name

LEMMA CacheIs ==
  ASSUME NEW c \in Caches
  PROVE  /\ c[Root] = RootEntry /\ Root \in Paved(c)
         /\ \A g \in Dirs : c[g] # Nowhere /\ g # Root => c[g] \in Entries
         /\ \A g \in Paved(c) : c[g].path \in Seq(Folders) /\ c[g].loc \in Seq(Names)
  <1>1. c[Root] = RootEntry /\ \A f \in Folders : c[f] \in Entries \cup {Nowhere}
    BY DEF Caches
  <1>2. RootEntry.path = <<>> /\ RootEntry.loc = <<>> /\ RootEntry # Nowhere
    BY ResolverAssumption DEF RootEntry
  <1>3. <<>> \in Seq(Folders) /\ <<>> \in Seq(Names) /\ <<>> # Nowhere
    <2>1. <<>> \in Seq(Folders) /\ <<>> \in Seq(Names)
      OBVIOUS
    <2> QED BY <2>1, ResolverAssumption
  <1>4. \A g \in Dirs : c[g] # Nowhere /\ g # Root => c[g] \in Entries
    BY <1>1 DEF Dirs
  <1>5. Root \in Paved(c)
    BY <1>1, <1>2, <1>3 DEF Paved, Dirs
  <1>6. ASSUME NEW g \in Paved(c) PROVE c[g].path \in Seq(Folders) /\ c[g].loc \in Seq(Names)
    <2>1. CASE g = Root
      BY <1>1, <1>2, <1>3, <2>1
    <2>2. CASE g # Root
      BY <1>4, <2>2 DEF Paved, Entries
    <2> QED BY <2>1, <2>2
  <1> QED BY <1>1, <1>4, <1>5, <1>6

LEMMA WithEntry ==
  ASSUME NEW c \in Caches, NEW f \in Folders, NEW e \in Entries \cup {Nowhere}
  PROVE  /\ [c EXCEPT ![f] = e] \in Caches
         /\ [c EXCEPT ![f] = e][f] = e
         /\ \A g \in Dirs \ {f} : [c EXCEPT ![f] = e][g] = c[g]
  <1> DEFINE d == [c EXCEPT ![f] = e]
  <1>1. c \in [Dirs -> Entries \cup {RootEntry, Nowhere}] /\ f \in Dirs
    BY DEF Caches, Dirs
  <1>2. d \in [Dirs -> Entries \cup {RootEntry, Nowhere}]
    BY <1>1
  <1>3. d[f] = e /\ \A g \in Dirs \ {f} : d[g] = c[g]
    BY <1>1
  <1> HIDE DEF d
  <1>4. d \in Caches
    BY <1>2, <1>3, ResolverAssumption DEF Caches, Dirs
  <1> QED BY <1>3, <1>4 DEF d

-----------------------------------------------------------------------------
(* What a call of idToPath for a folder makes of the cache.                *)

(* What was there stays, but for the folder itself: what has a path, what  *)
(* hangs on the folder by folders without paths, the tree, and what the    *)
(* mailbox has as the cache has it.                                        *)
Follows(mailbox, t, c) ==
  /\ c \in Caches
  /\ \A g \in Paved(t.cache) : c[g] = t.cache[g]
  /\ Unpaved(c) \subseteq Unpaved(t.cache) \cup {t.folder}
  /\ \A P \in SUBSET (Unpaved(t.cache) \ {t.folder}) :
       (\A x \in P : t.cache[x].up \in P \cup {t.folder}) => \A x \in P : c[x] = t.cache[x]
  /\ IsTree(t.cache) => IsTree(c)
  /\ \A C \in SUBSET DOMAIN mailbox :
       Knows(mailbox, C, t.cache) =>
         Knows(mailbox, C, c) /\ \A g \in C : t.cache[g] # Nowhere => c[g] # Nowhere

Results == [cache : Caches, cached : BOOLEAN, deleted : BOOLEAN, err : BOOLEAN]

(* A call returns an error when the folder is in a cycle, or else a cache  *)
(* where it has a path or is no more, in which case something that it was  *)
(* in has changed since it was listed.                                     *)
Good(mailbox, t, r) ==
  /\ r \in Results
  /\ \A S \in SUBSET Unpaved(t.cache) :
       t.folder \in S /\ (\A x \in S : t.cache[x].up \in S) => r.err
  /\ ~r.err =>
       /\ Follows(mailbox, t, r.cache)
       /\ t.folder \notin Unpaved(r.cache)
       /\ ~r.deleted => t.folder \in Paved(r.cache)
       /\ \A C \in SUBSET DOMAIN mailbox :
            Knows(mailbox, C, t.cache) /\ t.folder \in C \cup {Root} => ~r.deleted

LEMMA FollowsItself ==
  ASSUME NEW mailbox, NEW t \in Calls
  PROVE  Follows(mailbox, t, t.cache)
  BY DEF Follows, Calls

(* The entry of the folder changes.                                        *)
LEMMA FollowsWith ==
  ASSUME NEW mailbox, IsMailbox(mailbox), NEW t \in Calls, NEW c, Follows(mailbox, t, c),
         t.folder \in Folders, t.folder \notin Paved(c), NEW e \in Entries \cup {Nowhere},
         e # Nowhere => Extends(c, t.folder, e),
         \A C \in SUBSET DOMAIN mailbox :
           Knows(mailbox, C, t.cache) /\ t.folder \in C =>
             e # Nowhere /\ e.up = mailbox[t.folder].up /\ e.name = mailbox[t.folder].name
  PROVE  Follows(mailbox, t, [c EXCEPT ![t.folder] = e])
  <1> DEFINE f == t.folder
             d == [c EXCEPT ![f] = e]
  <1>0. f \in Folders /\ f \notin Paved(c) /\ f # Root /\ c \in Caches /\ t.cache \in Caches
    BY ResolverAssumption DEF Follows, Calls
  <1>1. d \in Caches /\ d[f] = e /\ \A g \in Dirs \ {f} : d[g] = c[g]
    BY <1>0, WithEntry
  <1> HIDE DEF d
  <1>2. ASSUME NEW g \in Paved(t.cache) PROVE d[g] = t.cache[g]
    <2>1. c[g] = t.cache[g]
      BY DEF Follows
    <2>2. g # f /\ g \in Dirs
      BY <1>0, <2>1 DEF Paved
    <2> QED BY <1>1, <2>1, <2>2
  <1>3. Unpaved(d) \subseteq Unpaved(t.cache) \cup {f}
    <2>1. \A g \in Folders \ {f} : d[g] = c[g]
      BY <1>1 DEF Dirs
    <2>2. Unpaved(d) \subseteq Unpaved(c) \cup {f}
      BY <2>1 DEF Unpaved
    <2> QED BY <2>2 DEF Follows
  <1>4. ASSUME NEW P \in SUBSET (Unpaved(t.cache) \ {f}),
               \A x \in P : t.cache[x].up \in P \cup {f}, NEW x \in P
        PROVE  d[x] = t.cache[x]
    <2>1. c[x] = t.cache[x]
      BY <1>4 DEF Follows
    <2>2. x \in Dirs \ {f}
      BY DEF Unpaved, Dirs
    <2> QED BY <1>1, <2>1, <2>2
  <1>5. ASSUME IsTree(t.cache) PROVE IsTree(d)
    <2>1. IsTree(c)
      BY <1>5 DEF Follows
    <2>2. Paved(c) \subseteq Paved(d) /\ \A g \in Paved(c) : d[g] = c[g]
      BY <1>0, <1>1 DEF Paved
    <2> SUFFICES ASSUME NEW g \in Paved(d) \ {Root} PROVE Extends(d, g, d[g])
      BY DEF IsTree
    <2>3. CASE g = f
      <3>1. Extends(c, f, e)
        BY <1>1, <2>3 DEF Paved
      <3> QED BY <1>1, <2>2, <2>3, <3>1 DEF Extends
    <2>4. CASE g # f
      <3>1. g \in Paved(c) /\ d[g] = c[g]
        BY <1>1, <2>4 DEF Paved
      <3>2. Extends(c, g, c[g])
        BY <2>1, <3>1 DEF IsTree
      <3> QED BY <2>2, <3>1, <3>2 DEF Extends
    <2> QED BY <2>3, <2>4
  <1>6. ASSUME NEW C \in SUBSET DOMAIN mailbox, Knows(mailbox, C, t.cache)
        PROVE  Knows(mailbox, C, d) /\ \A g \in C : t.cache[g] # Nowhere => d[g] # Nowhere
    <2>1. Knows(mailbox, C, c) /\ \A g \in C : t.cache[g] # Nowhere => c[g] # Nowhere
      BY <1>6 DEF Follows
    <2>2. \A g \in C : g \in Dirs
      BY DEF IsMailbox, Dirs
    <2>3. f \in C => e # Nowhere /\ e.up = mailbox[f].up /\ e.name = mailbox[f].name
      BY <1>6
    <2>4. ASSUME NEW g \in C
          PROVE  /\ mailbox[g].up \in C \cup {Root}
                 /\ d[g] # Nowhere => d[g].up = mailbox[g].up /\ d[g].name = mailbox[g].name
                 /\ t.cache[g] # Nowhere => d[g] # Nowhere
      <3>1. CASE g = f
        BY <1>1, <2>1, <2>3, <3>1 DEF Knows
      <3>2. CASE g # f
        BY <1>1, <2>1, <2>2, <3>2 DEF Knows
      <3> QED BY <3>1, <3>2
    <2> QED BY <2>4 DEF Knows
  <1> QED BY <1>1, <1>2, <1>3, <1>4, <1>5, <1>6 DEF Follows, d

(* One call, and then another for the same folder.                         *)
LEMMA FollowsTransitive ==
  ASSUME NEW mailbox, NEW t \in Calls, NEW u \in Calls, u.folder = t.folder,
         Follows(mailbox, t, u.cache), NEW d, Follows(mailbox, u, d)
  PROVE  Follows(mailbox, t, d)
  <1> DEFINE f == t.folder
             c == u.cache
  <1>1. ASSUME NEW g \in Paved(t.cache) PROVE d[g] = t.cache[g]
    <2>1. c[g] = t.cache[g] /\ g \in Paved(c)
      BY DEF Follows, Paved
    <2> QED BY <2>1 DEF Follows
  <1>2. Unpaved(d) \subseteq Unpaved(t.cache) \cup {f}
    BY DEF Follows
  <1>3. ASSUME NEW P \in SUBSET (Unpaved(t.cache) \ {f}),
               \A x \in P : t.cache[x].up \in P \cup {f}
        PROVE  \A x \in P : d[x] = t.cache[x]
    <2>1. \A x \in P : c[x] = t.cache[x]
      BY <1>3 DEF Follows
    <2>2. P \in SUBSET (Unpaved(c) \ {f}) /\ \A x \in P : c[x].up \in P \cup {f}
      BY <1>3, <2>1 DEF Unpaved
    <2>3. \A x \in P : d[x] = c[x]
      BY <2>2 DEF Follows
    <2> QED BY <2>1, <2>3
  <1>4. d \in Caches /\ (IsTree(t.cache) => IsTree(d))
    BY DEF Follows
  <1>5. ASSUME NEW C \in SUBSET DOMAIN mailbox, Knows(mailbox, C, t.cache)
        PROVE  Knows(mailbox, C, d) /\ \A g \in C : t.cache[g] # Nowhere => d[g] # Nowhere
    BY <1>5 DEF Follows
  <1> QED BY <1>1, <1>2, <1>3, <1>4, <1>5 DEF Follows

(* The folder that the folder is in, which idToPath is called for first.   *)
LEMMA FollowsParent ==
  ASSUME NEW mailbox, NEW t \in Calls, t.folder \in Unpaved(t.cache),
         NEW u \in Calls, u.cache = t.cache, u.folder = t.cache[t.folder].up,
         NEW r, Good(mailbox, u, r), ~r.err
  PROVE  /\ Follows(mailbox, t, r.cache)
         /\ r.cache[t.folder] = t.cache[t.folder]
         /\ u.folder # t.folder
         /\ ~\E S \in SUBSET Unpaved(t.cache) : t.folder \in S /\ \A x \in S : t.cache[x].up \in S
  <1> DEFINE f == t.folder
             c == t.cache
             d == r.cache
  <1>0. u.cache = c /\ u.folder = c[f].up
    OBVIOUS
  <1>1. ~\E S \in SUBSET Unpaved(c) : f \in S /\ \A x \in S : c[x].up \in S
    <2> SUFFICES ASSUME NEW S \in SUBSET Unpaved(c), f \in S, \A x \in S : c[x].up \in S
                 PROVE  FALSE
      OBVIOUS
    <2>1. u.folder \in S /\ \A x \in S : u.cache[x].up \in S
      OBVIOUS
    <2> QED BY <2>1 DEF Good
  <1>2. Follows(mailbox, u, d)
    BY DEF Good
  <1>3. ASSUME NEW P \in SUBSET (Unpaved(c) \ {f}), \A x \in P : c[x].up \in P \cup {f}
        PROVE  \A x \in P \cup {f} : d[x] = c[x]
    <2> DEFINE Q == P \cup {f}
    <2>1. Q \in SUBSET Unpaved(c) /\ f \in Q
      OBVIOUS
    <2>2. u.folder \notin Q
      <3> SUFFICES ASSUME u.folder \in Q PROVE FALSE
        OBVIOUS
      <3>1. \A x \in Q : c[x].up \in Q
        BY <1>0, <1>3
      <3> QED BY <1>1, <2>1, <3>1
    <2>3. Q \in SUBSET (Unpaved(u.cache) \ {u.folder})
      BY <1>0, <2>1, <2>2
    <2>4. \A x \in Q : u.cache[x].up \in Q \cup {u.folder}
      BY <1>0, <1>3
    <2> HIDE DEF Q
    <2>5. \A x \in Q : d[x] = u.cache[x]
      BY <1>2, <2>3, <2>4 DEF Follows
    <2> QED BY <1>0, <2>5 DEF Q
  <1>4. d[f] = c[f]
    <2>1. {} \in SUBSET (Unpaved(c) \ {f}) /\ \A x \in {} : c[x].up \in {} \cup {f}
      OBVIOUS
    <2> HIDE DEF c, d, f
    <2> QED BY <1>3, <2>1
  <1>5. u.folder # f
    <2> SUFFICES ASSUME c[f].up = f PROVE FALSE
      OBVIOUS
    <2>1. {f} \in SUBSET Unpaved(c) /\ f \in {f} /\ \A x \in {f} : c[x].up \in {f}
      OBVIOUS
    <2> QED BY <1>1, <2>1
  <1>6. Unpaved(d) \subseteq Unpaved(c)
    BY <1>2 DEF Follows, Good
  <1> QED BY <1>0, <1>1, <1>2, <1>3, <1>4, <1>5, <1>6 DEF Follows

-----------------------------------------------------------------------------
(* The recursion of idToPath: the depth grows, and it is called again at   *)
(* the same depth only once the cache has what the mailbox has.            *)

Current(mailbox, t) ==
  /\ t.folder \in DOMAIN mailbox
  /\ t.cache[t.folder] # Nowhere
  /\ ~Changed(mailbox, t.folder, t.cache[t.folder])

Measure(mailbox, t) ==
  2 * (maxIterations - t.depth) + (IF Current(mailbox, t) THEN 0 ELSE 1)

Fresh(mailbox, f) == [up |-> mailbox[f].up, name |-> mailbox[f].name, path |-> Nowhere, loc |-> Nowhere]

(* The calls that a call makes.                                            *)
AgainWith(mailbox, t, c) == [t EXCEPT !.cache = [c EXCEPT ![t.folder] = Fresh(mailbox, t.folder)]]

ParentOf(t) == [cache |-> t.cache, folder |-> t.cache[t.folder].up, depth |-> t.depth + 1]

LEMMA MeasureIs ==
  ASSUME NEW mailbox, NEW t \in Calls
  PROVE  Measure(mailbox, t) \in 0..2 * maxIterations + 1
  BY ResolverAssumption DEF Calls, Measure

LEMMA FreshIs ==
  ASSUME NEW mailbox, IsMailbox(mailbox), NEW f \in DOMAIN mailbox
  PROVE  /\ Fresh(mailbox, f) \in Entries /\ Fresh(mailbox, f).path = Nowhere
         /\ Fresh(mailbox, f).up = mailbox[f].up /\ Fresh(mailbox, f).name = mailbox[f].name
         /\ Fresh(mailbox, f) # Nowhere
         /\ ~Changed(mailbox, f, Fresh(mailbox, f))
  <1>1. mailbox[f] \in [up : Dirs, name : Names]
    BY DEF IsMailbox
  <1>2. Fresh(mailbox, f) \in Entries
    BY <1>1 DEF Fresh, Entries
  <1> QED BY <1>1, <1>2, ResolverAssumption DEF Fresh, Changed

LEMMA AgainIs ==
  ASSUME NEW mailbox, IsMailbox(mailbox), NEW t \in Calls, t.folder \in DOMAIN mailbox,
         NEW c \in Caches
  PROVE  /\ AgainWith(mailbox, t, c) \in Calls
         /\ AgainWith(mailbox, t, c).folder = t.folder
         /\ AgainWith(mailbox, t, c).depth = t.depth
         /\ AgainWith(mailbox, t, c).cache = [c EXCEPT ![t.folder] = Fresh(mailbox, t.folder)]
         /\ ~Current(mailbox, t) =>
              Measure(mailbox, AgainWith(mailbox, t, c)) < Measure(mailbox, t)
  <1> DEFINE f == t.folder
             d == [c EXCEPT ![f] = Fresh(mailbox, f)]
             u == AgainWith(mailbox, t, c)
  <1>0. f \in Folders
    BY DEF IsMailbox
  <1>1. d \in Caches /\ d[f] = Fresh(mailbox, f)
    BY <1>0, FreshIs, WithEntry
  <1> HIDE DEF d
  <1>2. t \in [cache : Caches, folder : Dirs, depth : 0..maxIterations]
    BY DEF Calls
  <1>3. u = [t EXCEPT !.cache = d]
    BY DEF AgainWith, d
  <1> HIDE DEF u
  <1>4. u \in Calls /\ u.folder = f /\ u.depth = t.depth /\ u.cache = d
    BY <1>1, <1>2, <1>3 DEF Calls
  <1>5. Current(mailbox, u)
    BY <1>1, <1>4, FreshIs DEF Current
  <1>6. ~Current(mailbox, t) => Measure(mailbox, u) < Measure(mailbox, t)
    <2>1. t.depth \in Int
      BY <1>2
    <2> QED BY <1>4, <1>5, <2>1, ResolverAssumption DEF Measure
  <1> QED BY <1>4, <1>6 DEF u, d

LEMMA ParentIs ==
  ASSUME NEW mailbox, NEW t \in Calls, t.folder \in Unpaved(t.cache), t.depth < maxIterations
  PROVE  /\ ParentOf(t) \in Calls
         /\ ParentOf(t).cache = t.cache /\ ParentOf(t).folder = t.cache[t.folder].up
         /\ Measure(mailbox, ParentOf(t)) < Measure(mailbox, t)
  <1>1. t \in [cache : Caches, folder : Dirs, depth : 0..maxIterations]
    BY DEF Calls
  <1>2. t.cache[t.folder] \in Entries
    <2>1. t.folder # Root /\ t.folder \in Dirs /\ t.cache[t.folder] # Nowhere
      BY ResolverAssumption DEF Unpaved, Dirs
    <2> QED BY <1>1, <2>1, CacheIs
  <1>3. t.cache[t.folder].up \in Dirs
    BY <1>2 DEF Entries
  <1>4. t.depth + 1 \in 0..maxIterations
    BY <1>1, ResolverAssumption
  <1>5. ParentOf(t) \in Calls
    BY <1>1, <1>3, <1>4 DEF ParentOf, Calls
  <1>6. ParentOf(t).depth = t.depth + 1
    BY DEF ParentOf
  <1> QED BY <1>1, <1>5, <1>6, ResolverAssumption DEF ParentOf, Measure

Pave(c, f, up, name) ==
  [c EXCEPT ![f].path = Append(c[up].path, f), ![f].loc = Append(c[up].loc, name)]

(* The cases of a call.                                                    *)
LEMMA OneCallIs ==
  ASSUME NEW mailbox, NEW h, NEW t
  PROVE  LET f == t.folder
             p == h[ParentOf(t)]
             there == f \in DOMAIN mailbox
         IN  OneCall(mailbox, h, t) =
               IF t.depth >= maxIterations THEN Cycle(t.cache)
               ELSE IF t.cache[f] = Nowhere
               THEN IF there THEN [h[AgainWith(mailbox, t, t.cache)] EXCEPT !.cached = FALSE]
                    ELSE Resolved(t.cache, FALSE, TRUE)
               ELSE IF t.cache[f].path # Nowhere THEN Resolved(t.cache, TRUE, FALSE)
               ELSE IF p.err THEN p
               ELSE IF ~p.cached /\ there /\ Changed(mailbox, f, t.cache[f])
               THEN h[AgainWith(mailbox, t, RemoveFolder(p.cache, f))]
               ELSE IF p.deleted \/ (~p.cached /\ ~there)
               THEN Resolved(RemoveFolder(p.cache, f), TRUE, TRUE)
               ELSE Resolved(Pave(p.cache, f, t.cache[f].up, t.cache[f].name), TRUE, FALSE)
  BY DEF OneCall, StillThere, AddFolder, Unresolved, AgainWith, Fresh, ParentOf, Pave

(* Too deep, or a folder that is not in the cache or has a path.           *)
LEMMA OneCallEnds ==
  ASSUME NEW mailbox, NEW h, NEW t \in Calls, NEW r, r = OneCall(mailbox, h, t)
  PROVE  /\ t.depth >= maxIterations => r = Cycle(t.cache)
         /\ t.depth < maxIterations =>
              /\ t.cache[t.folder] = Nowhere /\ t.folder \in DOMAIN mailbox =>
                   r = [h[AgainWith(mailbox, t, t.cache)] EXCEPT !.cached = FALSE]
              /\ t.cache[t.folder] = Nowhere /\ t.folder \notin DOMAIN mailbox =>
                   r = Resolved(t.cache, FALSE, TRUE)
              /\ t.folder \in Paved(t.cache) => r = Resolved(t.cache, TRUE, FALSE)
  <1> DEFINE f == t.folder
             p == h[ParentOf(t)]
             again == [h[AgainWith(mailbox, t, t.cache)] EXCEPT !.cached = FALSE]
             other == IF p.err THEN p
                      ELSE IF ~p.cached /\ f \in DOMAIN mailbox /\ Changed(mailbox, f, t.cache[f])
                      THEN h[AgainWith(mailbox, t, RemoveFolder(p.cache, f))]
                      ELSE IF p.deleted \/ (~p.cached /\ ~(f \in DOMAIN mailbox))
                      THEN Resolved(RemoveFolder(p.cache, f), TRUE, TRUE)
                      ELSE Resolved(Pave(p.cache, f, t.cache[f].up, t.cache[f].name), TRUE, FALSE)
  <1>1. r = IF t.depth >= maxIterations THEN Cycle(t.cache)
            ELSE IF t.cache[f] = Nowhere
            THEN IF f \in DOMAIN mailbox THEN again ELSE Resolved(t.cache, FALSE, TRUE)
            ELSE IF t.cache[f].path # Nowhere THEN Resolved(t.cache, TRUE, FALSE)
            ELSE other
    BY OneCallIs, Zenon
  <1>2. t.depth \in Int /\ maxIterations \in Int
    BY ResolverAssumption DEF Calls
  <1>3. f \in Paved(t.cache) => t.cache[f] # Nowhere /\ t.cache[f].path # Nowhere
    BY DEF Paved
  <1>4. t.depth < maxIterations <=> ~(t.depth >= maxIterations)
    BY <1>2
  <1> HIDE DEF again, other
  <1>5. /\ t.depth >= maxIterations => r = Cycle(t.cache)
        /\ t.depth < maxIterations =>
             /\ t.cache[f] = Nowhere /\ f \in DOMAIN mailbox => r = again
             /\ t.cache[f] = Nowhere /\ f \notin DOMAIN mailbox => r = Resolved(t.cache, FALSE, TRUE)
             /\ f \in Paved(t.cache) => r = Resolved(t.cache, TRUE, FALSE)
    BY <1>1, <1>3, <1>4, Zenon
  <1> QED BY <1>5 DEF again

(* One whose path is not set: what p, that of its parent, returned counts. *)
GoesOn(mailbox, h, t, p, r) ==
  LET f == t.folder
      changed == ~p.cached /\ f \in DOMAIN mailbox /\ Changed(mailbox, f, t.cache[f])
  IN  \/ p.err /\ r = p
      \/ ~p.err /\ changed /\ r = h[AgainWith(mailbox, t, RemoveFolder(p.cache, f))]
      \/ /\ ~p.err /\ (p.deleted \/ f \notin DOMAIN mailbox)
         /\ r = Resolved(RemoveFolder(p.cache, f), TRUE, TRUE)
      \/ /\ ~p.err /\ ~p.deleted
         /\ r = Resolved(Pave(p.cache, f, t.cache[f].up, t.cache[f].name), TRUE, FALSE)

LEMMA OneCallGoesOn ==
  ASSUME NEW mailbox, NEW h, NEW t \in Calls, NEW r, r = OneCall(mailbox, h, t),
         t.depth < maxIterations, t.folder \in Unpaved(t.cache), NEW p, p = h[ParentOf(t)]
  PROVE  GoesOn(mailbox, h, t, p, r)
  <1> DEFINE f == t.folder
             q == h[ParentOf(t)]
             again(x) == h[AgainWith(mailbox, t, RemoveFolder(x.cache, f))]
             changed(x) == ~x.cached /\ f \in DOMAIN mailbox /\ Changed(mailbox, f, t.cache[f])
             paved(x) == Resolved(Pave(x.cache, f, t.cache[f].up, t.cache[f].name), TRUE, FALSE)
             left(x) == Resolved(RemoveFolder(x.cache, f), TRUE, TRUE)
             first == IF f \in DOMAIN mailbox
                      THEN [h[AgainWith(mailbox, t, t.cache)] EXCEPT !.cached = FALSE]
                      ELSE Resolved(t.cache, FALSE, TRUE)
  <1>1. r = IF t.depth >= maxIterations THEN Cycle(t.cache)
            ELSE IF t.cache[f] = Nowhere THEN first
            ELSE IF t.cache[f].path # Nowhere THEN Resolved(t.cache, TRUE, FALSE)
            ELSE IF q.err THEN q
            ELSE IF changed(q) THEN again(q)
            ELSE IF q.deleted \/ (~q.cached /\ ~(f \in DOMAIN mailbox)) THEN left(q)
            ELSE paved(q)
    BY OneCallIs, Zenon
  <1>2. t.depth \in Int /\ maxIterations \in Int
    BY ResolverAssumption DEF Calls
  <1>3. t.cache[f] # Nowhere /\ t.cache[f].path = Nowhere /\ ~(t.depth >= maxIterations)
    BY <1>2 DEF Unpaved
  <1>4. p = q
    OBVIOUS
  <1> HIDE DEF q, again, paved, left, first, changed
  <1>5. \/ p.err /\ r = p
        \/ ~p.err /\ changed(p) /\ r = again(p)
        \/ ~p.err /\ (p.deleted \/ f \notin DOMAIN mailbox) /\ r = left(p)
        \/ ~p.err /\ ~p.deleted /\ r = paved(p)
    BY <1>1, <1>3, <1>4, Zenon
  <1> QED BY <1>5 DEF again, paved, left, changed, GoesOn

NoCycle(t) ==
  ~\E S \in SUBSET Unpaved(t.cache) : t.folder \in S /\ \A x \in S : t.cache[x].up \in S

LEMMA GoodResolved ==
  ASSUME NEW mailbox, NEW t \in Calls, NoCycle(t),
         NEW c, Follows(mailbox, t, c), t.folder \in Paved(c)
  PROVE  Good(mailbox, t, Resolved(c, TRUE, FALSE))
  <1> DEFINE r == Resolved(c, TRUE, FALSE)
  <1>1. r \in Results /\ r.cache = c /\ ~r.deleted /\ ~r.err
    BY DEF Follows, Results, Resolved
  <1>2. t.folder \notin Unpaved(c)
    BY DEF Paved, Unpaved
  <1> HIDE DEF r
  <1> QED BY <1>1, <1>2 DEF Good, NoCycle, r

LEMMA GoodDeleted ==
  ASSUME NEW mailbox, NEW t \in Calls, NoCycle(t),
         NEW c, Follows(mailbox, t, c), t.folder \notin Unpaved(c),
         \A C \in SUBSET DOMAIN mailbox :
           ~(Knows(mailbox, C, t.cache) /\ t.folder \in C \cup {Root}),
         NEW r, r = Resolved(c, TRUE, TRUE) \/ r = Resolved(c, FALSE, TRUE)
  PROVE  Good(mailbox, t, r)
  <1>1. r \in Results /\ r.cache = c /\ r.deleted /\ ~r.err
    <2>1. CASE r = Resolved(c, TRUE, TRUE)
      BY <2>1 DEF Follows, Results, Resolved
    <2>2. CASE r = Resolved(c, FALSE, TRUE)
      BY <2>2 DEF Follows, Results, Resolved
    <2> QED BY <2>1, <2>2
  <1> QED BY <1>1 DEF Good, NoCycle

LEMMA GoodAgain ==
  ASSUME NEW mailbox, NEW t \in Calls, NoCycle(t), NEW u \in Calls, u.folder = t.folder,
         Follows(mailbox, t, u.cache), NEW r, Good(mailbox, u, r)
  PROVE  Good(mailbox, t, r)
  <1>1. ~r.err => Follows(mailbox, t, r.cache)
    BY FollowsTransitive DEF Good
  <1>2. ASSUME ~r.err, NEW C \in SUBSET DOMAIN mailbox,
               Knows(mailbox, C, t.cache), t.folder \in C \cup {Root}
        PROVE  ~r.deleted
    <2>1. Knows(mailbox, C, u.cache)
      BY <1>2 DEF Follows
    <2> QED BY <1>2, <2>1 DEF Good
  <1> QED BY <1>1, <1>2 DEF Good, NoCycle

LEMMA GoodNotCached ==
  ASSUME NEW mailbox, NEW t \in Calls, NEW r, Good(mailbox, t, r)
  PROVE  Good(mailbox, t, [r EXCEPT !.cached = FALSE])
  <1> DEFINE q == [r EXCEPT !.cached = FALSE]
  <1>1. r \in [cache : Caches, cached : BOOLEAN, deleted : BOOLEAN, err : BOOLEAN]
    BY DEF Good, Results
  <1>2. q \in Results /\ q.cache = r.cache /\ q.deleted = r.deleted /\ q.err = r.err
    BY <1>1 DEF Results
  <1> HIDE DEF q
  <1> QED BY <1>2 DEF Good, q

(* The two changes that begin with the removal of the folder.              *)
LEMMA Removed ==
  ASSUME NEW c \in Caches, NEW f \in Folders
  PROVE  /\ RemoveFolder(c, f) = [c EXCEPT ![f] = Nowhere]
         /\ RemoveFolder(c, f) \in Caches
         /\ RemoveFolder(c, f)[f] = Nowhere
         /\ f \notin Paved(RemoveFolder(c, f)) /\ f \notin Unpaved(RemoveFolder(c, f))
  <1>1. RemoveFolder(c, f) = [c EXCEPT ![f] = Nowhere]
    BY DEF RemoveFolder
  <1> DEFINE d == [c EXCEPT ![f] = Nowhere]
  <1>3. d \in Caches /\ d[f] = Nowhere
    BY WithEntry
  <1> HIDE DEF d
  <1>2. RemoveFolder(c, f) \in Caches /\ RemoveFolder(c, f)[f] = Nowhere
    BY <1>1, <1>3 DEF d
  <1> QED BY <1>1, <1>2 DEF Paved, Unpaved

(* The case of a folder whose path is not set.                             *)
LEMMA UnpavedIsGood ==
  ASSUME NEW mailbox, IsMailbox(mailbox), NEW h, NEW t \in Calls,
         \A u \in Calls : Measure(mailbox, u) < Measure(mailbox, t) => Good(mailbox, u, h[u]),
         t.depth < maxIterations, t.folder \in Unpaved(t.cache),
         NEW r, r = OneCall(mailbox, h, t)
  PROVE  Good(mailbox, t, r)
  <1> DEFINE f == t.folder
             c == t.cache
             u == ParentOf(t)
             p == h[u]
             without == RemoveFolder(p.cache, f)
             there == f \in DOMAIN mailbox
             changed == ~p.cached /\ there /\ Changed(mailbox, f, c[f])
  <1>0. /\ f \in Folders /\ f \in Dirs /\ f # Root /\ c \in Caches
        /\ c[f] # Nowhere /\ c[f].path = Nowhere /\ c[f] \in Entries
    <2>1. f \in Folders /\ c[f] # Nowhere /\ c[f].path = Nowhere
      BY DEF Unpaved
    <2>2. f \in Dirs /\ f # Root /\ c \in Caches
      BY <2>1, ResolverAssumption DEF Dirs, Calls
    <2> QED BY <2>1, <2>2, CacheIs
  <1>1. /\ u \in Calls /\ u.cache = c /\ u.folder = c[f].up
        /\ Measure(mailbox, u) < Measure(mailbox, t)
    BY ParentIs
  <1>2. Good(mailbox, u, p)
    BY <1>1
  <1>5. \/ p.err /\ r = p
        \/ ~p.err /\ changed /\ r = h[AgainWith(mailbox, t, without)]
        \/ ~p.err /\ (p.deleted \/ ~there) /\ r = Resolved(without, TRUE, TRUE)
        \/ /\ ~p.err /\ ~p.deleted
           /\ r = Resolved(Pave(p.cache, f, c[f].up, c[f].name), TRUE, FALSE)
    <2>1. p = h[ParentOf(t)]
      OBVIOUS
    <2> HIDE DEF p
    <2>2. GoesOn(mailbox, h, t, p, r)
      BY <2>1, OneCallGoesOn
    <2> QED BY <2>2 DEF GoesOn
  <1> HIDE DEF u, p
  <1>3. CASE p.err
    <2>1. r = p
      BY <1>3, <1>5
    <2>2. p \in Results
      BY <1>2 DEF Good
    <2> QED BY <1>3, <2>1, <2>2 DEF Good
  <1>4. CASE ~p.err
    <2>1. /\ Follows(mailbox, t, p.cache) /\ p.cache[f] = c[f]
          /\ NoCycle(t) /\ u.folder # f /\ p.cache \in Caches
      <3>1. /\ Follows(mailbox, t, p.cache) /\ p.cache[f] = c[f] /\ u.folder # f
            /\ ~\E S \in SUBSET Unpaved(c) : f \in S /\ \A x \in S : c[x].up \in S
        BY <1>1, <1>2, <1>4, FollowsParent
      <3> QED BY <3>1 DEF NoCycle, Follows
    <2>2. f \notin Paved(p.cache)
      BY <1>0, <2>1 DEF Paved
    <2>3. /\ without = [p.cache EXCEPT ![f] = Nowhere] /\ without \in Caches
          /\ f \notin Paved(without) /\ f \notin Unpaved(without)
      BY <1>0, <2>1, Removed
    <2>4. ASSUME \A C \in SUBSET DOMAIN mailbox : Knows(mailbox, C, c) => f \notin C
          PROVE  Follows(mailbox, t, without)
      BY <1>0, <2>1, <2>2, <2>3, <2>4, FollowsWith
    <2>5. CASE changed /\ r = h[AgainWith(mailbox, t, without)]
      <3>2. ASSUME NEW C \in SUBSET DOMAIN mailbox, Knows(mailbox, C, c) PROVE f \notin C
        <4> SUFFICES ASSUME f \in C PROVE FALSE
          OBVIOUS
        <4>1. c[f].up = mailbox[f].up /\ c[f].name = mailbox[f].name
          BY <1>0, <3>2 DEF Knows
        <4>2. mailbox[f] \in [up : Dirs, name : Names]
          BY <2>5 DEF IsMailbox
        <4> QED BY <2>5, <4>1, <4>2 DEF Changed
      <3>3. Follows(mailbox, t, without)
        BY <2>4, <3>2
      <3> DEFINE v == AgainWith(mailbox, t, without)
      <3>4. /\ v \in Calls /\ v.folder = f
            /\ v.cache = [without EXCEPT ![f] = Fresh(mailbox, f)]
            /\ ~Current(mailbox, t) => Measure(mailbox, v) < Measure(mailbox, t)
        BY <2>3, <2>5, AgainIs
      <3>5. ~Current(mailbox, t)
        BY <2>5 DEF Current
      <3> HIDE DEF v
      <3>6. Good(mailbox, v, h[v])
        BY <3>4, <3>5
      <3>7. Follows(mailbox, t, v.cache)
        <4>1. Fresh(mailbox, f) \in Entries /\ Extends(without, f, Fresh(mailbox, f))
          BY <2>5, FreshIs DEF Extends
        <4> QED BY <1>0, <2>3, <3>2, <3>3, <3>4, <4>1, FollowsWith
      <3> QED BY <2>1, <2>5, <3>4, <3>6, <3>7, GoodAgain DEF v
    <2>6. CASE (p.deleted \/ ~there) /\ r = Resolved(without, TRUE, TRUE)
      <3>1. ASSUME NEW C \in SUBSET DOMAIN mailbox, Knows(mailbox, C, c) PROVE f \notin C
        <4> SUFFICES ASSUME f \in C PROVE FALSE
          OBVIOUS
        <4>1. u.folder \in C \cup {Root}
          BY <1>0, <1>1, <3>1 DEF Knows
        <4>2. ~p.deleted
          BY <1>1, <1>2, <1>4, <3>1, <4>1 DEF Good
        <4> QED BY <2>6, <4>2
      <3>2. Follows(mailbox, t, without)
        BY <2>4, <3>1
      <3>3. \A C \in SUBSET DOMAIN mailbox :
              ~(Knows(mailbox, C, c) /\ f \in C \cup {Root})
        BY <1>0, <3>1
      <3>4. r = Resolved(without, TRUE, TRUE)
        BY <2>6
      <3> HIDE DEF without
      <3> QED BY <2>1, <2>3, <3>2, <3>3, <3>4, GoodDeleted
    <2>7. CASE /\ ~p.deleted
               /\ r = Resolved(Pave(p.cache, f, c[f].up, c[f].name), TRUE, FALSE)
      <3> DEFINE e == [up |-> c[f].up, name |-> c[f].name,
                       path |-> Append(p.cache[c[f].up].path, f),
                       loc |-> Append(p.cache[c[f].up].loc, c[f].name)]
                 d == [p.cache EXCEPT ![f] = e]
                 above == p.cache[c[f].up]
      <3>1. c[f].up \in Paved(p.cache)
        BY <1>1, <1>2, <1>4, <2>7 DEF Good
      <3>2. above.path \in Seq(Folders) /\ above.loc \in Seq(Names)
        BY <2>1, <3>1, CacheIs
      <3>3. /\ Append(above.path, f) \in Seq(Folders) /\ Append(above.loc, c[f].name) \in Seq(Names)
            /\ c[f].name \in Names /\ c[f].up \in Dirs
        BY <1>0, <3>2 DEF Entries
      <3>4. e \in Entries /\ e.path # Nowhere
        BY <3>3, ResolverAssumption DEF Entries
      <3>5. Pave(p.cache, f, c[f].up, c[f].name) = d
        <4>1. p.cache \in [Dirs -> Entries \cup {RootEntry, Nowhere}]
          BY <2>1 DEF Caches
        <4>2. c[f] \in [up : Dirs, name : Names, path : Seq(Folders) \cup {Nowhere},
                        loc : Seq(Names) \cup {Nowhere}]
          BY <1>0 DEF Entries
        <4> DEFINE x == Append(p.cache[c[f].up].path, f)
                   y == Append(p.cache[c[f].up].loc, c[f].name)
                   b == c[f]
                   z == [b EXCEPT !.path = x]
        <4> HIDE DEF x, y, b
        <4>5. b = [up |-> b.up, name |-> b.name, path |-> b.path, loc |-> b.loc]
          BY <4>2 DEF b
        <4>6. z = [up |-> b.up, name |-> b.name, path |-> x, loc |-> b.loc]
          BY <4>5
        <4> HIDE DEF z
        <4>3. [z EXCEPT !.loc = y] = [up |-> b.up, name |-> b.name, path |-> x, loc |-> y]
          BY <4>6
        <4>4. [p.cache EXCEPT ![f].path = x, ![f].loc = y] =
                [p.cache EXCEPT ![f] = [z EXCEPT !.loc = y]]
          BY <1>0, <2>1, <4>1 DEF b, z
        <4> QED BY <4>3, <4>4 DEF x, y, b, Pave
      <3>6. Extends(p.cache, f, e)
        BY <3>1 DEF Extends
      <3>7. ASSUME NEW C \in SUBSET DOMAIN mailbox, Knows(mailbox, C, c), f \in C
            PROVE  e # Nowhere /\ e.up = mailbox[f].up /\ e.name = mailbox[f].name
        BY <1>0, <3>4, <3>7, ResolverAssumption DEF Knows
      <3> HIDE DEF e
      <3>8. d[f] = e
        BY <1>0, <2>1 DEF Caches
      <3>9. Follows(mailbox, t, d)
        BY <1>0, <2>1, <2>2, <3>4, <3>6, <3>7, FollowsWith
      <3>10. f \in Paved(d) /\ f \notin Unpaved(d)
        BY <1>0, <3>4, <3>8, ResolverAssumption DEF Paved, Unpaved
      <3>11. r = Resolved(d, TRUE, FALSE)
        BY <2>7, <3>5
      <3> HIDE DEF d
      <3> QED BY <2>1, <3>9, <3>10, <3>11, GoodResolved
    <2> QED BY <1>4, <1>5, <2>5, <2>6, <2>7
  <1> QED BY <1>3, <1>4

LEMMA OneCallIsGood ==
  ASSUME NEW mailbox, IsMailbox(mailbox), NEW h, NEW t \in Calls,
         \A u \in Calls : Measure(mailbox, u) < Measure(mailbox, t) => Good(mailbox, u, h[u]),
         NEW r, r = OneCall(mailbox, h, t)
  PROVE  Good(mailbox, t, r)
  <1> DEFINE f == t.folder
             c == t.cache
  <1>0. f \in Dirs /\ c \in Caches /\ t.depth \in Int /\ maxIterations \in Int
    BY ResolverAssumption DEF Calls
  <1>6. /\ t.depth >= maxIterations => r = Cycle(c)
        /\ t.depth < maxIterations =>
             /\ c[f] = Nowhere /\ f \in DOMAIN mailbox =>
                  r = [h[AgainWith(mailbox, t, c)] EXCEPT !.cached = FALSE]
             /\ c[f] = Nowhere /\ f \notin DOMAIN mailbox => r = Resolved(c, FALSE, TRUE)
             /\ f \in Paved(c) => r = Resolved(c, TRUE, FALSE)
    BY OneCallEnds
  <1>7. t.depth < maxIterations /\ f \in Unpaved(c) => Good(mailbox, t, r)
    BY UnpavedIsGood
  <1>1. CASE t.depth >= maxIterations
    <2>1. r = Cycle(c)
      BY <1>1, <1>6
    <2>2. r \in Results /\ r.err
      BY <1>0, <2>1 DEF Cycle, Results
    <2> QED BY <2>2 DEF Good
  <1>2. CASE t.depth < maxIterations /\ c[f] = Nowhere
    <2>0. /\ f \notin Paved(c) /\ f \notin Unpaved(c) /\ NoCycle(t) /\ f # Root
          /\ f \in Folders /\ ~Current(mailbox, t)
      <3>1. f # Root
        BY <1>0, <1>2, CacheIs, ResolverAssumption
      <3> QED BY <1>0, <1>2, <3>1 DEF Paved, Unpaved, NoCycle, Dirs, Current
    <2>1. CASE f \in DOMAIN mailbox
      <3> DEFINE v == AgainWith(mailbox, t, c)
      <3>1. /\ v \in Calls /\ v.folder = f /\ v.cache = [c EXCEPT ![f] = Fresh(mailbox, f)]
            /\ Measure(mailbox, v) < Measure(mailbox, t)
        BY <1>0, <2>0, <2>1, AgainIs
      <3>2. r = [h[v] EXCEPT !.cached = FALSE]
        BY <1>2, <2>1, <1>6
      <3>3. Fresh(mailbox, f) \in Entries /\ Extends(c, f, Fresh(mailbox, f))
        BY <2>1, FreshIs DEF Extends
      <3> HIDE DEF v
      <3>4. Follows(mailbox, t, v.cache)
        <4> DEFINE e == Fresh(mailbox, f)
        <4>1. e \in Entries \cup {Nowhere} /\ Extends(c, f, e)
          BY <3>3
        <4>2. e # Nowhere /\ e.up = mailbox[f].up /\ e.name = mailbox[f].name
          BY <2>1, FreshIs
        <4>3. v.cache = [c EXCEPT ![f] = e]
          BY <3>1
        <4> HIDE DEF e
        <4>4. Follows(mailbox, t, [c EXCEPT ![f] = e])
          BY <2>0, <4>1, <4>2, FollowsItself, FollowsWith
        <4> QED BY <4>3, <4>4
      <3>5. Good(mailbox, t, h[v])
        BY <2>0, <3>1, <3>4, GoodAgain
      <3> QED BY <3>2, <3>5, GoodNotCached
    <2>2. CASE f \notin DOMAIN mailbox
      <3>1. r = Resolved(c, FALSE, TRUE)
        BY <1>2, <2>2, <1>6
      <3>2. \A C \in SUBSET DOMAIN mailbox : f \notin C \cup {Root}
        BY <2>0, <2>2
      <3>3. Follows(mailbox, t, c)
        BY FollowsItself
      <3> QED BY <2>0, <3>1, <3>2, <3>3, GoodDeleted
    <2> QED BY <2>1, <2>2
  <1>3. CASE t.depth < maxIterations /\ f \in Paved(c)
    <2>1. r = Resolved(c, TRUE, FALSE)
      BY <1>3, <1>6
    <2>2. f \notin Unpaved(c) /\ NoCycle(t)
      BY <1>3 DEF Paved, Unpaved, NoCycle
    <2> QED BY <1>3, <2>1, <2>2, FollowsItself, GoodResolved
  <1>4. CASE t.depth < maxIterations /\ f \in Unpaved(c)
    BY <1>4, <1>7
  <1>5. c[f] = Nowhere \/ f \in Paved(c) \/ f \in Unpaved(c)
    <2>1. CASE f = Root
      BY <1>0, <2>1, CacheIs
    <2>2. CASE f # Root
      BY <1>0, <2>2 DEF Paved, Unpaved, Dirs
    <2> QED BY <2>1, <2>2
  <1> QED BY <1>0, <1>1, <1>2, <1>3, <1>4, <1>5

(* A call depends on none but the calls it makes.                          *)
LEMMA SameCall ==
  ASSUME NEW mailbox, IsMailbox(mailbox), NEW h, NEW g, NEW t \in Calls,
         \A u \in Calls : Measure(mailbox, u) < Measure(mailbox, t) =>
                            Good(mailbox, u, h[u]) /\ g[u] = h[u]
  PROVE  OneCall(mailbox, g, t) = OneCall(mailbox, h, t)
  <1> DEFINE r == OneCall(mailbox, h, t)
             s == OneCall(mailbox, g, t)
             f == t.folder
             c == t.cache
             u == ParentOf(t)
             v == AgainWith(mailbox, t, c)
             w == AgainWith(mailbox, t, RemoveFolder(h[u].cache, f))
  <1>0. f \in Dirs /\ c \in Caches /\ t.depth \in Int /\ maxIterations \in Int
    BY ResolverAssumption DEF Calls
  <1>1. ASSUME t.depth < maxIterations, c[f] = Nowhere, f \in DOMAIN mailbox PROVE g[v] = h[v]
    <2>1. ~Current(mailbox, t)
      BY <1>1 DEF Current
    <2>2. v \in Calls /\ Measure(mailbox, v) < Measure(mailbox, t)
      BY <1>0, <1>1, <2>1, AgainIs
    <2> QED BY <2>2
  <1>2. ASSUME t.depth < maxIterations, f \in Unpaved(c)
        PROVE  /\ g[u] = h[u]
               /\ ~h[u].err /\ f \in DOMAIN mailbox /\ Changed(mailbox, f, c[f]) => g[w] = h[w]
    <2>1. u \in Calls /\ Measure(mailbox, u) < Measure(mailbox, t)
      BY <1>2, ParentIs
    <2>2. Good(mailbox, u, h[u]) /\ g[u] = h[u]
      BY <2>1
    <2> HIDE DEF u
    <2>3. ASSUME ~h[u].err, f \in DOMAIN mailbox, Changed(mailbox, f, c[f]) PROVE g[w] = h[w]
      <3>1. h[u].cache \in Caches /\ f \in Folders
        BY <1>2, <2>2, <2>3 DEF Good, Follows, Unpaved
      <3>2. RemoveFolder(h[u].cache, f) \in Caches
        BY <3>1, Removed
      <3>3. ~Current(mailbox, t)
        BY <2>3 DEF Current
      <3>4. w \in Calls /\ Measure(mailbox, w) < Measure(mailbox, t)
        BY <2>3, <3>2, <3>3, AgainIs
      <3> QED BY <3>4
    <2> QED BY <2>2, <2>3
  <1>3. CASE t.depth >= maxIterations
    <2>1. r = Cycle(c) /\ s = Cycle(c)
      BY <1>3, OneCallEnds
    <2> QED BY <2>1
  <1>4. CASE t.depth < maxIterations /\ c[f] = Nowhere
    <2>1. CASE f \in DOMAIN mailbox
      <3>1. r = [h[v] EXCEPT !.cached = FALSE] /\ s = [g[v] EXCEPT !.cached = FALSE]
        BY <1>4, <2>1, OneCallEnds
      <3> HIDE DEF v, r, s
      <3> QED BY <1>1, <1>4, <2>1, <3>1 DEF r, s
    <2>2. CASE f \notin DOMAIN mailbox
      <3>1. r = Resolved(c, FALSE, TRUE) /\ s = Resolved(c, FALSE, TRUE)
        BY <1>4, <2>2, OneCallEnds
      <3> QED BY <3>1
    <2> QED BY <2>1, <2>2
  <1>5. CASE t.depth < maxIterations /\ f \in Paved(c)
    <2>1. r = Resolved(c, TRUE, FALSE) /\ s = Resolved(c, TRUE, FALSE)
      BY <1>5, OneCallEnds
    <2> QED BY <2>1
  <1>6. CASE t.depth < maxIterations /\ f \in Unpaved(c)
    <2>1. c[f] # Nowhere /\ c[f].path = Nowhere /\ ~(t.depth >= maxIterations)
      BY <1>0, <1>6 DEF Unpaved
    <2>2. g[u] = h[u]
      BY <1>2, <1>6
    <2>3. h[u].err \/ ~(f \in DOMAIN mailbox /\ Changed(mailbox, f, c[f])) \/ g[w] = h[w]
      BY <1>2, <1>6
    <2> DEFINE there == f \in DOMAIN mailbox
               changed == Changed(mailbox, f, c[f])
               left(p) == Resolved(RemoveFolder(p.cache, f), TRUE, TRUE)
               paved(p) == Resolved(Pave(p.cache, f, c[f].up, c[f].name), TRUE, FALSE)
               one(a, p, q) ==
                 IF t.depth >= maxIterations THEN Cycle(c)
                 ELSE IF c[f] = Nowhere
                 THEN IF there THEN [a EXCEPT !.cached = FALSE]
                      ELSE Resolved(c, FALSE, TRUE)
                 ELSE IF c[f].path # Nowhere THEN Resolved(c, TRUE, FALSE)
                 ELSE IF p.err THEN p
                 ELSE IF ~p.cached /\ there /\ changed THEN q
                 ELSE IF p.deleted \/ (~p.cached /\ ~there) THEN left(p)
                 ELSE paved(p)
               two(p, q) ==
                 IF p.err THEN p
                 ELSE IF ~p.cached /\ there /\ changed THEN q
                 ELSE IF p.deleted \/ (~p.cached /\ ~there) THEN left(p)
                 ELSE paved(p)
               x == AgainWith(mailbox, t, RemoveFolder(g[u].cache, f))
    <2>4. r = one(h[v], h[u], h[w])
      BY OneCallIs, Zenon
    <2>5. s = one(g[v], g[u], g[x])
      BY OneCallIs, Zenon
    <2>6. x = w
      BY <2>2
    <2> HIDE DEF r, s, x, w, u, v, left, paved, changed, there
    <2>7. r = two(h[u], h[w])
      BY <2>1, <2>4, Zenon
    <2>8. s = two(h[u], g[w])
      BY <2>1, <2>2, <2>5, <2>6, Zenon
    <2>9. h[u].err \/ ~(there /\ changed) \/ g[w] = h[w]
      BY <2>3 DEF there, changed
    <2>10. two(h[u], h[w]) = two(h[u], g[w])
      BY <2>9, Zenon
    <2> QED BY <2>7, <2>8, <2>10 DEF r, s
  <1>7. c[f] = Nowhere \/ f \in Paved(c) \/ f \in Unpaved(c)
    <2>1. CASE f = Root
      BY <1>0, <2>1, CacheIs
    <2>2. CASE f # Root
      BY <1>0, <2>2 DEF Paved, Unpaved, Dirs
    <2> QED BY <2>1, <2>2
  <1> QED BY <1>0, <1>3, <1>4, <1>5, <1>6, <1>7

(* Whatever solves the recursion for the calls up to a measure is good.    *)
LEMMA SolutionIsGood ==
  ASSUME NEW mailbox, IsMailbox(mailbox), NEW n \in Nat, NEW h,
         \A t \in Calls : Measure(mailbox, t) < n => h[t] = OneCall(mailbox, h, t)
  PROVE  \A t \in Calls : Measure(mailbox, t) < n => Good(mailbox, t, h[t])
  <1> DEFINE Bad == {t \in Calls : Measure(mailbox, t) < n /\ ~Good(mailbox, t, h[t])}
             S == {Measure(mailbox, t) : t \in Bad}
  <1> SUFFICES ASSUME Bad # {} PROVE FALSE
    OBVIOUS
  <1>1. S \in SUBSET Nat /\ S # {}
    BY MeasureIs
  <1>2. PICK m \in S : \A k \in S : m <= k
    BY <1>1, Smallest
  <1>3. PICK t \in Bad : m = Measure(mailbox, t)
    BY <1>2
  <1>4. ASSUME NEW u \in Calls, Measure(mailbox, u) < Measure(mailbox, t)
        PROVE  Good(mailbox, u, h[u])
    <2>1. /\ Measure(mailbox, u) \in Nat /\ Measure(mailbox, t) \in Nat
          /\ Measure(mailbox, t) < n
      BY <1>3, MeasureIs
    <2>2. Measure(mailbox, u) \notin S
      BY <1>2, <1>3, <1>4, <2>1
    <2> QED BY <1>4, <2>1, <2>2
  <1>5. t \in Calls /\ h[t] = OneCall(mailbox, h, t)
    BY <1>3
  <1>6. Good(mailbox, t, h[t])
    BY <1>4, <1>5, OneCallIsGood
  <1> QED BY <1>3, <1>6

LEMMA SolutionExists ==
  ASSUME NEW mailbox, IsMailbox(mailbox)
  PROVE  \E h : h = [t \in Calls |-> OneCall(mailbox, h, t)]
  <1> DEFINE Solves(h, n) ==
               \A t \in Calls : Measure(mailbox, t) < n => h[t] = OneCall(mailbox, h, t)
             N == {n \in Nat : \E h : Solves(h, n)}
  <1>1. 0 \in N
    <2>1. \A t \in Calls : ~(Measure(mailbox, t) < 0)
      BY MeasureIs
    <2>2. Solves({}, 0)
      BY <2>1
    <2> HIDE DEF Solves
    <2> QED BY <2>2
  <1>2. ASSUME NEW n \in Nat, n \in N PROVE n + 1 \in N
    <2>1. PICK h : Solves(h, n)
      BY <1>2
    <2>2. \A t \in Calls : Measure(mailbox, t) < n => Good(mailbox, t, h[t])
      BY <2>1, SolutionIsGood
    <2> DEFINE g == [t \in Calls |-> IF Measure(mailbox, t) < n THEN h[t] ELSE OneCall(mailbox, h, t)]
    <2>3. \A t \in Calls : g[t] = IF Measure(mailbox, t) < n THEN h[t] ELSE OneCall(mailbox, h, t)
      OBVIOUS
    <2> HIDE DEF g
    <2>4. ASSUME NEW t \in Calls, Measure(mailbox, t) < n + 1 PROVE g[t] = OneCall(mailbox, g, t)
      <3>1. \A u \in Calls : Measure(mailbox, u) < Measure(mailbox, t) =>
                               Good(mailbox, u, h[u]) /\ g[u] = h[u]
        <4> SUFFICES ASSUME NEW u \in Calls, Measure(mailbox, u) < Measure(mailbox, t)
                     PROVE  Good(mailbox, u, h[u]) /\ g[u] = h[u]
          OBVIOUS
        <4>1. Measure(mailbox, u) < n
          <5>1. Measure(mailbox, u) \in Int /\ Measure(mailbox, t) \in Int
            BY MeasureIs
          <5> QED BY <2>4, <5>1
        <4> QED BY <2>2, <2>3, <4>1
      <3>2. OneCall(mailbox, g, t) = OneCall(mailbox, h, t)
        BY <3>1, SameCall
      <3>3. g[t] = OneCall(mailbox, h, t)
        BY <2>1, <2>3
      <3> QED BY <3>2, <3>3
    <2>5. Solves(g, n + 1)
      BY <2>4
    <2> HIDE DEF Solves
    <2> QED BY <2>5
  <1>3. Nat \subseteq N
    <2> HIDE DEF N
    <2> QED BY <1>1, <1>2, Induction
  <1> DEFINE n == 2 * maxIterations + 2
  <1>4. n \in Nat /\ \A t \in Calls : Measure(mailbox, t) < n
    BY ResolverAssumption, MeasureIs
  <1>5. PICK h : Solves(h, n)
    BY <1>3, <1>4
  <1> HIDE DEF n, N
  <1>6. \A t \in Calls : h[t] = OneCall(mailbox, h, t) /\ Good(mailbox, t, h[t])
    BY <1>4, <1>5, SolutionIsGood
  <1> DEFINE g == [t \in Calls |-> h[t]]
  <1>7. \A t \in Calls : OneCall(mailbox, g, t) = OneCall(mailbox, h, t)
    <2>1. \A t \in Calls : g[t] = h[t]
      OBVIOUS
    <2> HIDE DEF g
    <2> QED BY <1>6, <2>1, SameCall
  <1>8. g = [t \in Calls |-> OneCall(mailbox, g, t)]
    <2>1. \A t \in Calls : h[t] = OneCall(mailbox, g, t)
      BY <1>6, <1>7
    <2> HIDE DEF Solves
    <2> DEFINE one(t) == OneCall(mailbox, g, t)
    <2>2. [t \in Calls |-> h[t]] = [t \in Calls |-> one(t)]
      <3> HIDE DEF g, one
      <3>1. \A t \in Calls : h[t] = one(t)
        BY <2>1 DEF one
      <3> QED BY <3>1
    <2> QED BY <2>2
  <1> HIDE DEF g
  <1> QED BY <1>8

(* What idToPath does, for any mailbox and cache: it ends, with an error if*)
(* the folder is in a cycle, and never loses or breaks the path of another.*)
THEOREM IDToPathIsGood ==
  ASSUME NEW mailbox, IsMailbox(mailbox), NEW cache \in Caches, NEW f \in Dirs
  PROVE  Good(mailbox, [cache |-> cache, folder |-> f, depth |-> 0], IDToPath(mailbox, cache, f, 0))
  <1> DEFINE h == CHOOSE h : h = [t \in Calls |-> OneCall(mailbox, h, t)]
             t == [cache |-> cache, folder |-> f, depth |-> 0]
             n == 2 * maxIterations + 2
  <1>1. h = [u \in Calls |-> OneCall(mailbox, h, u)]
    BY SolutionExists
  <1>2. IDToPath(mailbox, cache, f, 0) = h[t]
    BY DEF IDToPath
  <1> HIDE DEF h
  <1>3. \A u \in Calls : h[u] = OneCall(mailbox, h, u)
    <2> DEFINE one(u) == OneCall(mailbox, h, u)
    <2>1. h = [u \in Calls |-> one(u)]
      BY <1>1
    <2> HIDE DEF one
    <2>2. \A u \in Calls : h[u] = one(u)
      BY <2>1
    <2> QED BY <2>2 DEF one
  <1>4. n \in Nat /\ \A u \in Calls : Measure(mailbox, u) < n
    BY ResolverAssumption, MeasureIs
  <1>5. t \in Calls
    BY ResolverAssumption DEF Calls
  <1> HIDE DEF n, t
  <1>6. Good(mailbox, t, h[t])
    BY <1>3, <1>4, <1>5, SolutionIsGood
  <1> QED BY <1>2, <1>6 DEF t

-----------------------------------------------------------------------------
(* The inductive invariant of ExchangeBackup.                              *)

(* The mailbox is a tree of folders that holds the messages; what is there *)
(* has an ID that is used.                                                 *)
MailIsGood ==
  /\ home \in [Folders -> Dirs \cup {Nowhere}] /\ title \in [Folders -> Names]
  /\ place \in [Messages -> Folders \cup {Nowhere}]
  /\ ops \in 0..MaxOps /\ version \in [Messages -> 1..ops + 1]
  /\ Forest(home)
  /\ \A f \in Existing : f \in used /\ home[f] \in Existing \cup {Root}
  /\ \A i \in Messages : place[i] # Nowhere => i \in used /\ place[i] \in Existing

(* Paths end in the folder, and continue that of another, or the root's.   *)
PathsAreGood(paths) ==
  \A f \in DOMAIN paths :
    /\ f \in Folders /\ paths[f] \in Seq(Folders) /\ paths[f] # <<>> /\ Last(paths[f]) = f
    /\ Front(paths[f]) # <<>> => \E g \in DOMAIN paths : paths[g] = Front(paths[f])

Stored(dir, i, content) == [dir |-> dir, name |-> i, content |-> content]

(* Of a folder with a token, the base has what the token stands for, and   *)
(* nothing else; an item has not left its folder but by its deletion.      *)
BaseIsGood ==
  /\ PathsAreGood(base.paths) /\ DOMAIN base.tokens \subseteq DOMAIN base.paths
  /\ \A f \in DOMAIN base.tokens :
       \A i \in DOMAIN base.tokens[f] :
         /\ i \in Messages \cap used
         /\ base.tokens[f][i] \in Nat /\ base.tokens[f][i] <= version[i]
         /\ place[i] = f /\ version[i] = base.tokens[f][i] =>
              Stored(base.paths[f], i, version[i]) \in base.snap
  /\ \A e \in base.snap :
       /\ e = Stored(e.dir, e.name, e.content) /\ e.name \in Messages \cap used
       /\ \E f \in DOMAIN base.paths :
            /\ e.dir = base.paths[f] /\ place[e.name] \in {f, Nowhere}
            /\ f \in DOMAIN base.tokens => e.name \in DOMAIN base.tokens[f]
  /\ \A d, e \in base.snap : d.dir = e.dir /\ d.name = e.name => d = e
  /\ base.snap = {Stored(d.dir, d.name, d.content) : d \in base.details}

(* With the answer a the backup has, or keeps, the item in its version.    *)
Has(f, a, i) ==
  \/ i \in a.added
  \/ /\ ~a.reset
     /\ i \in DOMAIN base.tokens[f] /\ base.tokens[f][i] = version[i] /\ i \notin a.removed

(* What holds of the enumeration of f until the backup ends: for items that*)
(* the user does not touch, and for others as far as the new token goes.   *)
AnswerIsGood(f, a) ==
  /\ a.reset \in BOOLEAN /\ a.url \in BOOLEAN
  /\ \A i \in a.added : i \in Messages \cap used /\ place[i] \in {f, Nowhere}
  /\ ~a.reset => /\ a.url /\ f \in DOMAIN base.tokens
                 /\ DOMAIN base.tokens[f] \ a.removed \subseteq DOMAIN a.token
  /\ a.url => a.added \subseteq DOMAIN a.token
  /\ \A i \in DOMAIN a.token :
       /\ i \in Messages \cap used /\ a.token[i] \in Nat /\ a.token[i] <= version[i]
       /\ a.url /\ place[i] = f /\ version[i] = a.token[i] => Has(f, a, i)
  /\ \A i \in Messages \ job.touched :
       /\ place[i] = f => Has(f, a, i)
       /\ place[i] = Nowhere /\ ~a.reset /\ i \in DOMAIN base.tokens[f] => i \in a.removed

(* The folders of C are in each other or in the root, and untouched.       *)
Closed(C) == C \subseteq Existing \ job.touched /\ \A f \in C : home[f] \in C \cup {Root}

JobIsGood ==
  /\ job = [running |-> job.running, cache |-> job.cache, todo |-> job.todo, got |-> job.got,
            touched |-> job.touched, missed |-> job.missed]
  /\ job.running \in BOOLEAN /\ (~job.running => job = IdleJob)
  /\ job.cache \in Caches /\ IsTree(job.cache)
  /\ Unpaved(job.cache) \subseteq job.todo /\ job.todo \subseteq Folders
  /\ DOMAIN job.got \subseteq Containers /\ (DOMAIN job.got # {} => job.todo = {})
  /\ \A f \in DOMAIN job.got : AnswerIsGood(f, job.got[f])
  /\ \A C \in SUBSET Folders :
       Closed(C) => \A f \in C :
         /\ job.cache[f] # Nowhere =>
              job.cache[f].up = home[f] /\ job.cache[f].name = title[f]
         /\ job.running /\ f \notin job.missed => job.cache[f] # Nowhere

IInv == MailIsGood /\ BaseIsGood /\ JobIsGood /\ ~refused

LEMMA MailboxIs == MailIsGood => IsMailbox(Mailbox) /\ DOMAIN Mailbox = Existing
  <1> SUFFICES ASSUME MailIsGood PROVE IsMailbox(Mailbox) /\ DOMAIN Mailbox = Existing
    OBVIOUS
  <1>1. \A f \in Existing : f \in Folders /\ home[f] \in Dirs /\ title[f] \in Names
    BY DEF MailIsGood, Existing, Dirs
  <1> QED BY <1>1 DEF IsMailbox, Mailbox, Existing

LEMMA IdleJobIs ==
  /\ IdleJob.cache \in Caches /\ IsTree(IdleJob.cache) /\ Unpaved(IdleJob.cache) = {}
  /\ \A f \in Folders : IdleJob.cache[f] = Nowhere
  /\ DOMAIN IdleJob.got = {} /\ IdleJob.todo = {} /\ ~IdleJob.running
  /\ IdleJob.touched = {} /\ IdleJob.missed = {} /\ IdleJob.running \in BOOLEAN
  /\ IdleJob = [running |-> IdleJob.running, cache |-> IdleJob.cache, todo |-> IdleJob.todo,
                got |-> IdleJob.got, touched |-> IdleJob.touched, missed |-> IdleJob.missed]
  <1> DEFINE c == FirstCache(None, {})
  <1>1. c = [g \in Dirs |-> IF g = Root THEN RootEntry ELSE Nowhere]
    BY DEF FirstCache
  <1>2. c[Root] = RootEntry /\ \A f \in Folders : c[f] = Nowhere
    BY <1>1, ResolverAssumption DEF Dirs
  <1>3. c \in Caches
    BY <1>1, <1>2 DEF Caches
  <1>4. Unpaved(c) = {} /\ Paved(c) \ {Root} = {}
    BY <1>2 DEF Unpaved, Paved, Dirs
  <1>5. IdleJob = [running |-> FALSE, cache |-> c, todo |-> {}, got |-> None,
                   touched |-> {}, missed |-> {}]
    BY DEF IdleJob
  <1> HIDE DEF c
  <1> QED BY <1>2, <1>3, <1>4, <1>5 DEF IsTree, None

LEMMA IdleIsGood == job = IdleJob => JobIsGood
  BY IdleJobIs DEF JobIsGood

-----------------------------------------------------------------------------
(* The user's steps.                                                       *)

(* What the user has done: what has changed is touched, if a backup runs,  *)
(* and items appear once, and go.                                          *)
UserDid(T) ==
  /\ T # {}
  /\ UNCHANGED <<base, refused>>
  /\ job' = [job EXCEPT !.touched = IF job.running THEN @ \cup T ELSE @]
  /\ used \subseteq used'
  /\ \A f \in Folders \ T : home'[f] = home[f] /\ title'[f] = title[f]
  /\ \A i \in Messages \ T : place'[i] = place[i] /\ version'[i] = version[i]
  /\ \A i \in Messages :
       /\ version[i] <= version'[i]
       /\ place'[i] = place[i] \/ place'[i] = Nowhere \/ i \notin used

(* Nothing is in a folder that is not there.                               *)
LEMMA BelowNothing ==
  ASSUME MailIsGood, NEW f \in Folders \ Existing
  PROVE  Below(home, f) = {}
  <1> SUFFICES ASSUME Below(home, f) # {} PROVE FALSE
    OBVIOUS
  <1>1. DOMAIN home = Folders /\ Forest(home) /\ Below(home, f) \in SUBSET Folders
    BY BelowIs DEF MailIsGood
  <1>2. PICK z \in Below(home, f) : home[z] \notin Below(home, f)
    BY <1>1 DEF Forest
  <1>3. z \in Folders /\ home[z] = f
    BY <1>1, <1>2, BelowIs
  <1>4. home[z] # Nowhere
    BY <1>3, ResolverAssumption DEF Dirs
  <1>5. home[z] \in Existing \cup {Root}
    BY <1>3, <1>4 DEF MailIsGood, Existing
  <1> QED BY <1>3, <1>5, ResolverAssumption

LEMMA PutFolderIs ==
  ASSUME MailIsGood, NEW f \in Folders, NEW up, NEW n \in Names, PutFolder(f, up, n)
  PROVE  MailIsGood' /\ UserDid({f})
  <1>0. /\ home \in [Folders -> Dirs \cup {Nowhere}] /\ title \in [Folders -> Names]
        /\ ops \in 0..MaxOps /\ version \in [Messages -> 1..ops + 1] /\ ops < MaxOps
        /\ MaxOps \in Nat /\ ops' = ops + 1
    BY ExchangeAssumption DEF MailIsGood, PutFolder, Touch
  <1>1. /\ f \notin used /\ up \in Existing \cup {Root} /\ used' = used \cup {f}
        /\ home' = [home EXCEPT ![f] = up] /\ title' = [title EXCEPT ![f] = n]
        /\ place' = place /\ version' = version
    BY DEF PutFolder
  <1>2. f \notin Existing /\ f # Root /\ f # Nowhere /\ up # Nowhere /\ up \in Dirs
    BY <1>1, ResolverAssumption DEF MailIsGood, Existing, Dirs
  <1>3. home'[f] = up /\ \A g \in Folders \ {f} : home'[g] = home[g]
    BY <1>0, <1>1
  <1>4. Existing' = Existing \cup {f}
    BY <1>2, <1>3 DEF Existing
  <1>5. Forest(home')
    <2>1. up # f /\ up \notin Below(home, f)
      BY <1>1, <1>2, BelowNothing
    <2>2. DOMAIN home = Folders /\ DOMAIN home' = Folders /\ Forest(home)
      BY <1>0, <1>1 DEF MailIsGood
    <2> QED BY <1>3, <2>1, <2>2, ForestMove
  <1>6. /\ home' \in [Folders -> Dirs \cup {Nowhere}] /\ title' \in [Folders -> Names]
        /\ ops' \in 0..MaxOps /\ version' \in [Messages -> 1..ops' + 1]
    <2>1. 1..ops + 1 \subseteq 1..ops' + 1
      BY <1>0
    <2> QED BY <1>0, <1>1, <1>2, <2>1
  <1>7. \A g \in Existing' : g \in used' /\ home'[g] \in Existing' \cup {Root}
    BY <1>1, <1>3, <1>4 DEF MailIsGood
  <1>8. \A i \in Messages : place'[i] # Nowhere => i \in used' /\ place'[i] \in Existing'
    BY <1>1, <1>4 DEF MailIsGood
  <1>9. MailIsGood'
    BY <1>1, <1>5, <1>6, <1>7, <1>8 DEF MailIsGood
  <1>10. UserDid({f})
    <2>1. \A i \in Messages : version[i] \in Int
      BY <1>0
    <2> QED BY <1>0, <1>1, <1>3, <2>1 DEF UserDid, PutFolder, Touch
  <1> QED BY <1>9, <1>10

LEMMA MoveFolderIs ==
  ASSUME MailIsGood, NEW f \in Folders, NEW up, NEW n \in Names, MoveFolder(f, up, n)
  PROVE  MailIsGood' /\ UserDid({f})
  <1>0. /\ home \in [Folders -> Dirs \cup {Nowhere}] /\ title \in [Folders -> Names]
        /\ ops \in 0..MaxOps /\ version \in [Messages -> 1..ops + 1] /\ ops < MaxOps
        /\ MaxOps \in Nat /\ ops' = ops + 1
    BY ExchangeAssumption DEF MailIsGood, MoveFolder, Touch
  <1>1. /\ f \in Existing /\ up \in Existing \cup {Root} /\ up # f /\ up \notin Below(home, f)
        /\ home' = [home EXCEPT ![f] = up] /\ title' = [title EXCEPT ![f] = n]
        /\ place' = place /\ version' = version /\ used' = used
    BY DEF MoveFolder, Inside
  <1>2. up # Nowhere /\ up \in Dirs
    BY <1>1, ResolverAssumption DEF Existing, Dirs
  <1>3. home'[f] = up /\ \A g \in Folders \ {f} : home'[g] = home[g]
    BY <1>0, <1>1
  <1>4. Existing' = Existing
    BY <1>1, <1>2, <1>3 DEF Existing
  <1>5. Forest(home')
    <2>1. DOMAIN home = Folders /\ DOMAIN home' = Folders /\ Forest(home)
      BY <1>0, <1>1 DEF MailIsGood
    <2> QED BY <1>1, <1>3, <2>1, ForestMove
  <1>6. /\ home' \in [Folders -> Dirs \cup {Nowhere}] /\ title' \in [Folders -> Names]
        /\ ops' \in 0..MaxOps /\ version' \in [Messages -> 1..ops' + 1]
    <2>1. 1..ops + 1 \subseteq 1..ops' + 1
      BY <1>0
    <2> QED BY <1>0, <1>1, <1>2, <2>1
  <1>7. \A g \in Existing' : g \in used' /\ home'[g] \in Existing' \cup {Root}
    <2>1. \A g \in Existing : g = f \/ home'[g] = home[g]
      BY <1>3 DEF Existing
    <2> QED BY <1>1, <1>3, <1>4, <2>1 DEF MailIsGood
  <1>8. \A i \in Messages : place'[i] # Nowhere => i \in used' /\ place'[i] \in Existing'
    BY <1>1, <1>4 DEF MailIsGood
  <1>9. MailIsGood'
    BY <1>1, <1>5, <1>6, <1>7, <1>8 DEF MailIsGood
  <1>10. UserDid({f})
    <2>1. \A i \in Messages : version[i] \in Int
      BY <1>0
    <2> QED BY <1>0, <1>1, <1>3, <2>1 DEF UserDid, MoveFolder, Touch
  <1> QED BY <1>9, <1>10

LEMMA DeleteFolderIs ==
  ASSUME MailIsGood, NEW f \in Folders, DeleteFolder(f)
  PROVE  MailIsGood' /\ \E T : UserDid(T)
  <1> DEFINE gone == Inside(f)
             T == gone \cup {i \in Messages : place[i] \in gone}
  <1>0. /\ home \in [Folders -> Dirs \cup {Nowhere}] /\ title \in [Folders -> Names]
        /\ place \in [Messages -> Folders \cup {Nowhere}]
        /\ ops \in 0..MaxOps /\ version \in [Messages -> 1..ops + 1] /\ ops < MaxOps
        /\ MaxOps \in Nat /\ ops' = ops + 1
    BY ExchangeAssumption DEF MailIsGood, DeleteFolder, Touch
  <1>1. /\ home' = [g \in Folders |-> IF g \in gone THEN Nowhere ELSE home[g]]
        /\ place' = [i \in Messages |-> IF place[i] \in gone THEN Nowhere ELSE place[i]]
        /\ title' = title /\ version' = version /\ used' = used
    BY DEF DeleteFolder
  <1>2. /\ gone \subseteq Folders /\ f \in gone
        /\ \A g \in Folders : home[g] \in gone => g \in gone
    <2>1. DOMAIN home = Folders
      BY <1>0
    <2> QED BY <2>1, BelowIs DEF Inside
  <1>3. UserDid(T)
    <2>1. \A i \in Messages : version[i] \in Int
      BY <1>0
    <2>2. job' = [job EXCEPT !.touched = IF job.running THEN @ \cup T ELSE @] /\ UNCHANGED <<base, refused>>
      BY DEF DeleteFolder, Touch
    <2> HIDE DEF gone
    <2>3. \A g \in Folders \ T : home'[g] = home[g]
      BY <1>1
    <2>4. \A i \in Messages \ T : place'[i] = place[i]
      BY <1>1
    <2>5. \A i \in Messages : place'[i] = place[i] \/ place'[i] = Nowhere
      BY <1>1
    <2>6. T # {}
      BY <1>2
    <2> HIDE DEF T
    <2> QED BY <1>1, <2>1, <2>2, <2>3, <2>4, <2>5, <2>6 DEF UserDid
  <1> HIDE DEF gone
  <1>4. \A g \in Folders : home'[g] = IF g \in gone THEN Nowhere ELSE home[g]
    BY <1>1
  <1>5. Existing' = Existing \ gone
    BY <1>4 DEF Existing
  <1>6. Forest(home')
    <2>1. DOMAIN home = Folders /\ DOMAIN home' = Folders /\ Forest(home)
      BY <1>0, <1>1 DEF MailIsGood
    <2> QED BY <1>4, <2>1, ForestCut, ResolverAssumption DEF Dirs
  <1>7. /\ home' \in [Folders -> Dirs \cup {Nowhere}] /\ place' \in [Messages -> Folders \cup {Nowhere}]
        /\ ops' \in 0..MaxOps /\ version' \in [Messages -> 1..ops' + 1]
    <2>1. 1..ops + 1 \subseteq 1..ops' + 1
      BY <1>0
    <2>2. home' \in [Folders -> Dirs \cup {Nowhere}] /\ place' \in [Messages -> Folders \cup {Nowhere}]
      BY <1>0, <1>1
    <2> QED BY <1>0, <1>1, <2>1, <2>2
  <1>8. \A g \in Existing' : g \in used' /\ home'[g] \in Existing' \cup {Root}
    <2>1. \A g \in Existing' : g \in Existing /\ g \in Folders /\ g \notin gone /\ home'[g] = home[g]
      BY <1>4, <1>5 DEF Existing
    <2>2. \A g \in Existing' : home[g] \notin gone
      BY <1>2, <2>1
    <2> QED BY <1>1, <1>5, <2>1, <2>2 DEF MailIsGood
  <1>9. \A i \in Messages : place'[i] # Nowhere => i \in used' /\ place'[i] \in Existing'
    <2>1. \A i \in Messages : place'[i] # Nowhere => place[i] = place'[i] /\ place[i] \notin gone
      BY <1>1
    <2> QED BY <1>1, <1>5, <2>1 DEF MailIsGood
  <1>10. MailIsGood'
    BY <1>0, <1>1, <1>6, <1>7, <1>8, <1>9 DEF MailIsGood
  <1> HIDE DEF T
  <1> QED BY <1>3, <1>10

LEMMA ItemsAre ==
  ASSUME MailIsGood, NEW i \in Messages,
         (\E f \in Folders : PutItem(i, f)) \/ EditItem(i) \/ RemoveItem(i)
  PROVE  MailIsGood' /\ UserDid({i})
  <1>0. /\ place \in [Messages -> Folders \cup {Nowhere}]
        /\ ops \in 0..MaxOps /\ version \in [Messages -> 1..ops + 1] /\ ops < MaxOps
        /\ MaxOps \in Nat /\ ops' = ops + 1
    BY ExchangeAssumption DEF MailIsGood, PutItem, EditItem, RemoveItem, Touch
  <1>1. /\ home' = home /\ title' = title /\ used \subseteq used'
        /\ job' = [job EXCEPT !.touched = IF job.running THEN @ \cup {i} ELSE @]
        /\ UNCHANGED <<base, refused>>
    BY DEF PutItem, EditItem, RemoveItem, Touch
  <1>2. Existing' = Existing
    BY <1>1 DEF Existing
  <1>3. /\ place' \in [Messages -> Folders \cup {Nowhere}]
        /\ \A j \in Messages \ {i} : place'[j] = place[j]
        /\ \/ place'[i] = place[i] \/ place'[i] = Nowhere
           \/ i \notin used /\ i \in used' /\ place'[i] \in Existing
    <2>1. CASE \E f \in Folders : PutItem(i, f)
      <3>1. PICK f \in Folders : PutItem(i, f)
        BY <2>1
      <3> QED BY <1>0, <3>1 DEF PutItem
    <2>2. CASE EditItem(i)
      BY <1>0, <2>2 DEF EditItem
    <2>3. CASE RemoveItem(i)
      BY <1>0, <2>3 DEF RemoveItem
    <2> QED BY <2>1, <2>2, <2>3
  <1>4. /\ version' \in [Messages -> 1..ops' + 1]
        /\ \A j \in Messages \ {i} : version'[j] = version[j]
        /\ \A j \in Messages : version[j] <= version'[j]
    <2>1. 1..ops + 1 \subseteq 1..ops' + 1 /\ \A j \in Messages : version[j] \in 1..ops + 1
      BY <1>0
    <2>2. CASE version' = version
      BY <1>0, <2>1, <2>2
    <2>3. CASE version' = [version EXCEPT ![i] = @ + 1]
      <3>1. version'[i] = version[i] + 1 /\ \A j \in Messages \ {i} : version'[j] = version[j]
        BY <1>0, <2>3
      <3>2. version[i] + 1 \in 1..ops' + 1
        BY <1>0, <2>1
      <3>3. version' \in [Messages -> 1..ops' + 1]
        BY <1>0, <2>1, <2>3, <3>2
      <3>4. \A j \in Messages : version[j] <= version'[j]
        BY <2>1, <3>1
      <3> QED BY <3>1, <3>3, <3>4
    <2> QED BY <2>2, <2>3 DEF PutItem, EditItem, RemoveItem
  <1>5. \A j \in Messages : place'[j] # Nowhere => j \in used' /\ place'[j] \in Existing'
    BY <1>1, <1>2, <1>3 DEF MailIsGood
  <1>6. MailIsGood'
    BY <1>0, <1>1, <1>2, <1>3, <1>4, <1>5 DEF MailIsGood
  <1> QED BY <1>1, <1>3, <1>4, <1>6 DEF UserDid

LEMMA UserIs == MailIsGood /\ User => MailIsGood' /\ \E T : UserDid(T)
  <1> SUFFICES ASSUME MailIsGood, User PROVE MailIsGood' /\ \E T : UserDid(T)
    OBVIOUS
  <1>1. CASE \E f \in Folders, up \in Folders \cup {Root}, n \in Names :
               PutFolder(f, up, n) \/ MoveFolder(f, up, n)
    BY <1>1, PutFolderIs, MoveFolderIs
  <1>2. CASE \E f \in Folders : DeleteFolder(f)
    BY <1>2, DeleteFolderIs
  <1>3. CASE \E i \in Messages : (\E f \in Folders : PutItem(i, f)) \/ EditItem(i) \/ RemoveItem(i)
    BY <1>3, ItemsAre
  <1> QED BY <1>1, <1>2, <1>3 DEF User

LEMMA IdleKeeps == job' = IdleJob => JobIsGood'
  BY IdleJobIs DEF JobIsGood

LEMMA UserKeepsBase ==
  ASSUME IInv, MailIsGood', NEW T, UserDid(T)
  PROVE  BaseIsGood'
  <1>0. base' = base /\ used \subseteq used' /\ BaseIsGood
    BY DEF IInv, UserDid
  <1>1. \A i \in Messages :
          /\ version[i] \in Int /\ version'[i] \in Int /\ version[i] <= version'[i]
          /\ place'[i] = place[i] \/ place'[i] = Nowhere \/ i \notin used
    BY ExchangeAssumption DEF IInv, MailIsGood, UserDid
  <1>2. DOMAIN base.tokens \subseteq Folders /\ DOMAIN base.paths \subseteq Folders
    BY <1>0 DEF BaseIsGood, PathsAreGood
  <1>3. Nowhere \notin Folders
    BY ResolverAssumption DEF Dirs
  <1>4. ASSUME NEW f \in DOMAIN base.tokens, NEW i \in DOMAIN base.tokens[f]
        PROVE  /\ i \in Messages \cap used' /\ base.tokens[f][i] \in Nat
               /\ base.tokens[f][i] <= version'[i]
               /\ place'[i] = f /\ version'[i] = base.tokens[f][i] =>
                    Stored(base.paths[f], i, version'[i]) \in base.snap
    <2>1. /\ i \in Messages \cap used
          /\ base.tokens[f][i] \in Nat /\ base.tokens[f][i] <= version[i]
          /\ place[i] = f /\ version[i] = base.tokens[f][i] =>
               Stored(base.paths[f], i, version[i]) \in base.snap
      BY <1>0 DEF BaseIsGood
    <2>2. base.tokens[f][i] <= version'[i]
      BY <1>1, <2>1
    <2>3. version'[i] = base.tokens[f][i] => version[i] = version'[i]
      BY <1>1, <2>1
    <2>4. place'[i] = f => place[i] = f
      BY <1>1, <1>2, <1>3, <2>1
    <2> QED BY <1>0, <2>1, <2>2, <2>3, <2>4
  <1>5. ASSUME NEW e \in base.snap
        PROVE  /\ e = Stored(e.dir, e.name, e.content) /\ e.name \in Messages \cap used'
               /\ \E f \in DOMAIN base.paths :
                    /\ e.dir = base.paths[f] /\ place'[e.name] \in {f, Nowhere}
                    /\ f \in DOMAIN base.tokens => e.name \in DOMAIN base.tokens[f]
    <2>1. /\ e = Stored(e.dir, e.name, e.content) /\ e.name \in Messages \cap used
          /\ \E f \in DOMAIN base.paths :
               /\ e.dir = base.paths[f] /\ place[e.name] \in {f, Nowhere}
               /\ f \in DOMAIN base.tokens => e.name \in DOMAIN base.tokens[f]
      BY <1>0 DEF BaseIsGood
    <2>2. \A f : place[e.name] \in {f, Nowhere} => place'[e.name] \in {f, Nowhere}
      BY <1>1, <2>1
    <2> QED BY <1>0, <2>1, <2>2
  <1> QED BY <1>0, <1>4, <1>5 DEF BaseIsGood, Stored

(* An answer stays good: what the user changes is touched, and newer.      *)
LEMMA UserKeepsAnswer ==
  ASSUME IInv, MailIsGood', NEW T, UserDid(T), job.running,
         NEW f \in Folders, NEW a, AnswerIsGood(f, a)
  PROVE  AnswerIsGood(f, a)'
  <1>0. base' = base /\ used \subseteq used' /\ job'.touched = job.touched \cup T
    BY DEF IInv, UserDid, JobIsGood
  <1>1. \A i \in Messages :
          /\ version[i] \in Int /\ version'[i] \in Int /\ version[i] <= version'[i]
          /\ place'[i] = place[i] \/ place'[i] = Nowhere \/ i \notin used
    BY ExchangeAssumption DEF IInv, MailIsGood, UserDid
  <1>2. Nowhere \notin Folders
    BY ResolverAssumption DEF Dirs
  <1>3. \A i \in Messages \ job'.touched :
          i \in Messages \ job.touched /\ place'[i] = place[i] /\ version'[i] = version[i]
    BY <1>0 DEF UserDid
  <1>4. \A i : version'[i] = version[i] /\ Has(f, a, i) => Has(f, a, i)'
    BY <1>0 DEF Has
  <1>5. ASSUME NEW i \in a.added
        PROVE  i \in Messages \cap used' /\ place'[i] \in {f, Nowhere}
    BY <1>0, <1>1 DEF AnswerIsGood
  <1>6. ASSUME NEW i \in DOMAIN a.token
        PROVE  /\ i \in Messages \cap used' /\ a.token[i] \in Nat /\ a.token[i] <= version'[i]
               /\ a.url /\ place'[i] = f /\ version'[i] = a.token[i] => Has(f, a, i)'
    <2>1. /\ i \in Messages \cap used /\ a.token[i] \in Nat /\ a.token[i] <= version[i]
          /\ a.url /\ place[i] = f /\ version[i] = a.token[i] => Has(f, a, i)
      BY DEF AnswerIsGood
    <2>2. a.token[i] <= version'[i]
      BY <1>1, <2>1
    <2>3. version'[i] = a.token[i] => version'[i] = version[i]
      BY <1>1, <2>1
    <2>4. place'[i] = f => place[i] = f
      BY <1>1, <1>2, <2>1
    <2> QED BY <1>0, <1>4, <2>1, <2>2, <2>3, <2>4
  <1>7. ASSUME NEW i \in Messages \ job'.touched
        PROVE  /\ place'[i] = f => Has(f, a, i)'
               /\ place'[i] = Nowhere /\ ~a.reset /\ i \in DOMAIN base.tokens[f] => i \in a.removed
    BY <1>3, <1>4 DEF AnswerIsGood
  <1>8. /\ a.reset \in BOOLEAN /\ a.url \in BOOLEAN
        /\ ~a.reset => /\ a.url /\ f \in DOMAIN base.tokens
                       /\ DOMAIN base.tokens[f] \ a.removed \subseteq DOMAIN a.token
        /\ a.url => a.added \subseteq DOMAIN a.token
    BY DEF AnswerIsGood
  <1> QED BY <1>0, <1>5, <1>6, <1>7, <1>8 DEF AnswerIsGood

LEMMA UserKeepsJob ==
  ASSUME IInv, MailIsGood', NEW T, UserDid(T)
  PROVE  JobIsGood'
  <1>0. JobIsGood
    BY DEF IInv
  <1>1. CASE ~job.running
    <2>1. job = IdleJob
      BY <1>0, <1>1 DEF JobIsGood
    <2>2. job' = [job EXCEPT !.touched = @]
      BY <1>1 DEF UserDid
    <2>3. job' = IdleJob
      BY <2>1, <2>2, IdleJobIs
    <2> QED BY <2>3, IdleKeeps
  <1>2. CASE job.running
    <2>1. job' = [running |-> TRUE, cache |-> job.cache, todo |-> job.todo, got |-> job.got,
                  touched |-> job.touched \cup T, missed |-> job.missed]
      <3>1. job = [running |-> job.running, cache |-> job.cache, todo |-> job.todo,
                   got |-> job.got, touched |-> job.touched, missed |-> job.missed]
        BY <1>0 DEF JobIsGood
      <3>2. job' = [job EXCEPT !.touched = @ \cup T]
        BY <1>2 DEF UserDid
      <3> QED BY <1>2, <3>1, <3>2
    <2>2. /\ job'.running /\ job'.cache = job.cache /\ job'.todo = job.todo
          /\ job'.got = job.got /\ job'.touched = job.touched \cup T /\ job'.missed = job.missed
      BY <2>1
    <2>3. Containers' = Containers
      BY <2>2 DEF Containers
    <2>4. \A f \in DOMAIN job.got : AnswerIsGood(f, job.got[f])'
      <3>1. DOMAIN job.got \subseteq Folders
        BY <1>0 DEF JobIsGood, Containers, InCache, Dirs
      <3>2. \A f \in DOMAIN job.got : AnswerIsGood(f, job.got[f])
        BY <1>0 DEF JobIsGood
      <3>3. ASSUME NEW f \in DOMAIN job.got, NEW a, a = job.got[f]
            PROVE  AnswerIsGood(f, a)'
        BY <1>2, <3>1, <3>2, <3>3, UserKeepsAnswer
      <3> QED BY <2>2, <3>3
    <2>5. ASSUME NEW C \in SUBSET Folders, Closed(C)'
          PROVE  Closed(C) /\ \A f \in C : home'[f] = home[f] /\ title'[f] = title[f]
      <3>1. \A f \in C : f \in Folders \ T /\ f \notin job.touched /\ home'[f] # Nowhere
        BY <2>2, <2>5 DEF Closed, Existing
      <3>2. \A f \in C : home'[f] = home[f] /\ title'[f] = title[f]
        BY <3>1 DEF UserDid
      <3> QED BY <2>5, <3>1, <3>2 DEF Closed, Existing
    <2>6. \A C \in SUBSET Folders :
            Closed(C)' => \A f \in C :
              /\ job'.cache[f] # Nowhere =>
                   job'.cache[f].up = home'[f] /\ job'.cache[f].name = title'[f]
              /\ job'.running /\ f \notin job'.missed => job'.cache[f] # Nowhere
      BY <1>0, <1>2, <2>2, <2>5 DEF JobIsGood
    <2>7. /\ job.cache \in Caches /\ IsTree(job.cache)
          /\ Unpaved(job.cache) \subseteq job.todo /\ job.todo \subseteq Folders
          /\ DOMAIN job.got \subseteq Containers /\ (DOMAIN job.got # {} => job.todo = {})
      BY <1>0 DEF JobIsGood
    <2>8. job' = [running |-> job'.running, cache |-> job'.cache, todo |-> job'.todo,
                  got |-> job'.got, touched |-> job'.touched, missed |-> job'.missed]
      BY <2>1, <2>2
    <2> QED BY <2>2, <2>3, <2>4, <2>6, <2>7, <2>8 DEF JobIsGood
  <1> QED BY <1>0, <1>1, <1>2 DEF JobIsGood

LEMMA UserKeeps ==
  ASSUME IInv, User
  PROVE  IInv'
  <1>1. MailIsGood' /\ \E T : UserDid(T)
    BY UserIs DEF IInv
  <1>2. PICK T : UserDid(T)
    BY <1>1
  <1>3. ~refused'
    BY <1>2 DEF IInv, UserDid
  <1> QED BY <1>1, <1>2, <1>3, UserKeepsBase, UserKeepsJob DEF IInv

-----------------------------------------------------------------------------
(* The beginning, and the steps of a backup but the last.                  *)

LEMMA InitIInv == Init => IInv
  <1> SUFFICES ASSUME Init PROVE IInv
    OBVIOUS
  <1>1. PICK m \in FirstMailboxes :
          /\ home = m.home /\ title = m.title /\ place = m.place
          /\ used = {x \in DOMAIN m.home : m.home[x] # Nowhere}
                      \cup {i \in Messages : m.place[i] # Nowhere}
    BY DEF Init
  <1>2. Existing = {f \in Folders : m.home[f] # Nowhere}
    BY <1>1 DEF Existing
  <1>3. /\ home \in [Folders -> Dirs \cup {Nowhere}] /\ title \in [Folders -> Names]
        /\ place \in [Messages -> Folders \cup {Nowhere}] /\ Forest(home)
        /\ \A f \in Existing : home[f] \in Existing \cup {Root}
        /\ \A i \in Messages : place[i] \in Existing \cup {Nowhere}
    BY <1>1, <1>2, ExchangeAssumption
  <1>4. /\ \A f \in Existing : f \in used
        /\ \A i \in Messages : place[i] # Nowhere => i \in used
    BY <1>1, <1>3 DEF Existing
  <1>5. ops \in 0..MaxOps /\ version \in [Messages -> 1..ops + 1]
    BY ExchangeAssumption DEF Init
  <1>6. MailIsGood
    BY <1>3, <1>4, <1>5 DEF MailIsGood
  <1>7. BaseIsGood
    <2>1. base = NoBase
      BY DEF Init
    <2>2. /\ DOMAIN base.paths = {} /\ DOMAIN base.tokens = {}
          /\ base.snap = {} /\ base.details = {}
      BY <2>1 DEF NoBase, None
    <2> QED BY <2>2 DEF BaseIsGood, PathsAreGood
  <1>8. JobIsGood /\ ~refused
    BY IdleIsGood DEF Init
  <1> QED BY <1>6, <1>7, <1>8 DEF IInv

(* Only the job has changed.                                               *)
LEMMA JobKeeps ==
  ASSUME IInv, UNCHANGED <<mailVars, base, refused>>
  PROVE  MailIsGood' /\ BaseIsGood' /\ ~refused' /\ Existing' = Existing
  <1>1. UNCHANGED <<home, title, place, version, used, ops, base, refused>>
    BY DEF mailVars
  <1>2. Existing' = Existing
    BY <1>1 DEF Existing
  <1> QED BY <1>1, <1>2 DEF IInv, MailIsGood, BaseIsGood

LEMMA StartKeeps ==
  ASSUME IInv, NEW missed, StartBackup(missed)
  PROVE  IInv'
  <1> DEFINE c == FirstCache(Mailbox, Existing \ missed)
  <1>1. /\ UNCHANGED <<mailVars, base, refused>> /\ missed \subseteq Existing
        /\ job' = [running |-> TRUE, cache |-> c, todo |-> Existing \ missed, got |-> None,
                   touched |-> {}, missed |-> missed]
    BY DEF StartBackup, IdleJob
  <1>2. /\ MailIsGood' /\ BaseIsGood' /\ ~refused' /\ Existing' = Existing
        /\ home' = home /\ title' = title
    BY <1>1, JobKeeps DEF mailVars
  <1>3. IsMailbox(Mailbox) /\ DOMAIN Mailbox = Existing
    BY MailboxIs DEF IInv
  <1>4. \A f \in Existing : Unresolved(Mailbox[f]) = Fresh(Mailbox, f)
    BY DEF Unresolved, Fresh
  <1>5. /\ c \in [Dirs -> {RootEntry, Nowhere} \cup {Fresh(Mailbox, f) : f \in Existing}]
        /\ c[Root] = RootEntry
        /\ \A f \in Existing \ missed : c[f] = Fresh(Mailbox, f)
        /\ \A f \in Folders \ (Existing \ missed) : c[f] = Nowhere
    BY <1>4, ResolverAssumption DEF FirstCache, Dirs, Existing
  <1>6. \A f \in Existing : /\ Fresh(Mailbox, f) \in Entries /\ Fresh(Mailbox, f).path = Nowhere
                            /\ Fresh(Mailbox, f).up = home[f] /\ Fresh(Mailbox, f).name = title[f]
                            /\ Fresh(Mailbox, f) # Nowhere
    BY <1>3, FreshIs DEF Mailbox
  <1> HIDE DEF c
  <1>7. c \in Caches
    BY <1>5, <1>6 DEF Caches
  <1>8. Paved(c) \subseteq {Root} /\ Unpaved(c) \subseteq Existing \ missed
    BY <1>5, <1>6 DEF Paved, Unpaved, Dirs
  <1>9. IsTree(c)
    BY <1>8 DEF IsTree
  <1>10. ASSUME NEW C \in SUBSET Folders, Closed(C)', NEW f \in C
         PROVE  /\ c[f] # Nowhere => c[f].up = home[f] /\ c[f].name = title[f]
                /\ f \notin missed => c[f] # Nowhere
    BY <1>2, <1>5, <1>6, <1>10 DEF Closed
  <1>11. JobIsGood'
    <2>1. /\ job'.running /\ job'.cache = c /\ job'.todo = Existing \ missed
          /\ DOMAIN job'.got = {} /\ job'.missed = missed
          /\ job' = [running |-> job'.running, cache |-> job'.cache, todo |-> job'.todo,
                     got |-> job'.got, touched |-> job'.touched, missed |-> job'.missed]
      BY <1>1 DEF None
    <2>2. Existing \subseteq Folders
      BY DEF Existing
    <2> QED BY <1>2, <1>7, <1>8, <1>9, <1>10, <2>1, <2>2 DEF JobIsGood
  <1> QED BY <1>2, <1>11 DEF IInv

LEMMA ClosedKnows ==
  ASSUME IInv, NEW C \in SUBSET Folders, Closed(C)
  PROVE  C \in SUBSET DOMAIN Mailbox /\ Knows(Mailbox, C, job.cache)
  <1>1. C \in SUBSET Existing /\ \A f \in C : home[f] \in C \cup {Root}
    BY DEF Closed
  <1>2. \A f \in C : job.cache[f] # Nowhere =>
                       job.cache[f].up = home[f] /\ job.cache[f].name = title[f]
    BY DEF IInv, JobIsGood
  <1> QED BY <1>1, <1>2 DEF Knows, Mailbox

LEMMA ResolveKeeps ==
  ASSUME IInv, NEW f, ResolvePath(f)
  PROVE  IInv'
  <1> DEFINE r == IDToPath(Mailbox, job.cache, f, 0)
             t == [cache |-> job.cache, folder |-> f, depth |-> 0]
  <1>0. JobIsGood /\ IsMailbox(Mailbox) /\ DOMAIN Mailbox = Existing
    BY MailboxIs DEF IInv
  <1>1. /\ UNCHANGED <<mailVars, base, refused>> /\ f \in job.todo
        /\ job' = IF r.err THEN IdleJob ELSE [job EXCEPT !.cache = r.cache, !.todo = @ \ {f}]
    BY DEF ResolvePath
  <1>2. /\ MailIsGood' /\ BaseIsGood' /\ ~refused' /\ Existing' = Existing
        /\ home' = home /\ title' = title
    BY <1>1, JobKeeps DEF mailVars
  <1>3. f \in Folders /\ f \in Dirs /\ job.cache \in Caches /\ DOMAIN job.got = {}
    BY <1>0, <1>1 DEF JobIsGood, Dirs
  <1>4. Good(Mailbox, t, r)
    BY <1>0, <1>3, IDToPathIsGood
  <1>5. t.cache = job.cache /\ t.folder = f
    OBVIOUS
  <1> HIDE DEF r, t
  <1>6. CASE r.err
    BY <1>1, <1>2, <1>6, IdleKeeps DEF IInv
  <1>7. CASE ~r.err
    <2>1. Follows(Mailbox, t, r.cache) /\ f \notin Unpaved(r.cache)
      BY <1>4, <1>5, <1>7 DEF Good
    <2>2. r.cache \in Caches /\ IsTree(r.cache)
      BY <1>0, <1>5, <2>1 DEF Follows, JobIsGood
    <2>3. Unpaved(r.cache) \subseteq job.todo \ {f}
      BY <1>0, <1>5, <2>1 DEF Follows, JobIsGood
    <2>4. ASSUME NEW C \in SUBSET Folders, Closed(C), NEW g \in C
          PROVE  /\ r.cache[g] # Nowhere => r.cache[g].up = home[g] /\ r.cache[g].name = title[g]
                 /\ job.running /\ g \notin job.missed => r.cache[g] # Nowhere
      <3>1. C \in SUBSET DOMAIN Mailbox /\ Knows(Mailbox, C, t.cache)
        BY <1>5, <2>4, ClosedKnows
      <3>2. Knows(Mailbox, C, r.cache) /\ (t.cache[g] # Nowhere => r.cache[g] # Nowhere)
        BY <2>1, <3>1 DEF Follows
      <3>3. Mailbox[g].up = home[g] /\ Mailbox[g].name = title[g]
        BY <3>1 DEF Mailbox
      <3>4. job.running /\ g \notin job.missed => job.cache[g] # Nowhere
        BY <1>0, <2>4 DEF JobIsGood
      <3> QED BY <1>5, <3>2, <3>3, <3>4 DEF Knows
    <2>5. job' = [running |-> job.running, cache |-> r.cache, todo |-> job.todo \ {f},
                  got |-> job.got, touched |-> job.touched, missed |-> job.missed]
      <3>1. job = [running |-> job.running, cache |-> job.cache, todo |-> job.todo,
                   got |-> job.got, touched |-> job.touched, missed |-> job.missed]
        BY <1>0 DEF JobIsGood
      <3> QED BY <1>1, <1>7, <3>1
    <2>6. /\ job'.running = job.running /\ job'.cache = r.cache /\ job'.todo = job.todo \ {f}
          /\ job'.got = job.got /\ job'.touched = job.touched /\ job'.missed = job.missed
          /\ job' = [running |-> job'.running, cache |-> job'.cache, todo |-> job'.todo,
                     got |-> job'.got, touched |-> job'.touched, missed |-> job'.missed]
      BY <2>5
    <2>7. job.running \in BOOLEAN /\ job.running /\ job.todo \subseteq Folders
      BY <1>0, <1>1, IdleJobIs DEF JobIsGood
    <2>8. \A C \in SUBSET Folders : Closed(C)' => Closed(C)
      BY <1>2, <2>6 DEF Closed
    <2>9. \A C \in SUBSET Folders :
            Closed(C)' => \A g \in C :
              /\ job'.cache[g] # Nowhere =>
                   job'.cache[g].up = home'[g] /\ job'.cache[g].name = title'[g]
              /\ job'.running /\ g \notin job'.missed => job'.cache[g] # Nowhere
      BY <1>2, <2>4, <2>6, <2>8
    <2>10. JobIsGood'
      BY <1>3, <2>2, <2>3, <2>6, <2>7, <2>9 DEF JobIsGood
    <2> QED BY <1>2, <2>10 DEF IInv
  <1> QED BY <1>6, <1>7

(* Each of the three answers.                                              *)
LEMMA EnumerationIsGood ==
  ASSUME IInv, NEW f \in Folders, NEW expired \in BOOLEAN, NEW url \in BOOLEAN
  PROVE  AnswerIsGood(f, EnumerationOf(f, expired, url))
  <1> DEFINE now == Content(f)
             old == base.tokens[f]
  <1>1. /\ DOMAIN now = {i \in Messages : place[i] = f}
        /\ \A i \in DOMAIN now : now[i] = version[i]
    BY DEF Content
  <1>2. /\ \A i \in Messages : version[i] \in Nat /\ version[i] <= version[i]
        /\ \A i \in Messages : place[i] # Nowhere => i \in used /\ place[i] \in Existing
        /\ f # Nowhere
    BY ExchangeAssumption, ResolverAssumption DEF IInv, MailIsGood, Dirs
  <1>3. DOMAIN None = {}
    BY DEF None
  <1> HIDE DEF now
  <1>4. CASE f \notin Existing
    <2> DEFINE a == NotFound
    <2>1. a.added = {} /\ a.removed = {} /\ a.reset = TRUE /\ a.url = FALSE /\ a.token = None
      BY DEF NotFound, Answer
    <2>2. EnumerationOf(f, expired, url) = a
      BY <1>4 DEF EnumerationOf
    <2> HIDE DEF a
    <2> QED BY <1>2, <1>3, <1>4, <2>1, <2>2 DEF AnswerIsGood
  <1>5. CASE f \in Existing /\ (f \notin DOMAIN base.tokens \/ expired \/ ~url)
    <2> DEFINE a == Answer(DOMAIN now, {}, TRUE, url, IF url THEN now ELSE None)
    <2>1. /\ a.added = DOMAIN now /\ a.removed = {} /\ a.reset = TRUE /\ a.url = url
          /\ a.token = IF url THEN now ELSE None
      BY DEF Answer
    <2>2. EnumerationOf(f, expired, url) = a
      BY <1>5 DEF EnumerationOf, now
    <2> HIDE DEF a
    <2>3. \A i \in a.added : i \in Messages \cap used /\ place[i] \in {f, Nowhere}
      BY <1>1, <1>2, <2>1
    <2>4. \A i \in DOMAIN a.token :
            /\ i \in Messages \cap used /\ a.token[i] \in Nat /\ a.token[i] <= version[i]
            /\ Has(f, a, i)
      BY <1>1, <1>2, <1>3, <2>1 DEF Has
    <2>5. \A i \in Messages : place[i] = f => Has(f, a, i)
      BY <1>1, <2>1 DEF Has
    <2> QED BY <2>1, <2>2, <2>3, <2>4, <2>5 DEF AnswerIsGood
  <1>6. CASE f \in Existing /\ ~(f \notin DOMAIN base.tokens \/ expired \/ ~url)
    <2> DEFINE new == {i \in DOMAIN now : i \in DOMAIN old => now[i] # old[i]}
               a == Answer(new, DOMAIN old \ DOMAIN now, FALSE, TRUE, now)
    <2>1. /\ a.added = new /\ a.removed = DOMAIN old \ DOMAIN now /\ a.reset = FALSE
          /\ a.url = TRUE /\ a.token = now
      BY DEF Answer
    <2>2. EnumerationOf(f, expired, url) = a
      BY <1>6 DEF EnumerationOf, now
    <2>3. new \subseteq DOMAIN now /\ \A i \in DOMAIN now \ new : i \in DOMAIN old /\ now[i] = old[i]
      OBVIOUS
    <2> HIDE DEF a, new
    <2>4. \A i \in a.added : i \in Messages \cap used /\ place[i] \in {f, Nowhere}
      BY <1>1, <1>2, <2>1, <2>3
    <2>5. \A i \in DOMAIN now : Has(f, a, i)
      BY <1>1, <2>1, <2>3 DEF Has
    <2>6. \A i \in DOMAIN a.token :
            /\ i \in Messages \cap used /\ a.token[i] \in Nat /\ a.token[i] <= version[i]
            /\ Has(f, a, i)
      BY <1>1, <1>2, <2>1, <2>5
    <2>7. \A i \in Messages :
            /\ place[i] = f => Has(f, a, i)
            /\ place[i] = Nowhere /\ i \in DOMAIN old => i \in a.removed
      BY <1>1, <1>2, <2>1, <2>5
    <2>8. f \in DOMAIN base.tokens /\ DOMAIN old \ a.removed \subseteq DOMAIN a.token
      BY <1>6, <2>1
    <2> QED BY <2>1, <2>2, <2>3, <2>4, <2>6, <2>7, <2>8 DEF AnswerIsGood
  <1> QED BY <1>4, <1>5, <1>6

LEMMA EnumerateKeeps ==
  ASSUME IInv, NEW f \in Folders, NEW expired \in BOOLEAN, NEW url \in BOOLEAN,
         Enumerate(f, expired, url)
  PROVE  IInv'
  <1> DEFINE a == EnumerationOf(f, expired, url)
             got == [g \in DOMAIN job.got \cup {f} |-> IF g = f THEN a ELSE job.got[g]]
  <1>0. JobIsGood
    BY DEF IInv
  <1>1. /\ UNCHANGED <<mailVars, base, refused>> /\ job.running /\ job.todo = {}
        /\ f \in Containers \ DOMAIN job.got /\ job' = [job EXCEPT !.got = got]
    BY DEF Enumerate
  <1>2. /\ MailIsGood' /\ BaseIsGood' /\ ~refused' /\ Existing' = Existing
        /\ UNCHANGED <<home, title, place, version, used, base>>
    BY <1>1, JobKeeps DEF mailVars
  <1>3. /\ DOMAIN got = DOMAIN job.got \cup {f} /\ got[f] = a
        /\ \A g \in DOMAIN job.got : got[g] = job.got[g]
    BY <1>1
  <1> HIDE DEF got
  <1>4. job' = [running |-> job.running, cache |-> job.cache, todo |-> job.todo,
                got |-> got, touched |-> job.touched, missed |-> job.missed]
    <2>1. job = [running |-> job.running, cache |-> job.cache, todo |-> job.todo,
                 got |-> job.got, touched |-> job.touched, missed |-> job.missed]
      BY <1>0 DEF JobIsGood
    <2> QED BY <1>1, <2>1
  <1>5. /\ job'.running = job.running /\ job'.cache = job.cache /\ job'.todo = job.todo
        /\ job'.got = got /\ job'.touched = job.touched /\ job'.missed = job.missed
        /\ job' = [running |-> job'.running, cache |-> job'.cache, todo |-> job'.todo,
                   got |-> job'.got, touched |-> job'.touched, missed |-> job'.missed]
    BY <1>4
  <1>6. \A g \in DOMAIN got : AnswerIsGood(g, got[g])
    <2>1. AnswerIsGood(f, a)
      BY EnumerationIsGood
    <2> HIDE DEF a
    <2> QED BY <1>0, <1>3, <2>1 DEF JobIsGood
  <1>7. ASSUME NEW g \in DOMAIN got, NEW b, b = got[g]
        PROVE  AnswerIsGood(g, b)'
    <2>1. AnswerIsGood(g, b)
      BY <1>6, <1>7
    <2>2. \A i : Has(g, b, i) <=> Has(g, b, i)'
      BY <1>2 DEF Has
    <2> QED BY <1>2, <1>5, <2>1, <2>2 DEF AnswerIsGood
  <1>8. \A g \in DOMAIN job'.got : AnswerIsGood(g, job.got[g])'
    BY <1>5, <1>7
  <1>9. Containers' = Containers /\ DOMAIN job'.got \subseteq Containers
    BY <1>0, <1>1, <1>3, <1>5 DEF Containers, JobIsGood
  <1>10. \A C \in SUBSET Folders : Closed(C)' => Closed(C)
    BY <1>2, <1>5 DEF Closed
  <1>11. \A C \in SUBSET Folders :
           Closed(C)' => \A g \in C :
             /\ job'.cache[g] # Nowhere =>
                  job'.cache[g].up = home'[g] /\ job'.cache[g].name = title'[g]
             /\ job'.running /\ g \notin job'.missed => job'.cache[g] # Nowhere
    BY <1>0, <1>2, <1>5, <1>10 DEF JobIsGood
  <1>12. JobIsGood'
    <2>1. /\ job.cache \in Caches /\ IsTree(job.cache) /\ Unpaved(job.cache) \subseteq job.todo
          /\ job.todo \subseteq Folders
      BY <1>0 DEF JobIsGood
    <2> QED BY <1>1, <1>5, <1>8, <1>9, <1>11, <2>1 DEF JobIsGood
  <1> QED BY <1>2, <1>12 DEF IInv

LEMMA FailKeeps ==
  ASSUME IInv, Fail
  PROVE  IInv'
  <1>1. UNCHANGED <<mailVars, base, refused>> /\ job' = IdleJob
    BY DEF Fail
  <1> QED BY <1>1, JobKeeps, IdleKeeps DEF IInv

-----------------------------------------------------------------------------
(* The collections at the end of a backup.                                 *)

AtTheEnd == IInv /\ job.running /\ job.todo = {} /\ DOMAIN job.got = Containers

LEMMA CacheAtTheEnd ==
  ASSUME JobIsGood, job.todo = {}
  PROVE  /\ Containers \subseteq Folders /\ Root \in InCache(job.cache)
         /\ job.cache[Root].path = <<>> /\ job.cache[Root].loc = <<>>
         /\ \A f \in Containers :
              LET c == job.cache[f]
                  u == job.cache[c.up]
              IN  /\ c.up \in Containers \cup {Root}
                  /\ c.path = Append(u.path, f) /\ c.loc = Append(u.loc, c.name)
                  /\ c.path \in Seq(Folders) /\ c.path # <<>> /\ c.path # Nowhere
                  /\ Last(c.path) = f /\ Front(c.path) = u.path
                  /\ c.loc \in Seq(Names) /\ c.loc # Nowhere
  <1> DEFINE cache == job.cache
  <1>1. /\ cache \in Caches /\ IsTree(cache) /\ Unpaved(cache) = {}
    BY DEF JobIsGood
  <1>2. /\ cache[Root] = RootEntry /\ Root \in Paved(cache)
        /\ \A g \in Paved(cache) : cache[g].path \in Seq(Folders) /\ cache[g].loc \in Seq(Names)
    BY <1>1, CacheIs
  <1>3. Containers \subseteq Folders
    BY DEF Containers, InCache, Dirs
  <1>4. Paved(cache) = Containers \cup {Root} /\ Root \in InCache(cache)
    BY <1>1, <1>2 DEF Unpaved, Paved, Containers, InCache, Dirs
  <1>5. ASSUME NEW f \in Containers
        PROVE  /\ cache[f].up \in Containers \cup {Root}
               /\ cache[f].path = Append(cache[cache[f].up].path, f)
               /\ cache[f].loc = Append(cache[cache[f].up].loc, cache[f].name)
    <2>1. f \in Paved(cache) \ {Root}
      BY <1>4 DEF Containers
    <2>2. Extends(cache, f, cache[f]) /\ cache[f].path # Nowhere
      BY <1>1, <2>1 DEF IsTree, Paved
    <2> QED BY <1>4, <2>2 DEF Extends
  <1>6. ASSUME NEW f \in Containers
        PROVE  /\ cache[f].path \in Seq(Folders) /\ cache[f].path # <<>>
               /\ cache[f].path # Nowhere /\ Last(cache[f].path) = f
               /\ Front(cache[f].path) = cache[cache[f].up].path
               /\ cache[f].loc \in Seq(Names) /\ cache[f].loc # Nowhere
    <2> DEFINE p == cache[cache[f].up].path
    <2>1. p \in Seq(Folders) /\ f \in Folders /\ cache[f].path = Append(p, f)
      BY <1>2, <1>3, <1>4, <1>5
    <2>2. cache[f].path \in Seq(Folders) /\ cache[f].loc \in Seq(Names)
      BY <1>2, <1>4
    <2> HIDE DEF p
    <2>3. /\ Append(p, f) \in Seq(Folders) /\ Append(p, f) # <<>>
          /\ Front(Append(p, f)) = p /\ Last(Append(p, f)) = f
      BY <2>1, Appended
    <2>4. /\ cache[f].path # <<>> /\ Last(cache[f].path) = f
          /\ Front(cache[f].path) = cache[cache[f].up].path
      BY <2>1, <2>3 DEF p
    <2>5. cache[f].path # Nowhere /\ cache[f].loc # Nowhere
      <3>1. Nowhere \notin Seq(Folders) /\ Nowhere \notin Seq(Names)
        BY ResolverAssumption
      <3> QED BY <2>2, <3>1
    <2> HIDE DEF cache, p
    <2> QED BY <2>2, <2>4, <2>5
  <1> QED BY <1>2, <1>3, <1>4, <1>5, <1>6 DEF RootEntry

(* A folder that is cached or in the base has one collection.              *)
IDs == Containers \cup DOMAIN base.paths

CollOf(f) == IF f \in Containers THEN Collection(f) ELSE Tombstone(f)

Colls == {Collection(f) : f \in Containers} \cup Tombstones

Fetched(f) == {i \in job.got[f].added : place[i] # Nowhere}

LEMMA CollsAre ==
  ASSUME AtTheEnd
  PROVE  /\ Colls = {CollOf(f) : f \in IDs} /\ IDs \subseteq Folders
         /\ \A f \in IDs :
              /\ CollOf(f).cur = IF f \in Containers THEN job.cache[f].path ELSE Nowhere
              /\ CollOf(f).prev = IF f \in DOMAIN base.paths THEN base.paths[f] ELSE Nowhere
              /\ \A p \in {CollOf(f).cur, CollOf(f).prev} :
                   p # Nowhere => p \in Seq(Folders) /\ p # <<>> /\ Last(p) = f
         /\ \A f \in Containers : CollOf(f) = Collection(f) /\ f \in IDs
  <1>0. JobIsGood /\ BaseIsGood /\ job.todo = {}
    BY DEF AtTheEnd, IInv
  <1>1. Containers \subseteq Folders /\ DOMAIN base.paths \subseteq Folders
    BY <1>0, CacheAtTheEnd DEF BaseIsGood, PathsAreGood
  <1>2. Colls = {CollOf(f) : f \in IDs}
    BY DEF Colls, CollOf, IDs, Tombstones
  <1>3. ASSUME NEW f \in IDs
        PROVE  /\ CollOf(f).cur = IF f \in Containers THEN job.cache[f].path ELSE Nowhere
               /\ CollOf(f).prev = IF f \in DOMAIN base.paths THEN base.paths[f] ELSE Nowhere
    BY DEF CollOf, Collection, Tombstone, PrevPath, IDs
  <1>4. \A f \in Containers : /\ job.cache[f].path \in Seq(Folders) /\ job.cache[f].path # <<>>
                              /\ Last(job.cache[f].path) = f
    BY <1>0, CacheAtTheEnd
  <1>5. \A f \in DOMAIN base.paths : /\ base.paths[f] \in Seq(Folders) /\ base.paths[f] # <<>>
                                     /\ Last(base.paths[f]) = f
    BY <1>0 DEF BaseIsGood, PathsAreGood
  <1>6. \A f \in Containers : CollOf(f) = Collection(f) /\ f \in IDs
    BY DEF CollOf, IDs
  <1> QED BY <1>1, <1>2, <1>3, <1>4, <1>5, <1>6 DEF IDs

(* No path is claimed twice, as paths end in the ID of the folder.         *)
LEMMA NoConflict == AtTheEnd => ~Merge!Conflict(Colls)
  <1> SUFFICES ASSUME AtTheEnd, NEW c \in Colls, NEW d \in Colls,
                      \/ c # d /\ c.prev # Nowhere /\ c.prev = d.prev
                      \/ c # d /\ c.cur # Nowhere /\ c.cur = d.cur
                      \/ (c.cur = Nowhere \/ c.cur # c.prev) /\ d.cur # Nowhere
                           /\ d.cur = d.prev /\ c.prev = d.cur
               PROVE  FALSE
    BY DEF Merge!Conflict, Merge!Deleted, Merge!Moved, Merge!NotMoved
  <1>1. PICK f \in IDs, g \in IDs : c = CollOf(f) /\ d = CollOf(g)
    BY CollsAre
  <1>2. /\ \A p \in {c.cur, c.prev} : p # Nowhere => Last(p) = f
        /\ \A p \in {d.cur, d.prev} : p # Nowhere => Last(p) = g
    BY <1>1, CollsAre
  <1>3. f = g
    BY <1>2
  <1> QED BY <1>1, <1>3

-----------------------------------------------------------------------------
(* How they are merged with the base.                                      *)

(* All folders of the base have gone where their collections say.          *)
LEMMA UpdatedPathsAre ==
  ASSUME AtTheEnd
  PROVE  LET updated == Merge!UpdatedPaths(Colls)
         IN  /\ DOMAIN updated = {base.paths[f] : f \in DOMAIN base.paths}
             /\ \A f \in DOMAIN base.paths : updated[base.paths[f]] = CollOf(f).cur
  <1> DEFINE named == {c \in Colls : c.prev # Nowhere}
             updated == Merge!UpdatedPaths(Colls)
  <1>1. updated = [p \in {c.prev : c \in named} |-> (CHOOSE c \in named : c.prev = p).cur]
    BY DEF Merge!UpdatedPaths
  <1>2. \A f \in DOMAIN base.paths :
          /\ CollOf(f) \in Colls /\ CollOf(f).prev = base.paths[f] /\ base.paths[f] # Nowhere
    <2>1. \A f \in DOMAIN base.paths : base.paths[f] \in Seq(Folders)
      BY DEF AtTheEnd, IInv, BaseIsGood, PathsAreGood
    <2> QED BY <2>1, CollsAre, ResolverAssumption DEF IDs
  <1>3. \A c \in named : \E f \in DOMAIN base.paths : c = CollOf(f)
    BY CollsAre
  <1> HIDE DEF named, updated
  <1>4. {c.prev : c \in named} = {base.paths[f] : f \in DOMAIN base.paths}
    <2>1. \A f \in DOMAIN base.paths : CollOf(f) \in named
      BY <1>2 DEF named
    <2> QED BY <1>2, <1>3, <2>1
  <1>5. ASSUME NEW f \in DOMAIN base.paths
        PROVE  updated[base.paths[f]] = CollOf(f).cur
    <2> DEFINE d == CHOOSE c \in named : c.prev = base.paths[f]
    <2>1. d \in named /\ d.prev = base.paths[f]
      BY <1>2 DEF named
    <2>2. updated[base.paths[f]] = d.cur
      BY <1>1, <1>4
    <2> HIDE DEF d
    <2>3. PICK g \in DOMAIN base.paths : d = CollOf(g)
      BY <1>3, <2>1
    <2>4. Last(base.paths[f]) = f /\ Last(base.paths[g]) = g
      BY DEF AtTheEnd, IInv, BaseIsGood, PathsAreGood
    <2> QED BY <1>2, <2>1, <2>2, <2>3, <2>4
  <1> QED BY <1>1, <1>4, <1>5 DEF updated

(* A beginning of the path of a folder of the base is that of another one, *)
(* or of the root.                                                         *)
LEMMA PathsContinue ==
  ASSUME NEW paths, PathsAreGood(paths), NEW f \in DOMAIN paths, NEW n \in 0..Len(paths[f])
  PROVE  SubSeq(paths[f], 1, n) = <<>> \/ \E g \in DOMAIN paths : SubSeq(paths[f], 1, n) = paths[g]
  <1> DEFINE OK(p) == p = <<>> \/ \E g \in DOMAIN paths : p = paths[g]
             S == {k \in Nat : \A g \in DOMAIN paths :
                     Len(paths[g]) = k => \A m \in 0..k : OK(SubSeq(paths[g], 1, m))}
  <1>1. \A g \in DOMAIN paths : paths[g] \in Seq(Folders) /\ paths[g] # <<>>
    BY DEF PathsAreGood
  <1>2. \A p \in Seq(Folders) :
          /\ Len(p) \in Nat /\ SubSeq(p, 1, Len(p)) = p /\ SubSeq(p, 1, 0) = <<>>
          /\ Len(p) = 0 => p = <<>>
    OBVIOUS
  <1>3. 0 \in S
    BY <1>1, <1>2
  <1>4. ASSUME NEW k \in Nat, k \in S,
               NEW g \in DOMAIN paths, Len(paths[g]) = k + 1, NEW m \in 0..k + 1
        PROVE  OK(SubSeq(paths[g], 1, m))
    <2>0. \A h \in DOMAIN paths : Len(paths[h]) = k => \A j \in 0..k : OK(SubSeq(paths[h], 1, j))
      <3> HIDE DEF OK
      <3> QED BY <1>4
    <2> DEFINE p == paths[g]
               q == SubSeq(p, 1, k)
    <2>1. p \in Seq(Folders) /\ Front(p) = SubSeq(p, 1, Len(p) - 1) /\ Len(p) - 1 = k
      BY <1>1, <1>4 DEF Front
    <2>2. Front(p) = q
      BY <2>1
    <2>3. /\ q \in Seq(Folders) /\ Len(q) = k
          /\ m <= k => SubSeq(q, 1, m) = SubSeq(p, 1, m)
      <3>1. k \in 0..Len(p)
        BY <2>1
      <3>2. q \in Seq(Folders) /\ Len(q) = k /\ \A j \in 1..k : q[j] = p[j]
        BY <2>1, <3>1
      <3> HIDE DEF q, p
      <3>3. CASE m <= k
        <4>1. /\ SubSeq(q, 1, m) \in Seq(Folders) /\ Len(SubSeq(q, 1, m)) = m
              /\ SubSeq(p, 1, m) \in Seq(Folders) /\ Len(SubSeq(p, 1, m)) = m
              /\ \A j \in 1..m : SubSeq(q, 1, m)[j] = q[j] /\ SubSeq(p, 1, m)[j] = p[j]
          BY <2>1, <3>2, <3>3
        <4>2. SubSeq(q, 1, m) = SubSeq(p, 1, m)
          BY <3>2, <3>3, <4>1
        <4> QED BY <3>2, <4>2
      <3> QED BY <3>2, <3>3
    <2> HIDE DEF q
    <2>4. CASE m = k + 1
      <3>1. SubSeq(p, 1, m) = p
        BY <1>2, <2>1, <2>4
      <3> QED BY <3>1
    <2>5. CASE m <= k /\ q = <<>>
      <3>1. k = 0 /\ m = 0
        BY <2>3, <2>5
      <3> QED BY <1>2, <2>1, <3>1
    <2>6. CASE m <= k /\ q # <<>>
      <3>1. PICK h \in DOMAIN paths : paths[h] = q
        BY <2>2, <2>6 DEF PathsAreGood
      <3>2. m \in 0..k /\ SubSeq(paths[h], 1, m) = SubSeq(p, 1, m) /\ Len(paths[h]) = k
        BY <2>3, <2>6, <3>1
      <3>3. OK(SubSeq(paths[h], 1, m))
        BY <2>0, <3>2
      <3> QED BY <3>2, <3>3
    <2> QED BY <2>4, <2>5, <2>6
  <1>5. \A k \in Nat : k \in S => k + 1 \in S
    <2> HIDE DEF OK
    <2> QED BY <1>4
  <1> HIDE DEF S
  <1>6. Nat \subseteq S
    BY <1>3, <1>5, Induction
  <1>7. Len(paths[f]) \in S
    BY <1>1, <1>2, <1>6
  <1> QED BY <1>7 DEF S

(* The directories of the base are its folders', and the root's.           *)
LEMMA BaseDirsAre ==
  ASSUME AtTheEnd
  PROVE  /\ \A d \in Merge!BaseDirs(base.snap) :
              d = <<>> \/ \E f \in DOMAIN base.paths : d = base.paths[f]
         /\ \A e \in base.snap :
              /\ \E f \in DOMAIN base.paths : e.dir = base.paths[f]
              /\ e.dir \in Merge!BaseDirs(base.snap)
              /\ \A a \in Merge!PrefixesOf(e.dir) \ {e.dir} :
                   a \in Merge!BaseDirs(base.snap) /\ Merge!IsStrictPrefix(a, e.dir)
  <1>1. PathsAreGood(base.paths) /\ \A e \in base.snap : \E f \in DOMAIN base.paths : e.dir = base.paths[f]
    BY DEF AtTheEnd, IInv, BaseIsGood
  <1>2. ASSUME NEW d \in Merge!BaseDirs(base.snap), d # <<>>
        PROVE  \E f \in DOMAIN base.paths : d = base.paths[f]
    <2>1. PICK e \in base.snap : d \in Merge!PrefixesOf(e.dir)
      BY <1>2 DEF Merge!BaseDirs
    <2>2. PICK g \in DOMAIN base.paths : e.dir = base.paths[g]
      BY <1>1
    <2>3. PICK n \in 0..Len(base.paths[g]) : d = SubSeq(base.paths[g], 1, n)
      BY <2>1, <2>2 DEF Merge!PrefixesOf
    <2> QED BY <1>1, <1>2, <2>3, PathsContinue
  <1>3. ASSUME NEW e \in base.snap
        PROVE  /\ e.dir \in Merge!BaseDirs(base.snap)
               /\ \A a \in Merge!PrefixesOf(e.dir) \ {e.dir} :
                    a \in Merge!BaseDirs(base.snap) /\ Merge!IsStrictPrefix(a, e.dir)
    <2> DEFINE p == e.dir
    <2>1. p \in Seq(Folders)
      BY <1>1 DEF PathsAreGood
    <2>2. Merge!PrefixesOf(p) \subseteq Merge!BaseDirs(base.snap)
      BY DEF Merge!BaseDirs
    <2> HIDE DEF p
    <2>3. Len(p) \in 0..Len(p) /\ SubSeq(p, 1, Len(p)) = p
      BY <2>1
    <2>4. p \in Merge!PrefixesOf(p)
      BY <2>3 DEF Merge!PrefixesOf
    <2>5. ASSUME NEW a \in Merge!PrefixesOf(p) PROVE Merge!IsPrefix(a, p)
      <3>1. PICK n \in 0..Len(p) : a = SubSeq(p, 1, n)
        BY DEF Merge!PrefixesOf
      <3>2. a \in Seq(Folders) /\ Len(a) = n /\ n <= Len(p) /\ SubSeq(a, 1, Len(a)) = a
        BY <2>1, <3>1
      <3> QED BY <3>1, <3>2 DEF Merge!IsPrefix
    <2> QED BY <2>2, <2>4, <2>5 DEF Merge!IsStrictPrefix, p
  <1> QED BY <1>1, <1>2, <1>3

CurrentPath(current, updated, d) ==
  IF d \in DOMAIN updated THEN updated[d]
  ELSE IF d = <<>> THEN <<>>
  ELSE IF current[Merge!Front(d)] = Nowhere THEN Nowhere
  ELSE Append(current[Merge!Front(d)], Merge!Last(d))

(* They go where the folders are, if these are there still.                *)
LEMMA CurrentPathsAre ==
  ASSUME AtTheEnd
  PROVE  LET current == Merge!CurrentPaths(base.snap, Merge!UpdatedPaths(Colls))
         IN  \A f \in DOMAIN base.paths :
               base.paths[f] \in Merge!BaseDirs(base.snap) =>
                 current[base.paths[f]] = CollOf(f).cur
  <1> DEFINE updated == Merge!UpdatedPaths(Colls)
             D == Merge!BaseDirs(base.snap)
             current == Merge!CurrentPaths(base.snap, updated)
             Body(h) == [d \in D |-> CurrentPath(h, updated, d)]
             known == [d \in D |-> IF d \in DOMAIN updated THEN updated[d] ELSE <<>>]
  <1>1. current = CHOOSE h : h = Body(h)
    BY DEF Merge!CurrentPaths, CurrentPath
  <1>2. /\ DOMAIN updated = {base.paths[f] : f \in DOMAIN base.paths}
        /\ \A f \in DOMAIN base.paths : updated[base.paths[f]] = CollOf(f).cur
    BY UpdatedPathsAre
  <1>3. \A d \in D : d # <<>> => d \in DOMAIN updated
    BY <1>2, BaseDirsAre
  <1> HIDE DEF updated, D, current
  <1>4. known = Body(known)
    <2> HIDE DEF known
    <2>1. \A d \in D : known[d] = IF d \in DOMAIN updated THEN updated[d] ELSE <<>>
      BY DEF known
    <2>2. \A d \in D : CurrentPath(known, updated, d) = IF d \in DOMAIN updated THEN updated[d] ELSE <<>>
      BY <1>3 DEF CurrentPath
    <2> QED BY <2>2 DEF known
  <1>5. current = Body(current)
    BY <1>1, <1>4
  <1>6. \A d \in D : d \in DOMAIN updated => current[d] = updated[d]
    <2>1. \A d \in D : current[d] = CurrentPath(current, updated, d)
      <3> HIDE DEF known
      <3> QED BY <1>5
    <2> QED BY <2>1 DEF CurrentPath
  <1> QED BY <1>2, <1>6 DEF updated, D, current

(* The folders of the base whose items are merged, and what is read.       *)
Merging == {f \in Containers \cap DOMAIN base.paths : ~job.got[f].reset}

Source(f) == [from |-> base.paths[f], to |-> job.cache[f].path, whole |-> FALSE]

SubtreeDiffers(d) ==
  Merge!SubtreeChanged(Colls, Merge!UpdatedPaths(Colls), d,
                       Merge!CurrentPaths(base.snap, Merge!UpdatedPaths(Colls))[d])

(* Every folder that is merged is read by itself, and no other, as all have*)
(* a collection and so none goes with the one that it is in.               *)
LEMMA SourcesAre ==
  ASSUME AtTheEnd
  PROVE  /\ \A s \in Merge!Sources(Colls, base.snap) :
              base.snap # {} => \E f \in Merging : s = Source(f)
         /\ \A e \in base.snap : \A f \in Merging :
              e.dir = base.paths[f] => Source(f) \in Merge!Sources(Colls, base.snap)
  <1> DEFINE updated == Merge!UpdatedPaths(Colls)
             D == Merge!BaseDirs(base.snap)
             current == Merge!CurrentPaths(base.snap, updated)
             changed_ == [d \in D |-> SubtreeDiffers(d)]
             skipped(n) == \E c \in Colls : c.cur = n /\ (c.reset \/ Merge!New(c))
             OK(d) == /\ \A a \in Merge!PrefixesOf(d) \ {d} : changed_[a]
                      /\ current[d] # Nowhere
                      /\ changed_[d] => \E e \in base.snap : e.dir = d
                      /\ ~skipped(current[d])
             source(d) == [from |-> d, to |-> current[d], whole |-> ~changed_[d]]
  <1>1. Merge!Sources(Colls, base.snap) = {source(d) : d \in {x \in D : OK(x)}}
    BY DEF Merge!Sources, SubtreeDiffers
  <1>2. \A d \in D : changed_[d] = SubtreeDiffers(d)
    OBVIOUS
  <1>3. /\ \A d \in D : d = <<>> \/ \E f \in DOMAIN base.paths : d = base.paths[f]
        /\ \A e \in base.snap :
             /\ \E f \in DOMAIN base.paths : e.dir = base.paths[f]
             /\ e.dir \in D
             /\ \A a \in Merge!PrefixesOf(e.dir) \ {e.dir} : a \in D /\ Merge!IsStrictPrefix(a, e.dir)
    BY BaseDirsAre
  <1>4. /\ DOMAIN updated = {base.paths[f] : f \in DOMAIN base.paths}
        /\ \A f \in DOMAIN base.paths : base.paths[f] \in D => current[base.paths[f]] = CollOf(f).cur
    BY UpdatedPathsAre, CurrentPathsAre
  <1>5. \A f \in DOMAIN base.paths : base.paths[f] # <<>> /\ base.paths[f] \in Seq(Folders)
    BY DEF AtTheEnd, IInv, BaseIsGood, PathsAreGood
  <1>6. ASSUME NEW d \in D, NEW f \in DOMAIN base.paths, Merge!IsStrictPrefix(d, base.paths[f])
        PROVE  SubtreeDiffers(d)
    BY <1>4, <1>6 DEF SubtreeDiffers, Merge!SubtreeChanged
  <1>7. ASSUME NEW f \in Containers \cap DOMAIN base.paths, base.paths[f] \in D
        PROVE  SubtreeDiffers(base.paths[f]) /\ current[base.paths[f]] = job.cache[f].path
    <2> DEFINE p == job.cache[f].path
    <2>1. /\ current[base.paths[f]] = p /\ p # Nowhere /\ p \in Seq(Folders)
          /\ Collection(f) \in Colls /\ Collection(f).cur = p
      BY <1>4, <1>7, CollsAre, CacheAtTheEnd DEF AtTheEnd, IInv
    <2> HIDE DEF p
    <2>2. Merge!IsPrefix(p, p)
      BY <2>1 DEF Merge!IsPrefix
    <2>3. SubtreeDiffers(base.paths[f])
      BY <2>1, <2>2 DEF SubtreeDiffers, Merge!SubtreeChanged, Merge!Deleted
    <2> QED BY <2>1, <2>3 DEF p
  <1>8. ASSUME NEW f \in Containers \cap DOMAIN base.paths
        PROVE  skipped(job.cache[f].path) <=> job.got[f].reset
    <2> DEFINE p == job.cache[f].path
    <2>1. /\ CollOf(f) \in Colls /\ CollOf(f).cur = p /\ p # Nowhere /\ Last(p) = f
          /\ CollOf(f).reset = job.got[f].reset /\ CollOf(f).prev = base.paths[f]
          /\ base.paths[f] # Nowhere
      <3>1. CollOf(f) = Collection(f)
        BY CollsAre
      <3>2. CollOf(f).reset = job.got[f].reset
        BY <3>1 DEF Collection
      <3>3. CollOf(f) \in Colls /\ CollOf(f).cur = p /\ CollOf(f).prev = base.paths[f]
        BY CollsAre
      <3>4. p # Nowhere /\ Last(p) = f
        BY CacheAtTheEnd DEF AtTheEnd, IInv
      <3> QED BY <1>5, <3>2, <3>3, <3>4, ResolverAssumption
    <2>2. ASSUME NEW c \in Colls, c.cur = p PROVE c = CollOf(f)
      <3>1. PICK g \in IDs : c = CollOf(g)
        BY CollsAre
      <3>2. Last(p) = g
        BY <2>1, <2>2, <3>1, CollsAre
      <3> QED BY <2>1, <3>1, <3>2
    <2> HIDE DEF p
    <2>3. ~Merge!New(CollOf(f))
      BY <2>1 DEF Merge!New
    <2>4. ASSUME job.got[f].reset PROVE skipped(p)
      BY <2>1, <2>4
    <2>5. ASSUME skipped(p) PROVE job.got[f].reset
      BY <2>1, <2>2, <2>3, <2>5
    <2> QED BY <2>4, <2>5 DEF p
  <1> HIDE DEF updated, D, current, changed_, skipped
  <1>9. ASSUME NEW s \in Merge!Sources(Colls, base.snap), base.snap # {}
        PROVE  \E f \in Merging : s = Source(f)
    <2>1. PICK d \in D : OK(d) /\ s = source(d)
      BY <1>1
    <2>2. d # <<>>
      <3> SUFFICES ASSUME d = <<>> PROVE FALSE
        OBVIOUS
      <3>1. PICK e \in base.snap : TRUE
        BY <1>9
      <3>2. PICK f \in DOMAIN base.paths : e.dir = base.paths[f]
        BY <1>3
      <3>3. Merge!IsStrictPrefix(<<>>, base.paths[f])
        BY <1>5 DEF Merge!IsStrictPrefix, Merge!IsPrefix
      <3>4. changed_[<<>>]
        BY <1>2, <1>6, <2>1, <3>3
      <3>5. PICK k \in base.snap : k.dir = <<>>
        BY <2>1, <3>4
      <3> QED BY <1>3, <1>5, <3>5
    <2>3. PICK f \in DOMAIN base.paths : d = base.paths[f]
      BY <1>3, <2>1, <2>2
    <2>4. f \in Containers
      <3>1. CollOf(f).cur # Nowhere
        BY <1>4, <2>1, <2>3
      <3> QED BY <3>1, CollsAre DEF IDs
    <2>5. changed_[d] /\ current[d] = job.cache[f].path
      BY <1>2, <1>7, <2>1, <2>3, <2>4
    <2>6. ~job.got[f].reset
      BY <1>8, <2>1, <2>3, <2>4, <2>5
    <2>7. changed_[d] = TRUE
      BY <1>2, <2>1, <2>5 DEF SubtreeDiffers, Merge!SubtreeChanged
    <2>8. s = Source(f)
      BY <2>1, <2>3, <2>5, <2>7 DEF Source
    <2> QED BY <2>3, <2>4, <2>6, <2>8 DEF Merging
  <1>10. ASSUME NEW e \in base.snap, NEW f \in Merging, e.dir = base.paths[f]
         PROVE  Source(f) \in Merge!Sources(Colls, base.snap)
    <2> DEFINE d == base.paths[f]
    <2>1. f \in Containers \cap DOMAIN base.paths /\ ~job.got[f].reset /\ d \in D
      BY <1>3, <1>10 DEF Merging
    <2>2. SubtreeDiffers(d) /\ current[d] = job.cache[f].path /\ ~skipped(current[d])
      BY <1>7, <1>8, <2>1
    <2>3. \A a \in Merge!PrefixesOf(d) \ {d} : changed_[a]
      BY <1>2, <1>3, <1>6, <1>10, <2>1
    <2>4. current[d] # Nowhere
      BY <2>1, <2>2, CacheAtTheEnd DEF AtTheEnd, IInv
    <2>5. changed_[d] = TRUE
      BY <1>2, <2>1, <2>2 DEF SubtreeDiffers, Merge!SubtreeChanged
    <2>6. OK(d)
      BY <1>10, <2>2, <2>3, <2>4
    <2>7. source(d) \in Merge!Sources(Colls, base.snap)
      BY <1>1, <2>1, <2>6
    <2> QED BY <2>2, <2>5, <2>7 DEF Source
  <1> QED BY <1>9, <1>10

(* What a collection brings, and what is kept of the base.                 *)
Brought(f, i) ==
  [dir |-> job.cache[f].path, name |-> i, content |-> version[i], loc |-> job.cache[f].loc,
   from |-> IF Stored(job.cache[f].path, i, version[i]) \in base.snap
            THEN job.cache[f].path ELSE Nowhere]

KeptIn(f, e) ==
  [dir |-> job.cache[f].path, name |-> e.name, content |-> e.content, from |-> e.dir,
   loc |-> job.cache[f].loc]

Kept(f) == {e \in base.snap : /\ e.dir = base.paths[f]
                              /\ e.name \notin Fetched(f) \cup job.got[f].removed}

LEMMA StreamIs ==
  ASSUME AtTheEnd, NEW m
  PROVE  m \in Merge!StreamEntries(Colls, base.snap) <=>
           \E f \in Containers : \E i \in Fetched(f) : m = Brought(f, i)
  <1> DEFINE entry(c, x) ==
        [dir |-> c.cur, name |-> x.name, content |-> x.content, loc |-> c.loc,
         from |-> IF [dir |-> c.cur, name |-> x.name, content |-> x.content] \in base.snap
                  THEN c.cur ELSE Nowhere]
             live == {c \in Colls : ~Merge!Deleted(c)}
  <1>1. Merge!StreamEntries(Colls, base.snap) = UNION {{entry(c, x) : x \in c.files} : c \in live}
    BY DEF Merge!StreamEntries
  <1>2. live = {Collection(f) : f \in Containers}
    <2>1. \A c \in Colls : c.cur # Nowhere => \E f \in Containers : c = Collection(f)
      BY CollsAre
    <2>2. \A f \in Containers : Collection(f).cur # Nowhere /\ Collection(f) \in Colls
      BY CollsAre, CacheAtTheEnd DEF AtTheEnd, IInv
    <2> QED BY <2>1, <2>2 DEF Merge!Deleted
  <1>3. \A f \in Containers :
          /\ Collection(f).cur = job.cache[f].path /\ Collection(f).loc = job.cache[f].loc
          /\ Collection(f).files = {[name |-> i, content |-> version[i]] : i \in Fetched(f)}
    BY DEF Collection, Fetched
  <1>4. ASSUME NEW f \in Containers, NEW i \in Fetched(f)
        PROVE  entry(Collection(f), [name |-> i, content |-> version[i]]) = Brought(f, i)
    <2> DEFINE c == Collection(f)
               x == [name |-> i, content |-> version[i]]
    <2>1. c.cur = job.cache[f].path /\ c.loc = job.cache[f].loc /\ x.name = i /\ x.content = version[i]
      BY <1>3
    <2> HIDE DEF c, x
    <2>2. entry(c, x) = Brought(f, i)
      BY <2>1 DEF Brought, Stored
    <2> QED BY <2>2 DEF c, x
  <1> HIDE DEF entry, live
  <1>5. ASSUME NEW f \in Containers, NEW i \in Fetched(f), m = Brought(f, i)
        PROVE  m \in Merge!StreamEntries(Colls, base.snap)
    <2>1. [name |-> i, content |-> version[i]] \in Collection(f).files
      BY <1>3
    <2>2. m \in {entry(Collection(f), x) : x \in Collection(f).files}
      BY <1>4, <1>5, <2>1
    <2> QED BY <1>1, <1>2, <2>2
  <1>6. ASSUME m \in Merge!StreamEntries(Colls, base.snap)
        PROVE  \E f \in Containers : \E i \in Fetched(f) : m = Brought(f, i)
    <2>1. PICK c \in live : m \in {entry(c, x) : x \in c.files}
      BY <1>1, <1>6
    <2>2. PICK f \in Containers : c = Collection(f)
      BY <1>2
    <2>3. PICK x \in Collection(f).files : m = entry(Collection(f), x)
      BY <2>1, <2>2
    <2>4. PICK i \in Fetched(f) : x = [name |-> i, content |-> version[i]]
      BY <1>3, <2>3
    <2> QED BY <1>4, <2>3, <2>4
  <1> QED BY <1>5, <1>6

LEMMA BaseEntriesAre ==
  ASSUME AtTheEnd, NEW f \in Merging
  PROVE  Merge!BaseEntriesOf(Colls, {}, base.snap, Source(f)) = {KeptIn(f, e) : e \in Kept(f)}
  <1> DEFINE s == Source(f)
             there == {c \in Colls : c.cur = s.to}
             seen == UNION {{x.name : x \in c.files} \cup c.removed : c \in there}
             loc == IF there = {} THEN Nowhere ELSE (CHOOSE c \in there : TRUE).loc
             mine == {e \in base.snap :
                        /\ IF s.whole THEN Merge!IsPrefix(s.from, e.dir) ELSE e.dir = s.from
                        /\ e.name \notin {}
                        /\ e.dir = s.from => e.name \notin seen}
             entry(e) == [dir |-> s.to \o SubSeq(e.dir, Len(s.from) + 1, Len(e.dir)),
                          name |-> e.name, content |-> e.content, from |-> e.dir,
                          loc |-> IF e.dir = s.from THEN loc ELSE Nowhere]
  <1>1. Merge!BaseEntriesOf(Colls, {}, base.snap, s) = {entry(e) : e \in mine}
    BY DEF Merge!BaseEntriesOf
  <1>2. s.from = base.paths[f] /\ s.to = job.cache[f].path /\ s.whole = FALSE
    BY DEF Source
  <1>3. f \in Containers /\ f \in DOMAIN base.paths
    BY DEF Merging
  <1>4. /\ s.from \in Seq(Folders) /\ s.to \in Seq(Folders) /\ s.to # Nowhere /\ Last(s.to) = f
    BY <1>2, <1>3, CacheAtTheEnd DEF AtTheEnd, IInv, BaseIsGood, PathsAreGood
  <1> HIDE DEF s
  <1>5. there = {Collection(f)}
    <2>1. Collection(f) \in Colls /\ Collection(f).cur = s.to
      BY <1>2, <1>3, CollsAre
    <2>2. ASSUME NEW c \in Colls, c.cur = s.to PROVE c = Collection(f)
      <3>1. PICK g \in IDs : c = CollOf(g)
        BY CollsAre
      <3>2. Last(s.to) = g
        BY <1>4, <2>2, <3>1, CollsAre
      <3> QED BY <1>3, <1>4, <3>1, <3>2, CollsAre
    <2> QED BY <2>1, <2>2
  <1>6. seen = Fetched(f) \cup job.got[f].removed /\ loc = job.cache[f].loc
    <2>1. /\ Collection(f).loc = job.cache[f].loc /\ Collection(f).removed = job.got[f].removed
          /\ Collection(f).files = {[name |-> i, content |-> version[i]] : i \in Fetched(f)}
      BY DEF Collection, Fetched
    <2>2. {x.name : x \in Collection(f).files} = Fetched(f)
      <3> DEFINE file(i) == [name |-> i, content |-> version[i]]
                 files == Collection(f).files
      <3>1. \A i \in Fetched(f) : file(i).name = i
        OBVIOUS
      <3>2. files = {file(i) : i \in Fetched(f)}
        BY <2>1
      <3> HIDE DEF file, files
      <3>3. {x.name : x \in files} = Fetched(f)
        BY <3>1, <3>2
      <3> QED BY <3>3 DEF files
    <2> QED BY <1>5, <2>1, <2>2
  <1> HIDE DEF seen, loc, there
  <1>7. mine = Kept(f)
    BY <1>2, <1>6 DEF Kept
  <1>8. ASSUME NEW e \in Kept(f) PROVE entry(e) = KeptIn(f, e)
    <2>1. e.dir = s.from
      BY <1>2 DEF Kept
    <2>2. s.to \o SubSeq(e.dir, Len(s.from) + 1, Len(e.dir)) = s.to
      <3>1. ASSUME NEW p \in Seq(Folders), NEW q \in Seq(Folders)
            PROVE  p \o SubSeq(q, Len(q) + 1, Len(q)) = p
        <4>1. SubSeq(q, Len(q) + 1, Len(q)) = <<>>
          OBVIOUS
        <4> QED BY <4>1
      <3> QED BY <1>4, <2>1, <3>1
    <2> QED BY <1>2, <1>6, <2>1, <2>2 DEF KeptIn
  <1> HIDE DEF mine, entry
  <1> QED BY <1>1, <1>7, <1>8 DEF s

Merged == Merge!Merged(Colls, {}, base.snap)

LEMMA MergedIs ==
  ASSUME AtTheEnd, NEW m
  PROVE  m \in Merged <=>
           \/ \E f \in Containers : \E i \in Fetched(f) : m = Brought(f, i)
           \/ \E f \in Merging : \E e \in Kept(f) : m = KeptIn(f, e)
  <1> DEFINE entries(s) == Merge!BaseEntriesOf(Colls, {}, base.snap, s)
  <1>1. m \in Merged <=> \/ m \in Merge!StreamEntries(Colls, base.snap)
                         \/ \E s \in Merge!Sources(Colls, base.snap) : m \in entries(s)
    BY DEF Merged, Merge!Merged
  <1>2. \A f \in Merging : entries(Source(f)) = {KeptIn(f, e) : e \in Kept(f)}
    BY BaseEntriesAre
  <1>3. ASSUME NEW s \in Merge!Sources(Colls, base.snap), m \in entries(s)
        PROVE  \E f \in Merging : \E e \in Kept(f) : m = KeptIn(f, e)
    <2>1. base.snap # {}
      BY <1>3 DEF Merge!BaseEntriesOf
    <2>2. PICK f \in Merging : s = Source(f)
      BY <2>1, SourcesAre
    <2> HIDE DEF entries
    <2> QED BY <1>2, <1>3, <2>2
  <1>4. ASSUME NEW f \in Merging, NEW e \in Kept(f), m = KeptIn(f, e)
        PROVE  \E s \in Merge!Sources(Colls, base.snap) : m \in entries(s)
    <2>1. e \in base.snap /\ e.dir = base.paths[f]
      BY DEF Kept
    <2>2. Source(f) \in Merge!Sources(Colls, base.snap)
      BY <2>1, SourcesAre
    <2> HIDE DEF entries
    <2> QED BY <1>2, <1>4, <2>2
  <1> HIDE DEF entries
  <1> QED BY <1>1, <1>3, <1>4, StreamIs

(* What is known of the items that are brought and kept.                   *)
LEMMA ItemsAtTheEnd ==
  ASSUME AtTheEnd
  PROVE  /\ \A f \in Containers : \A i \in Fetched(f) :
              i \in Messages \cap used /\ place[i] = f /\ i \in job.got[f].added
         /\ \A f \in Merging :
              /\ f \in Containers \cap DOMAIN base.paths \cap DOMAIN base.tokens
              /\ job.got[f].url
              /\ \A e \in Kept(f) :
                   /\ e \in base.snap /\ e.dir = base.paths[f] /\ Last(e.dir) = f
                   /\ e.name \in Messages \cap used /\ place[e.name] \in {f, Nowhere}
                   /\ e.name \in DOMAIN base.tokens[f] /\ e.name \in DOMAIN job.got[f].token
                   /\ e.name \notin job.got[f].removed /\ e.name \notin Fetched(f)
  <1>0. BaseIsGood /\ \A f \in Containers : AnswerIsGood(f, job.got[f])
    BY DEF AtTheEnd, IInv, JobIsGood
  <1>1. ASSUME NEW f \in Containers, NEW i \in Fetched(f)
        PROVE  i \in Messages \cap used /\ place[i] = f /\ i \in job.got[f].added
    BY <1>0 DEF AnswerIsGood, Fetched
  <1>2. ASSUME NEW f \in Merging
        PROVE  /\ f \in Containers \cap DOMAIN base.paths \cap DOMAIN base.tokens
               /\ job.got[f].url
               /\ DOMAIN base.tokens[f] \ job.got[f].removed \subseteq DOMAIN job.got[f].token
    BY <1>0 DEF Merging, AnswerIsGood
  <1>3. ASSUME NEW f \in Merging, NEW e \in Kept(f)
        PROVE  /\ e \in base.snap /\ e.dir = base.paths[f] /\ Last(e.dir) = f
               /\ e.name \in Messages \cap used /\ place[e.name] \in {f, Nowhere}
               /\ e.name \in DOMAIN base.tokens[f]
               /\ e.name \notin job.got[f].removed /\ e.name \notin Fetched(f)
    <2>1. /\ e \in base.snap /\ e.dir = base.paths[f]
          /\ e.name \notin job.got[f].removed /\ e.name \notin Fetched(f)
      BY DEF Kept
    <2>2. \A g \in DOMAIN base.paths : Last(base.paths[g]) = g
      BY <1>0 DEF BaseIsGood, PathsAreGood
    <2>3. PICK g \in DOMAIN base.paths :
            /\ e.dir = base.paths[g] /\ place[e.name] \in {g, Nowhere}
            /\ g \in DOMAIN base.tokens => e.name \in DOMAIN base.tokens[g]
      BY <1>0, <2>1 DEF BaseIsGood
    <2>4. g = f
      BY <1>2, <2>1, <2>2, <2>3
    <2>5. e.name \in Messages \cap used
      BY <1>0, <2>1 DEF BaseIsGood
    <2> QED BY <1>2, <2>1, <2>2, <2>3, <2>4, <2>5
  <1> QED BY <1>1, <1>2, <1>3

(* The item of an entry, of a folder that the backup has.                  *)
LEMMA EntryIs ==
  ASSUME AtTheEnd, NEW m \in Merged
  PROVE  \E f \in Containers :
           /\ m.dir = job.cache[f].path /\ m.loc = job.cache[f].loc
           /\ Last(m.dir) = f /\ m.loc # Nowhere
           /\ m.name \in Messages \cap used /\ place[m.name] \in {f, Nowhere}
           /\ job.got[f].url => m.name \in DOMAIN job.got[f].token
           /\ \/ /\ m.name \in Fetched(f) /\ m = Brought(f, m.name)
                 /\ m.content = version[m.name]
                 /\ m.from = IF Stored(m.dir, m.name, m.content) \in base.snap
                             THEN m.dir ELSE Nowhere
              \/ /\ f \in Merging /\ m.name \notin Fetched(f) /\ m.from = base.paths[f]
                 /\ \E e \in Kept(f) : /\ m = KeptIn(f, e) /\ m.name = e.name
                                       /\ m.content = e.content /\ m.from = e.dir
  <1>1. \A f \in Containers : /\ Last(job.cache[f].path) = f /\ job.cache[f].loc # Nowhere
                              /\ AnswerIsGood(f, job.got[f])
    BY CacheAtTheEnd DEF AtTheEnd, IInv, JobIsGood
  <1>2. CASE \E f \in Containers : \E i \in Fetched(f) : m = Brought(f, i)
    <2>0. PICK f \in Containers : \E i \in Fetched(f) : m = Brought(f, i)
      BY <1>2
    <2>1. PICK i \in Fetched(f) : m = Brought(f, i)
      BY <2>0
    <2>2. /\ m.dir = job.cache[f].path /\ m.loc = job.cache[f].loc /\ m.name = i
          /\ m.content = version[i]
          /\ m.from = IF Stored(job.cache[f].path, i, version[i]) \in base.snap
                      THEN job.cache[f].path ELSE Nowhere
      BY <2>1 DEF Brought
    <2>3. i \in Messages \cap used /\ place[i] = f /\ i \in job.got[f].added
      BY ItemsAtTheEnd
    <2>4. job.got[f].url => i \in DOMAIN job.got[f].token
      BY <1>1, <2>3 DEF AnswerIsGood
    <2> QED BY <1>1, <2>1, <2>2, <2>3, <2>4
  <1>3. CASE \E f \in Merging : \E e \in Kept(f) : m = KeptIn(f, e)
    <2>0. PICK f \in Merging : \E e \in Kept(f) : m = KeptIn(f, e)
      BY <1>3
    <2>1. PICK e \in Kept(f) : m = KeptIn(f, e)
      BY <2>0
    <2>2. /\ m.dir = job.cache[f].path /\ m.loc = job.cache[f].loc /\ m.name = e.name
          /\ m.content = e.content /\ m.from = e.dir
      BY <2>1 DEF KeptIn
    <2>3. /\ f \in Containers /\ e.dir = base.paths[f]
          /\ e.name \in Messages \cap used /\ place[e.name] \in {f, Nowhere}
          /\ e.name \in DOMAIN job.got[f].token /\ e.name \notin Fetched(f)
      BY ItemsAtTheEnd
    <2> QED BY <1>1, <2>1, <2>2, <2>3
  <1> QED BY <1>2, <1>3, MergedIs

(* An item is once in a directory, and in the new snapshot it is merged    *)
(* with its own details.                                                   *)
LEMMA EntriesDiffer ==
  ASSUME AtTheEnd, NEW m \in Merged, NEW n \in Merged, m.name = n.name,
         m.dir = n.dir \/ (m.from # Nowhere /\ m.from = n.from)
  PROVE  m = n
  <1>0. /\ \A f \in DOMAIN base.paths : Last(base.paths[f]) = f
        /\ \A d, e \in base.snap : d.dir = e.dir /\ d.name = e.name => d = e
    BY DEF AtTheEnd, IInv, BaseIsGood, PathsAreGood
  <1>1. PICK f \in Containers :
          /\ m.dir = job.cache[f].path /\ Last(m.dir) = f
          /\ \/ /\ m.name \in Fetched(f) /\ m = Brought(f, m.name)
                /\ m.from = IF Stored(m.dir, m.name, m.content) \in base.snap
                            THEN m.dir ELSE Nowhere
             \/ /\ f \in Merging /\ m.name \notin Fetched(f) /\ m.from = base.paths[f]
                /\ \E e \in Kept(f) : m = KeptIn(f, e) /\ m.name = e.name /\ m.from = e.dir
    BY EntryIs
  <1>2. PICK g \in Containers :
          /\ n.dir = job.cache[g].path /\ Last(n.dir) = g
          /\ \/ /\ n.name \in Fetched(g) /\ n = Brought(g, n.name)
                /\ n.from = IF Stored(n.dir, n.name, n.content) \in base.snap
                            THEN n.dir ELSE Nowhere
             \/ /\ g \in Merging /\ n.name \notin Fetched(g) /\ n.from = base.paths[g]
                /\ \E e \in Kept(g) : n = KeptIn(g, e) /\ n.name = e.name /\ n.from = e.dir
    BY EntryIs
  <1>3. f = g
    <2>1. m.from # Nowhere => Last(m.from) = f
      BY <1>0, <1>1 DEF Merging
    <2>2. n.from # Nowhere => Last(n.from) = g
      BY <1>0, <1>2 DEF Merging
    <2> QED BY <1>1, <1>2, <2>1, <2>2
  <1>4. CASE m.name \in Fetched(f)
    BY <1>1, <1>2, <1>3, <1>4
  <1>5. CASE m.name \notin Fetched(f)
    <2>1. PICK e \in Kept(f) : m = KeptIn(f, e) /\ m.name = e.name /\ m.from = e.dir
      BY <1>1, <1>5
    <2>2. PICK d \in Kept(f) : n = KeptIn(f, d) /\ n.name = d.name /\ n.from = d.dir
      BY <1>2, <1>3, <1>5
    <2>3. d = e
      BY <1>0, <2>1, <2>2 DEF Kept
    <2> QED BY <2>1, <2>2, <2>3
  <1> QED BY <1>4, <1>5

LEMMA DetailsAreFound == AtTheEnd => ~Merge!MergeFails(Merged, base.details)
  <1> SUFFICES ASSUME AtTheEnd PROVE ~Merge!MergeFails(Merged, base.details)
    OBVIOUS
  <1>1. Merge!Items(Merged) \subseteq Merged
    BY DEF Merge!Items
  <1>2. base.snap = {Stored(d.dir, d.name, d.content) : d \in base.details}
    BY DEF AtTheEnd, IInv, BaseIsGood
  <1>3. ASSUME NEW m \in Merged, m.from # Nowhere
        PROVE  Merge!Old(base.details, m) # {}
    <2>1. Stored(m.from, m.name, m.content) \in base.snap
      <3>1. \A e \in base.snap : e = Stored(e.dir, e.name, e.content)
        BY DEF AtTheEnd, IInv, BaseIsGood
      <3>2. PICK f \in Containers :
              \/ m.from = IF Stored(m.dir, m.name, m.content) \in base.snap THEN m.dir ELSE Nowhere
              \/ \E e \in Kept(f) : m.name = e.name /\ m.content = e.content /\ m.from = e.dir
        BY EntryIs
      <3> QED BY <1>3, <3>1, <3>2 DEF Kept
    <2>2. PICK d \in base.details :
            Stored(m.from, m.name, m.content) = Stored(d.dir, d.name, d.content)
      BY <1>2, <2>1
    <2>3. m.from = d.dir /\ m.name = d.name /\ m.content = d.content
      BY <2>2 DEF Stored
    <2> QED BY <2>3 DEF Merge!Old
  <1>4. \A m, n \in Merged : m.from # Nowhere /\ m.from = n.from /\ m.name = n.name => m = n
    BY EntriesDiffer
  <1> QED BY <1>1, <1>3, <1>4 DEF Merge!MergeFails

-----------------------------------------------------------------------------
(* The end of a backup.                                                    *)

Detail(m) == [dir |-> m.dir, name |-> m.name, content |-> m.content, loc |-> m.loc]

LEMMA FinishStores ==
  ASSUME IInv, Finish
  PROVE  /\ AtTheEnd
         /\ base'.paths = [f \in Containers |-> job.cache[f].path]
         /\ base'.tokens = NextTokens
         /\ base'.snap = {Stored(m.dir, m.name, m.content) : m \in Merged}
         /\ base'.details = {Detail(m) : m \in Merged}
         /\ job' = IdleJob /\ UNCHANGED mailVars /\ UNCHANGED refused
  <1>1. AtTheEnd
    BY DEF AtTheEnd, Finish
  <1>2. ~Merge!Conflict(Colls) /\ ~Merge!MergeFails(Merged, base.details)
    BY <1>1, NoConflict, DetailsAreFound
  <1>3. /\ base' = [paths   |-> [f \in Containers |-> job.cache[f].path],
                    tokens  |-> NextTokens,
                    snap    |-> Merge!Snapshot(Merged),
                    details |-> Merge!Details(Colls, Merged, base.details)]
        /\ job' = IdleJob /\ UNCHANGED mailVars /\ UNCHANGED refused
    BY <1>2 DEF Finish, Colls, Merged
  <1>4. Merge!Snapshot(Merged) = {Stored(m.dir, m.name, m.content) : m \in Merged}
    BY DEF Merge!Snapshot, Stored
  <1>5. Merge!Details(Colls, Merged, base.details) = {Detail(m) : m \in Merged}
    <2>1. Merge!Items(Merged) = Merged
      <3>1. \A m \in Merged : m.name \in Messages
        BY <1>1, EntryIs
      <3> QED BY <3>1, ExchangeAssumption DEF Merge!Items
    <2>2. \A m \in Merged : m.loc # Nowhere
      BY <1>1, EntryIs
    <2> DEFINE new(m) == [dir |-> m.dir, name |-> m.name, content |-> m.content,
                          loc |-> IF m.loc # Nowhere THEN m.loc
                                  ELSE Merge!NewLocation(Colls,
                                         (CHOOSE d \in Merge!Old(base.details, m) : TRUE).loc)]
    <2>3. Merge!Details(Colls, Merged, base.details) = {new(m) : m \in Merged}
      BY <2>1 DEF Merge!Details
    <2>4. \A m \in Merged : new(m) = Detail(m)
      BY <2>2 DEF Detail
    <2> HIDE DEF new
    <2> QED BY <2>3, <2>4
  <1> QED BY <1>1, <1>3, <1>4, <1>5

(* What the new token stands for is stored.                                *)
LEMMA HasIsStored ==
  ASSUME AtTheEnd, NEW f \in Containers, NEW i \in Messages, place[i] = f,
         Has(f, job.got[f], i)
  PROVE  \E m \in Merged : /\ m.dir = job.cache[f].path /\ m.name = i
                           /\ m.content = version[i] /\ m.loc = job.cache[f].loc
  <1>0. /\ BaseIsGood /\ AnswerIsGood(f, job.got[f]) /\ f # Nowhere
    BY ResolverAssumption DEF AtTheEnd, IInv, JobIsGood, Containers, InCache
  <1>1. CASE i \in Fetched(f)
    <2>1. Brought(f, i) \in Merged
      BY <1>1, MergedIs
    <2> QED BY <2>1 DEF Brought
  <1>2. CASE i \notin Fetched(f)
    <2>1. /\ ~job.got[f].reset /\ i \notin job.got[f].removed
          /\ i \in DOMAIN base.tokens[f] /\ base.tokens[f][i] = version[i]
      BY <1>0, <1>2 DEF Has, Fetched
    <2>2. f \in DOMAIN base.tokens /\ f \in DOMAIN base.paths
      BY <1>0, <2>1 DEF AnswerIsGood, BaseIsGood
    <2> DEFINE e == Stored(base.paths[f], i, version[i])
    <2>3. e \in base.snap
      BY <1>0, <2>1, <2>2 DEF BaseIsGood
    <2>4. e.dir = base.paths[f] /\ e.name = i /\ e.content = version[i]
      BY DEF Stored
    <2> HIDE DEF e
    <2>5. f \in Merging /\ e \in Kept(f)
      BY <1>2, <2>1, <2>2, <2>3, <2>4 DEF Merging, Kept
    <2>6. KeptIn(f, e) \in Merged
      BY <2>5, MergedIs
    <2> QED BY <2>4, <2>6 DEF KeptIn
  <1> QED BY <1>1, <1>2

LEMMA FinishKeepsBase ==
  ASSUME IInv, Finish
  PROVE  BaseIsGood'
  <1>1. /\ AtTheEnd
        /\ base'.paths = [f \in Containers |-> job.cache[f].path] /\ base'.tokens = NextTokens
        /\ base'.snap = {Stored(m.dir, m.name, m.content) : m \in Merged}
        /\ base'.details = {Detail(m) : m \in Merged}
        /\ UNCHANGED <<home, title, place, version, used, ops>>
    BY FinishStores DEF mailVars
  <1>2. /\ DOMAIN base'.paths = Containers
        /\ \A f \in Containers : base'.paths[f] = job.cache[f].path
        /\ DOMAIN base'.tokens = {f \in Containers : job.got[f].url}
        /\ \A f \in DOMAIN base'.tokens : base'.tokens[f] = job.got[f].token
    BY <1>1 DEF NextTokens
  <1>3. \A f \in Containers : AnswerIsGood(f, job.got[f])
    BY <1>1 DEF AtTheEnd, IInv, JobIsGood
  <1>4. PathsAreGood(base'.paths)
    <2>1. \A f \in Containers :
            LET c == job.cache[f]
            IN  /\ f \in Folders /\ c.path \in Seq(Folders) /\ c.path # <<>> /\ Last(c.path) = f
                /\ c.up \in Containers \/ Front(c.path) = <<>>
                /\ Front(c.path) = job.cache[c.up].path
      BY <1>1, CacheAtTheEnd DEF AtTheEnd, IInv
    <2> QED BY <1>2, <2>1 DEF PathsAreGood
  <1>5. ASSUME NEW f \in DOMAIN base'.tokens, NEW i \in DOMAIN base'.tokens[f]
        PROVE  /\ i \in Messages \cap used
               /\ base'.tokens[f][i] \in Nat /\ base'.tokens[f][i] <= version[i]
               /\ place[i] = f /\ version[i] = base'.tokens[f][i] =>
                    Stored(base'.paths[f], i, version[i]) \in base'.snap
    <2>1. f \in Containers /\ job.got[f].url /\ i \in DOMAIN job.got[f].token
          /\ base'.tokens[f] = job.got[f].token
      BY <1>2
    <2>2. /\ i \in Messages \cap used /\ job.got[f].token[i] \in Nat
          /\ job.got[f].token[i] <= version[i]
          /\ place[i] = f /\ version[i] = job.got[f].token[i] => Has(f, job.got[f], i)
      BY <1>3, <2>1 DEF AnswerIsGood
    <2>3. ASSUME place[i] = f, version[i] = base'.tokens[f][i]
          PROVE  Stored(base'.paths[f], i, version[i]) \in base'.snap
      <3>1. \E m \in Merged : /\ m.dir = job.cache[f].path /\ m.name = i
                              /\ m.content = version[i] /\ m.loc = job.cache[f].loc
        BY <1>1, <2>1, <2>2, <2>3, HasIsStored
      <3> QED BY <1>1, <1>2, <2>1, <3>1
    <2> QED BY <2>1, <2>2, <2>3
  <1>6. ASSUME NEW m \in Merged
        PROVE  /\ m.name \in Messages \cap used
               /\ \E f \in DOMAIN base'.paths :
                    /\ m.dir = base'.paths[f] /\ place[m.name] \in {f, Nowhere}
                    /\ f \in DOMAIN base'.tokens => m.name \in DOMAIN base'.tokens[f]
    <2>1. PICK f \in Containers :
            /\ m.dir = job.cache[f].path
            /\ m.name \in Messages \cap used /\ place[m.name] \in {f, Nowhere}
            /\ job.got[f].url => m.name \in DOMAIN job.got[f].token
      BY <1>1, EntryIs
    <2> QED BY <1>2, <2>1
  <1>7. \A x, y, z : /\ Stored(x, y, z).dir = x /\ Stored(x, y, z).name = y
                     /\ Stored(x, y, z).content = z
    BY DEF Stored
  <1>8. \A e \in base'.snap :
          /\ e = Stored(e.dir, e.name, e.content) /\ e.name \in Messages \cap used
          /\ \E f \in DOMAIN base'.paths :
               /\ e.dir = base'.paths[f] /\ place[e.name] \in {f, Nowhere}
               /\ f \in DOMAIN base'.tokens => e.name \in DOMAIN base'.tokens[f]
    BY <1>1, <1>6, <1>7
  <1>9. \A d, e \in base'.snap : d.dir = e.dir /\ d.name = e.name => d = e
    <2> SUFFICES ASSUME NEW m \in Merged, NEW n \in Merged, m.dir = n.dir, m.name = n.name
                 PROVE  m = n
      BY <1>1, <1>7
    <2> QED BY <1>1, EntriesDiffer
  <1>10. base'.snap = {Stored(d.dir, d.name, d.content) : d \in base'.details}
    <2>1. \A m : Detail(m).dir = m.dir /\ Detail(m).name = m.name /\ Detail(m).content = m.content
      BY DEF Detail
    <2> QED BY <1>1, <2>1
  <1> QED BY <1>1, <1>2, <1>4, <1>5, <1>8, <1>9, <1>10 DEF BaseIsGood

LEMMA FinishKeeps ==
  ASSUME IInv, Finish
  PROVE  IInv'
  <1>1. job' = IdleJob /\ UNCHANGED <<home, title, place, version, used, ops, refused>>
    BY FinishStores DEF mailVars
  <1>2. MailIsGood'
    <2>1. Existing' = Existing
      BY <1>1 DEF Existing
    <2> QED BY <1>1, <2>1 DEF IInv, MailIsGood
  <1> QED BY <1>1, <1>2, IdleKeeps, FinishKeepsBase DEF IInv

LEMMA NextIInv ==
  ASSUME IInv, [Next]_vars
  PROVE  IInv'
  <1>1. CASE User
    BY <1>1, UserKeeps
  <1>2. CASE \E missed \in SUBSET Folders : StartBackup(missed)
    BY <1>2, StartKeeps
  <1>3. CASE \E f \in Folders : ResolvePath(f)
    BY <1>3, ResolveKeeps
  <1>4. CASE \E f \in Folders : \E expired, url \in BOOLEAN : Enumerate(f, expired, url)
    BY <1>4, EnumerateKeeps
  <1>5. CASE Finish
    BY <1>5, FinishKeeps
  <1>6. CASE Fail
    BY <1>6, FailKeeps
  <1>7. CASE UNCHANGED vars
    <2>1. UNCHANGED <<home, title, place, version, base, job, refused, used, ops>>
      BY <1>7 DEF vars
    <2>2. Existing' = Existing /\ Containers' = Containers
      BY <2>1 DEF Existing, Containers
    <2>3. MailIsGood' /\ BaseIsGood'
      BY <2>1, <2>2 DEF IInv, MailIsGood, BaseIsGood
    <2>4. \A f, a : AnswerIsGood(f, a) => AnswerIsGood(f, a)'
      BY <2>1 DEF AnswerIsGood, Has
    <2>5. \A C : Closed(C)' => Closed(C)
      BY <2>1, <2>2 DEF Closed
    <2>6. JobIsGood'
      BY <2>1, <2>2, <2>4, <2>5 DEF IInv, JobIsGood
    <2> QED BY <2>1, <2>3, <2>6 DEF IInv
  <1> QED BY <1>1, <1>2, <1>3, <1>4, <1>5, <1>6, <1>7 DEF Next

LEMMA AlwaysIInv == Spec => []IInv
  <1>1. Init => IInv
    BY InitIInv
  <1>2. IInv /\ [Next]_vars => IInv'
    BY NextIInv
  <1> QED BY <1>1, <1>2, PTL DEF Spec

-----------------------------------------------------------------------------
(* The theorems.                                                           *)

LEMMA Typed == IInv => TypeOK
  <1> SUFFICES ASSUME IInv PROVE TypeOK
    OBVIOUS
  <1>1. /\ home \in [Folders -> Folders \cup {Root, Nowhere}]
        /\ place \in [Messages -> Folders \cup {Nowhere}] /\ ops \in 0..MaxOps
    BY DEF IInv, MailIsGood, Dirs
  <1>2. version \in [Messages -> 1..MaxOps + 1]
    <2>1. version \in [Messages -> 1..ops + 1] /\ 1..ops + 1 \subseteq 1..MaxOps + 1
      BY <1>1, ExchangeAssumption DEF IInv, MailIsGood
    <2> QED BY <2>1
  <1>3. job.todo \subseteq Folders /\ DOMAIN job.got \subseteq InCache(job.cache)
    BY DEF IInv, JobIsGood, Containers
  <1>4. ASSUME job.todo = {}, NEW f \in Containers
        PROVE  /\ job.cache[f].up \in InCache(job.cache)
               /\ job.cache[f].path = Append(job.cache[job.cache[f].up].path, f)
               /\ job.cache[f].loc = Append(job.cache[job.cache[f].up].loc, job.cache[f].name)
    BY <1>4, CacheAtTheEnd DEF IInv, Containers
  <1> QED BY <1>1, <1>2, <1>3, <1>4 DEF TypeOK

(* The types, and the shape of the cache: once all paths are populated they*)
(* are those of a tree, each that of the parent and the ID of the folder,  *)
(* whatever the user moved, renamed or deleted while they were resolved and*)
(* whichever folders the listing did not have.                             *)
THEOREM MailboxTypeCorrect == Spec => []TypeOK
  <1>1. IInv => TypeOK
    BY Typed
  <1> QED BY <1>1, AlwaysIInv, PTL

(* No collections of a backup claim one path, and all details of the items *)
(* that it keeps are found, after any earlier backups.                     *)
THEOREM ExchangeNeverRefused == Spec => []NeverRefused
  <1>1. IInv => NeverRefused
    BY DEF IInv, NeverRefused
  <1> QED BY <1>1, AlwaysIInv, PTL

(* Where nothing that a folder is in is touched, its path in the cache is  *)
(* that in the mailbox.                                                    *)
LEMMA CleanPaths ==
  ASSUME AtTheEnd, NEW C \in SUBSET Folders, Closed(C), NEW f \in C \cap Containers
  PROVE  job.cache[f].path = PathOf(f) /\ job.cache[f].loc = LocationOf(f)
  <1> DEFINE A == C \cap Containers
             cache == job.cache
             ids == [g \in Folders |-> g]
             Bad == {g \in A : ~(cache[g].path = PathOf(g) /\ cache[g].loc = LocationOf(g))}
  <1>1. /\ Forest(home) /\ DOMAIN home = Folders /\ \A g \in Folders : title[g] \in Names
        /\ Root \notin Folders
    BY ResolverAssumption DEF AtTheEnd, IInv, MailIsGood
  <1>2. ASSUME NEW g \in A
        PROVE  /\ g \in Folders /\ cache[g].up = home[g] /\ cache[g].name = title[g]
               /\ home[g] \in A \cup {Root}
               /\ cache[g].path = Append(cache[home[g]].path, g)
               /\ cache[g].loc = Append(cache[home[g]].loc, title[g])
    <2>1. cache[g] # Nowhere
      BY DEF Containers, InCache
    <2>2. cache[g].up = home[g] /\ cache[g].name = title[g] /\ home[g] \in C \cup {Root}
      BY <2>1 DEF AtTheEnd, IInv, JobIsGood, Closed
    <2> QED BY <2>2, CacheAtTheEnd DEF AtTheEnd, IInv
  <1>3. cache[Root].path = <<>> /\ cache[Root].loc = <<>>
    BY CacheAtTheEnd DEF AtTheEnd, IInv
  <1> HIDE DEF A
  <1>4. A \subseteq Below(home, Root)
    <2>1. \A g \in A : g \in DOMAIN home /\ home[g] \in A \cup {Root} /\ title[g] \in Names
      BY <1>1, <1>2
    <2>2. Root \notin A
      BY <1>1, <1>2
    <2> QED BY <1>1, <2>1, <2>2, PathsDiffer
  <1>5. /\ Paths(home, ids)[Root] = <<>> /\ Paths(home, title)[Root] = <<>>
        /\ \A g \in A : /\ Paths(home, ids)[g] = Append(Paths(home, ids)[home[g]], g)
                        /\ Paths(home, title)[g] = Append(Paths(home, title)[home[g]], title[g])
    BY <1>1, <1>2, <1>4, PathsAre
  <1>6. Bad = {}
    <2> SUFFICES ASSUME Bad # {} PROVE FALSE
      OBVIOUS
    <2>1. Bad \in SUBSET DOMAIN home
      BY <1>1, <1>2
    <2>2. PICK g \in Bad : home[g] \notin Bad
      BY <1>1, <2>1 DEF Forest
    <2>3. /\ cache[home[g]].path = Paths(home, ids)[home[g]]
          /\ cache[home[g]].loc = Paths(home, title)[home[g]]
      BY <1>2, <1>3, <1>5, <2>2 DEF PathOf, LocationOf
    <2>4. g \in A /\ ~(cache[g].path = Paths(home, ids)[g] /\ cache[g].loc = Paths(home, title)[g])
      BY <2>2 DEF PathOf, LocationOf
    <2>5. /\ cache[g].path = Append(cache[home[g]].path, g)
          /\ cache[g].loc = Append(cache[home[g]].loc, title[g])
      BY <1>2, <2>4
    <2>6. /\ Paths(home, ids)[g] = Append(Paths(home, ids)[home[g]], g)
          /\ Paths(home, title)[g] = Append(Paths(home, title)[home[g]], title[g])
      BY <1>5, <2>4
    <2> HIDE DEF cache, ids, Bad
    <2> QED BY <2>3, <2>4, <2>5, <2>6, Zenon
  <1> QED BY <1>6 DEF A

(* The folders that a folder is in, with it.                               *)
LEMMA AboveIsClosed ==
  ASSUME IInv, NEW f \in Existing,
         {g \in Existing : f \in Inside(g)} \cap job.touched = {}
  PROVE  /\ {g \in Existing : f \in Inside(g)} \in SUBSET Folders
         /\ Closed({g \in Existing : f \in Inside(g)})
         /\ f \in {g \in Existing : f \in Inside(g)}
  <1> DEFINE above == {g \in Existing : f \in Inside(g)}
  <1>1. Forest(home) /\ DOMAIN home = Folders /\ \A g \in Existing : home[g] \in Existing \cup {Root}
    BY DEF IInv, MailIsGood
  <1>2. Existing \subseteq Folders
    BY DEF Existing
  <1>3. ASSUME NEW g \in above PROVE home[g] \in above \cup {Root}
    <2>1. CASE home[g] = Root
      BY <2>1
    <2>2. CASE home[g] # Root
      <3> DEFINE h == home[g]
      <3>1. h \in Existing /\ g \in Below(home, h)
        BY <1>1, <1>2, <2>2, BelowIs
      <3>2. Below(home, g) \subseteq Below(home, h)
        BY <1>1, <3>1, BelowBelow
      <3>3. f \in Below(home, h)
        BY <3>1, <3>2 DEF Inside
      <3> QED BY <3>1, <3>3 DEF Inside
    <2> QED BY <2>1, <2>2
  <1>4. f \in above
    BY DEF Inside
  <1> QED BY <1>2, <1>3, <1>4 DEF Closed

(* What a backup stores of an item, that the user does not touch while it  *)
(* runs.                                                                   *)
LEMMA UntouchedIsRight ==
  ASSUME IInv, Finish, NEW i \in Messages \ job.touched
  PROVE  /\ place[i] = Nowhere => ~\E e \in base'.details : e.name = i
         /\ place[i] \notin job.missed \cup {Nowhere} =>
              LET above == {f \in Existing : place[i] \in Inside(f)}
              IN  above \cap job.touched = {} => Entry(i) \in base'.details
  <1>1. AtTheEnd /\ base'.details = {Detail(m) : m \in Merged}
    BY FinishStores
  <1>2. \A f \in Containers : AnswerIsGood(f, job.got[f])
    BY <1>1 DEF AtTheEnd, IInv, JobIsGood
  <1>3. ASSUME place[i] = Nowhere, NEW m \in Merged, m.name = i PROVE FALSE
    <2>1. PICK f \in Containers :
            \/ i \in Fetched(f)
            \/ f \in Merging /\ \E e \in Kept(f) : m.name = e.name
      BY <1>1, <1>3, EntryIs
    <2>2. PICK e \in Kept(f) : f \in Merging /\ e.name = i
      BY <1>3, <2>1 DEF Fetched
    <2>3. ~job.got[f].reset /\ i \in DOMAIN base.tokens[f] /\ i \notin job.got[f].removed
      BY <1>1, <2>2, ItemsAtTheEnd DEF Merging
    <2> QED BY <1>2, <1>3, <2>3 DEF AnswerIsGood
  <1>4. ASSUME place[i] \notin job.missed \cup {Nowhere},
               {f \in Existing : place[i] \in Inside(f)} \cap job.touched = {}
        PROVE  Entry(i) \in base'.details
    <2> DEFINE f == place[i]
               above == {g \in Existing : f \in Inside(g)}
    <2>1. f \in Existing
      BY <1>4 DEF IInv, MailIsGood
    <2>2. above \in SUBSET Folders /\ Closed(above) /\ f \in above
      BY <1>4, <2>1, AboveIsClosed
    <2> HIDE DEF above
    <2>3. f \in Containers
      <3>1. job.cache[f] # Nowhere
        BY <1>1, <1>4, <2>2 DEF AtTheEnd, IInv, JobIsGood
      <3> QED BY <2>2, <3>1, ResolverAssumption DEF Containers, InCache, Dirs
    <2>4. job.cache[f].path = PathOf(f) /\ job.cache[f].loc = LocationOf(f)
      BY <1>1, <2>2, <2>3, CleanPaths
    <2>5. Has(f, job.got[f], i)
      BY <1>2, <2>3 DEF AnswerIsGood
    <2>6. PICK m \in Merged : /\ m.dir = job.cache[f].path /\ m.name = i
                              /\ m.content = version[i] /\ m.loc = job.cache[f].loc
      BY <1>1, <2>3, <2>5, HasIsStored
    <2>7. Detail(m) = Entry(i)
      BY <2>4, <2>6 DEF Detail, Entry
    <2> QED BY <1>1, <2>7
  <1> QED BY <1>1, <1>3, <1>4 DEF Detail

(* Only the end of a backup changes what is stored.                        *)
LEMMA OthersKeepBase ==
  ASSUME IInv, [Next]_vars, base' # base
  PROVE  Finish
  <1>1. User => base' = base
    BY UserIs DEF IInv, UserDid
  <1>2. UNCHANGED vars => base' = base
    BY DEF vars
  <1> QED BY <1>1, <1>2 DEF Next, StartBackup, ResolvePath, Enumerate, Fail

(* An item that nobody touches during a backup, in folders that nobody     *)
(* touches and that were listed, is stored in its last version, at its     *)
(* place; one that was removed before is not: whatever the user does to the*)
(* others, and whatever earlier backups have stored.                       *)
THEOREM UntouchedItems == Spec => UntouchedItemsAreRight
  <1>1. IInv /\ [Next]_vars =>
          [base' # base =>
             \A i \in Messages \ job.touched :
               /\ place[i] = Nowhere => ~\E e \in base'.details : e.name = i
               /\ place[i] \notin job.missed \cup {Nowhere} =>
                    LET above == {f \in Existing : place[i] \in Inside(f)}
                    IN  above \cap job.touched = {} => Entry(i) \in base'.details]_vars
    BY OthersKeepBase, UntouchedIsRight
  <1> QED BY <1>1, AlwaysIInv, PTL DEF Spec, UntouchedItemsAreRight

(* A backup that is not disturbed stores the mailbox.                      *)
LEMMA UndisturbedIsMailNow ==
  ASSUME IInv, Finish, job.touched = {}, job.missed = {}
  PROVE  base'.details = MailNow
  <1>1. /\ AtTheEnd /\ base'.details = {Detail(m) : m \in Merged} /\ Messages \ job.touched = Messages
    BY FinishStores
  <1>2. \A i \in Messages :
          /\ place[i] = Nowhere => ~\E e \in base'.details : e.name = i
          /\ place[i] # Nowhere => Entry(i) \in base'.details
    BY <1>1, UntouchedIsRight
  <1>3. ASSUME NEW m \in Merged
        PROVE  m.name \in Messages /\ place[m.name] # Nowhere /\ Detail(m) = Entry(m.name)
    <2>1. PICK f \in Containers :
            /\ m.dir = job.cache[f].path /\ m.loc = job.cache[f].loc
            /\ m.name \in Messages \cap used /\ place[m.name] \in {f, Nowhere}
      BY <1>1, EntryIs
    <2>2. m.name \in Messages /\ place[m.name] = f /\ f # Nowhere
      <3>1. Detail(m) \in base'.details /\ Detail(m).name = m.name
        BY <1>1 DEF Detail
      <3> QED BY <1>2, <2>1, <3>1, ResolverAssumption DEF Containers, InCache
    <2>3. PICK n \in Merged : Detail(n) = Entry(m.name)
      BY <1>1, <1>2, <2>1, <2>2
    <2>4. n.name = m.name /\ n.dir = PathOf(f) /\ n.content = version[m.name]
      BY <2>2, <2>3 DEF Detail, Entry
    <2>5. n.dir = m.dir
      <3> DEFINE above == {g \in Existing : f \in Inside(g)}
      <3>1. f \in Existing
        BY <2>1, <2>2, ResolverAssumption DEF IInv, MailIsGood, Containers, InCache, Dirs
      <3>2. above \in SUBSET Folders /\ Closed(above) /\ f \in above
        BY <3>1, AboveIsClosed
      <3> HIDE DEF above
      <3>3. job.cache[f].path = PathOf(f)
        BY <1>1, <3>2, CleanPaths
      <3> QED BY <2>1, <2>4, <3>3
    <2>6. n = m
      BY <1>1, <2>4, <2>5, EntriesDiffer
    <2> QED BY <2>2, <2>3, <2>6
  <1>4. MailNow = {Entry(i) : i \in {j \in Messages : place[j] # Nowhere}}
    BY DEF MailNow
  <1>5. base'.details \subseteq MailNow
    BY <1>1, <1>3, <1>4
  <1>6. MailNow \subseteq base'.details
    BY <1>2, <1>4
  <1> QED BY <1>5, <1>6

LEMMA MailStays == UNCHANGED <<home, title, place, version>> => MailNow' = MailNow
  BY DEF MailNow, Entry, PathOf, LocationOf

LEMMA StepsCatchUp ==
  ASSUME IInv, [Next]_vars
  PROVE  [CatchingUp!Next]_<<MailNow, base.details, ~job.running \/ job.touched # {} \/ job.missed # {}>>
  <1> DEFINE disturbed == ~job.running \/ job.touched # {} \/ job.missed # {}
  <1>0. JobIsGood
    BY DEF IInv
  <1>1. CASE User
    <2>1. PICK T : UserDid(T)
      BY <1>1, UserIs DEF IInv
    <2>2. base' = base
      BY <2>1 DEF UserDid
    <2>3. disturbed' = TRUE
      <3>1. CASE ~job.running
        <4>1. job = IdleJob
          BY <1>0, <3>1 DEF JobIsGood
        <4>2. job' = [job EXCEPT !.touched = @]
          BY <2>1, <3>1 DEF UserDid
        <4>3. ~job'.running
          BY <4>1, <4>2, IdleJobIs
        <4> QED BY <4>3
      <3>2. CASE job.running
        <4>1. job = [running |-> job.running, cache |-> job.cache, todo |-> job.todo,
                     got |-> job.got, touched |-> job.touched, missed |-> job.missed]
          BY <1>0 DEF JobIsGood
        <4>2. job' = [job EXCEPT !.touched = @ \cup T] /\ T # {}
          BY <2>1, <3>2 DEF UserDid
        <4>3. job'.touched # {}
          BY <4>1, <4>2
        <4> QED BY <4>3
      <3> QED BY <3>1, <3>2
    <2> HIDE DEF disturbed
    <2>4. CatchingUp!Change \/ CatchingUp!Begin
      BY <2>2, <2>3 DEF CatchingUp!Change, CatchingUp!Begin, disturbed
    <2> QED BY <2>4 DEF CatchingUp!Next
  <1>2. CASE Finish
    <2>1. /\ job' = IdleJob /\ UNCHANGED <<home, title, place, version>> /\ job.running
      BY <1>2, FinishStores DEF mailVars, Finish
    <2>2. MailNow' = MailNow
      BY <2>1, MailStays
    <2>3. disturbed' = TRUE
      BY <2>1, IdleJobIs
    <2>4. ~disturbed => base'.details = MailNow
      BY <1>2, UndisturbedIsMailNow
    <2> HIDE DEF disturbed
    <2>5. CatchingUp!Backup
      BY <2>2, <2>3, <2>4 DEF CatchingUp!Backup, disturbed
    <2> QED BY <2>5 DEF CatchingUp!Next
  <1>3. CASE UNCHANGED vars
    <2>1. UNCHANGED <<home, title, place, version, base, job>>
      BY <1>3 DEF vars
    <2> QED BY <2>1, MailStays
  <1>4. CASE ~User /\ ~Finish /\ Next
    <2>1. UNCHANGED <<mailVars, base>>
      BY <1>4 DEF Next, StartBackup, ResolvePath, Enumerate, Fail
    <2>2. MailNow' = MailNow /\ base' = base
      BY <2>1, MailStays DEF mailVars
    <2>3. disturbed' \in BOOLEAN
      OBVIOUS
    <2>4. CatchingUp!Begin
      BY <2>2, <2>3 DEF CatchingUp!Begin
    <2> QED BY <2>4 DEF CatchingUp!Next
  <1> QED BY <1>1, <1>2, <1>3, <1>4

(* Backups of a mailbox, whose user goes on working, are what CatchUp says:*)
(* one that nothing disturbed holds the mailbox as it is, after any earlier*)
(* ones, whether they failed, had folders missing, or got no token.        *)
THEOREM ExchangeCatchesUp == Spec => ImplementsCatchUp
  <1>1. Init => CatchingUp!Init
    <2> SUFFICES ASSUME Init PROVE CatchingUp!Init
      OBVIOUS
    <2>1. base.details = {} /\ ~job.running
      BY IdleJobIs DEF Init, NoBase
    <2> QED BY <2>1 DEF CatchingUp!Init
  <1>2. IInv /\ [Next]_vars =>
          [CatchingUp!Next]_<<MailNow, base.details, ~job.running \/ job.touched # {} \/ job.missed # {}>>
    BY StepsCatchUp
  <1> QED BY <1>1, <1>2, AlwaysIInv, PTL DEF Spec, ImplementsCatchUp, CatchingUp!Spec
================================================================================
