------------------------ MODULE CacheCoherencyProofs ------------------------
(***************************************************************************)
(* Theorems about CacheCoherency, for every number of isolates, reads and  *)
(* writes, as long as the writes all run on one isolate.  With two writing *)
(* isolates an isolate's own bump can hide a peer's, and BaselineIsHonest  *)
(* and ReadsAreFresh are false.                                            *)
(*                                                                         *)
(* What makes it work is that a value in flight is fenced exactly when the *)
(* entry is dropped, so whatever the entry owes, a load that may still be  *)
(* published owes too: Floor is stated of both.                            *)
(***************************************************************************)
EXTENDS CacheCoherency, FiniteSetTheorems, TLAPS

\* The hypothesis of the freshness theorems.
OneWritingIsolate == \A v, w \in Writers : Home[v] = Home[w]

-----------------------------------------------------------------------------
(* The inductive invariant. *)

\* v is the newest version among the first g of the bumps d.
IsNewest(d, g, v) ==
  /\ v = 0 \/ \E k \in 1 .. g : d[k] = v
  /\ \A k \in 1 .. g : d[k] <= v

\* Announced, of any directory.
Newest(d, g) == CHOOSE v \in Versions : IsNewest(d, g, v)

\* A write that has not bumped yet: no bump announces its version.
Unannounced(w) == writer[w].pc \in {"committed", "dropped"}

\* A commit is bumped at most once, so the directory never outgrows the source.
DirectoryInv ==
  /\ \A g \in 0 .. Generation : \E v \in Versions : IsNewest(directory, g, v)
  /\ \A k \in 1 .. Generation : directory[k] \in 1 .. source
  /\ \A j, k \in 1 .. Generation : directory[j] = directory[k] => j = k
  /\ \A w \in Writers :
       /\ writer[w].version <= source
       /\ Unannounced(w) =>
            /\ writer[w].version > 0
            /\ \A k \in 1 .. Generation : directory[k] # writer[w].version
            /\ \A v \in Writers :
                 Unannounced(v) /\ writer[v].version = writer[w].version => v = w

TypeInv == TypeOK /\ DirectoryInv

\* What a read and a write may hold at generation g.
ReadStates(g) ==
  [pc : {"idle", "probing", "answered", "reading", "joined", "loading", "loaded"},
   got : 0 .. g, value : Versions, fenced : BOOLEAN, owed : Versions,
   from : Readers]
WriteStates(g) ==
  [pc : {"idle", "committed", "dropped", "bumped"}, version : Versions,
   got : 0 .. g]

\* With entries e and reads rs, neither what isolate i caches nor a load that
\* may still be published there is older than x.
Floor(e, rs, i, x) ==
  /\ e[i] # None => e[i] >= x
  /\ \A r \in Readers :
       Home[r] = i /\ rs[r].pc = "loaded" /\ ~rs[r].fenced => rs[r].value >= x

\* What an isolate has seen, was promised and has written bounds what it caches.
IsolateInv(i) ==
  /\ Floor(entry, reader, i, Newest(directory, baseline[i]))
  /\ Floor(entry, reader, i, written[i])
  /\ inWindow[i] => Floor(entry, reader, i, told[i])
  /\ written[i] <= source
  /\ told[i] <= Newest(directory, Generation)

ReaderInv(r) ==
  LET i == Home[r]
  IN /\ reader[r].owed <= source
     /\ reader[r].pc \in {"probing", "answered"} => reader[r].owed <= written[i]
     /\ reader[r].pc = "answered" =>
          told[i] <= Newest(directory, Larger(baseline[i], reader[r].got))
     /\ reader[r].pc \in {"reading", "loading", "loaded"} =>
          Floor(entry, reader, i, reader[r].owed)
     /\ reader[r].pc = "loaded" => reader[r].value >= reader[r].owed

WriterInv(w) ==
  /\ writer[w].pc \in {"dropped", "bumped"} =>
       Floor(entry, reader, Home[w], writer[w].version)
  /\ \A k \in 1 .. Generation : Floor(entry, reader, Home[w], directory[k])

FreshInv ==
  /\ TypeInv
  /\ \A i \in Isolates : IsolateInv(i)
  /\ \A r \in Readers : ReaderInv(r)
  /\ \A w \in Writers : WriterInv(w)

-----------------------------------------------------------------------------
(* What Newest chooses. *)

\* The newest of the first g bumps is one version, and Newest is it.
LEMMA NewestIs ==
  ASSUME NEW d \in Seq(Versions), NEW g \in 0 .. Len(d), NEW v \in Versions,
         IsNewest(d, g, v)
  PROVE  Newest(d, g) = v
<1>1. /\ Newest(d, g) \in Versions /\ IsNewest(d, g, Newest(d, g))
      /\ Versions \subseteq Nat
  BY CoherencyAssumption DEF Newest, Versions
<1>2. ASSUME NEW u \in Versions, NEW w \in Versions,
             IsNewest(d, g, u), IsNewest(d, g, w)
      PROVE  u <= w
  <2>1. u \in Nat /\ w \in Nat
    BY <1>1
  <2>2. u = 0 \/ \E k \in 1 .. g : d[k] = u
    BY <1>2 DEF IsNewest
  <2>3. \A k \in 1 .. g : d[k] <= w
    BY <1>2 DEF IsNewest
  <2>. QED
    BY <2>1, <2>2, <2>3
<1>3. Newest(d, g) <= v /\ v <= Newest(d, g)
  BY <1>1, <1>2
<1>4. Newest(d, g) \in Nat /\ v \in Nat
  BY <1>1
<1>. QED
  BY <1>3, <1>4

\* Newest of the directory: it is one of the bumps or 0, rises with the
\* generation and never passes the source.
LEMMA NewestFacts ==
  ASSUME TypeInv, NEW g \in 0 .. Generation
  PROVE  /\ Newest(directory, g) \in 0 .. source
         /\ IsNewest(directory, g, Newest(directory, g))
         /\ \A h \in 0 .. g : Newest(directory, h) <= Newest(directory, g)
<1>1. /\ directory \in Seq(Versions) /\ source \in Nat /\ Generation \in Nat
      /\ Versions \subseteq Nat /\ 0 \in Versions
  BY CoherencyAssumption DEF TypeInv, TypeOK, Versions, Generation
<1>2. ASSUME NEW h \in 0 .. Generation
      PROVE  /\ Newest(directory, h) \in Versions
             /\ IsNewest(directory, h, Newest(directory, h))
  <2>1. PICK v \in Versions : IsNewest(directory, h, v)
    BY DEF TypeInv, DirectoryInv
  <2>2. Newest(directory, h) = v
    BY <1>1, <2>1, NewestIs DEF Generation
  <2>. QED
    BY <2>1, <2>2
<1>3. Newest(directory, g) \in 0 .. source
  BY <1>1, <1>2 DEF IsNewest, TypeInv, DirectoryInv
<1>4. ASSUME NEW h \in 0 .. g
      PROVE  Newest(directory, h) <= Newest(directory, g)
  <2>1. h \in 0 .. Generation /\ 1 .. h \subseteq 1 .. g
    BY <1>1
  <2>2. CASE Newest(directory, h) = 0
    BY <1>3, <2>2
  <2>3. CASE \E k \in 1 .. h : directory[k] = Newest(directory, h)
    <3>1. \A k \in 1 .. g : directory[k] <= Newest(directory, g)
      BY <1>2 DEF IsNewest
    <3>. QED
      BY <2>1, <2>3, <3>1
  <2>4. Newest(directory, h) = 0 \/ \E k \in 1 .. h : directory[k] = Newest(directory, h)
    BY <1>2, <2>1 DEF IsNewest
  <2>. QED
    BY <2>2, <2>3, <2>4
<1>. QED
  BY <1>2, <1>3, <1>4

LEMMA NewestRises ==
  TypeInv => /\ Newest(directory, Generation) \in Nat
             /\ \A g \in 0 .. Generation :
                  Newest(directory, g) <= Newest(directory, Generation)
<1> SUFFICES ASSUME TypeInv
             PROVE  /\ Newest(directory, Generation) \in Nat
                    /\ \A g \in 0 .. Generation :
                         Newest(directory, g) <= Newest(directory, Generation)
  OBVIOUS
<1>1. Generation \in 0 .. Generation
  BY DEF TypeInv, TypeOK, Generation
<1>. QED
  BY <1>1, NewestFacts

\* No bump, nothing announced.
LEMMA NewestOfNone ==
  ASSUME TypeInv
  PROVE  Newest(directory, 0) = 0
<1>1. directory \in Seq(Versions) /\ 0 \in Versions /\ 0 \in 0 .. Len(directory)
  BY CoherencyAssumption DEF TypeInv, TypeOK, Versions
<1>2. IsNewest(directory, 0, 0)
  BY DEF IsNewest
<1>. QED
  BY <1>1, <1>2, NewestIs

LEMMA LargerFacts ==
  ASSUME NEW a \in Nat, NEW b \in Nat
  PROVE  /\ Larger(a, b) \in Nat /\ Larger(a, b) \in {a, b}
         /\ a <= Larger(a, b) /\ b <= Larger(a, b)
BY DEF Larger

-----------------------------------------------------------------------------
(* Types, and the directory against the writes. *)

\* As many bumps as different versions they announce.
LEMMA BumpsWithinSource ==
  ASSUME NEW n \in Nat, NEW m \in Nat, NEW d,
         \A k \in 1 .. n : d[k] \in 1 .. m,
         \A j, k \in 1 .. n : d[j] = d[k] => j = k
  PROVE  n <= m
<1> SUFFICES ASSUME m < n PROVE FALSE
  OBVIOUS
<1> DEFINE f == [k \in 1 .. n |-> d[k]]
<1>1. f \in [1 .. n -> 1 .. m]
  OBVIOUS
<1>2. /\ IsFiniteSet(1 .. n) /\ Cardinality(1 .. n) = n
      /\ IsFiniteSet(1 .. m) /\ Cardinality(1 .. m) = m
  BY FS_Interval
<1>3. \A j, k \in 1 .. n : f[j] = f[k] => j = k
  OBVIOUS
<1> HIDE DEF f
<1>4. \E j, k \in 1 .. n : j # k /\ f[j] = f[k]
  BY <1>1, <1>2, FS_PigeonHole
<1>. QED
  BY <1>3, <1>4

\* What the step of one write does to DirectoryInv when nothing is announced.
LEMMA DirectoryKept ==
  ASSUME TypeInv, UNCHANGED directory, source' \in Nat, source <= source',
         \A w \in Writers :
           \/ writer'[w] = writer[w]
           \/ writer'[w] = NotWriting
           \/ writer'[w].version = writer[w].version
              /\ (Unannounced(w)' => Unannounced(w))
  PROVE  DirectoryInv'
<1>1. ASSUME NEW w \in Writers
      PROVE  /\ writer'[w].version <= source
             /\ Unannounced(w)' => Unannounced(w) /\ writer'[w].version = writer[w].version
  <2>1. writer[w].version <= source /\ source \in Nat
    BY CoherencyAssumption DEF TypeInv, TypeOK, DirectoryInv, Versions
  <2>2. CASE writer'[w] = NotWriting
    BY <2>1, <2>2 DEF NotWriting, Unannounced
  <2>. QED
    BY <2>1, <2>2 DEF Unannounced
<1>2. Generation' = Generation /\ directory' = directory
  BY DEF Generation
<1>3. \A g \in 0 .. Generation : \E v \in Versions : IsNewest(directory, g, v)
  BY DEF TypeInv, DirectoryInv
<1>4. /\ \A k \in 1 .. Generation : directory[k] \in 1 .. source'
      /\ \A j, k \in 1 .. Generation : directory[j] = directory[k] => j = k
  <2>1. source \in Nat
    BY CoherencyAssumption DEF TypeInv, TypeOK, Versions
  <2>. QED
    BY <2>1 DEF TypeInv, DirectoryInv
<1>5. \A w \in Writers :
        /\ writer'[w].version <= source'
        /\ Unannounced(w)' =>
             /\ writer'[w].version > 0
             /\ \A k \in 1 .. Generation : directory[k] # writer'[w].version
             /\ \A v \in Writers : Unannounced(v)' /\ writer'[v].version = writer'[w].version
                                   => v = w
  <2>1. /\ source \in Nat
        /\ \A w \in Writers : writer[w].version \in Nat
    BY CoherencyAssumption DEF TypeInv, TypeOK, Versions
  <2>2. \A w \in Writers : writer'[w].version <= source'
    <3> SUFFICES ASSUME NEW w \in Writers PROVE writer'[w].version <= source'
      OBVIOUS
    <3>1. writer'[w].version \in Nat
      BY <2>1 DEF NotWriting
    <3>. QED
      BY <1>1, <2>1, <3>1
  <2>3. \A w \in Writers : Unannounced(w) =>
             /\ writer[w].version > 0
             /\ \A k \in 1 .. Generation : directory[k] # writer[w].version
             /\ \A v \in Writers : Unannounced(v) /\ writer[v].version = writer[w].version
                                   => v = w
    BY DEF TypeInv, DirectoryInv
  <2>. QED
    BY <1>1, <2>2, <2>3
<1>. QED
  BY <1>2, <1>3, <1>4, <1>5 DEF DirectoryInv

\* A bump announces one version more, one that nothing has announced.
LEMMA DirectoryBumped ==
  ASSUME TypeInv, NEW w \in Writers, Bump(w)
  PROVE  /\ DirectoryInv' /\ Generation' = Generation + 1
         /\ directory' \in Seq(Versions)
         /\ \A k \in 1 .. Generation : directory'[k] = directory[k]
         /\ directory'[Generation'] = writer[w].version
<1> DEFINE x == writer[w].version
<1>1. /\ directory \in Seq(Versions) /\ Generation \in Nat /\ Generation = Len(directory)
      /\ x \in Versions /\ x > 0 /\ x <= source /\ Versions \subseteq Nat /\ source \in Nat
      /\ Unannounced(w)
  BY CoherencyAssumption DEF TypeInv, TypeOK, DirectoryInv, Bump, Generation, Unannounced, Versions
<1>2. directory' = Append(directory, x)
  BY DEF Bump
<1>3. /\ Generation' = Generation + 1
      /\ directory' \in Seq(Versions)
      /\ \A k \in 1 .. Generation : directory'[k] = directory[k]
      /\ directory'[Generation'] = x
  BY <1>1, <1>2 DEF Generation
<1>4. \A g \in 0 .. Generation' : \E v \in Versions : IsNewest(directory', g, v)
  <2> SUFFICES ASSUME NEW g \in 0 .. Generation'
               PROVE  \E v \in Versions : IsNewest(directory', g, v)
    OBVIOUS
  <2>1. CASE g \in 0 .. Generation
    <3>1. PICK v \in Versions : IsNewest(directory, g, v)
      BY <2>1 DEF TypeInv, DirectoryInv
    <3>2. IsNewest(directory', g, v)
      BY <1>1, <1>3, <2>1, <3>1 DEF IsNewest
    <3>. QED
      BY <3>2
  <2>2. CASE g = Generation + 1
    <3>1. PICK v \in Versions : IsNewest(directory, Generation, v)
      BY <1>1 DEF TypeInv, DirectoryInv
    <3>2. Larger(v, x) \in Versions
      BY <1>1 DEF Larger
    <3>3. Larger(v, x) = 0 \/ \E k \in 1 .. g : directory'[k] = Larger(v, x)
      <4>1. CASE v < x
        BY <1>1, <1>3, <2>2, <4>1 DEF Larger
      <4>2. CASE ~(v < x)
        <5>1. Larger(v, x) = v
          BY <4>2 DEF Larger
        <5>2. v = 0 \/ \E k \in 1 .. Generation : directory[k] = v
          BY <3>1 DEF IsNewest
        <5>. QED
          BY <1>1, <1>3, <2>2, <5>1, <5>2, SMTT(60)
      <4>. QED
        BY <4>1, <4>2
    <3>4. \A k \in 1 .. g : directory'[k] <= Larger(v, x)
      <4>1. v <= Larger(v, x) /\ x <= Larger(v, x) /\ Larger(v, x) \in Nat /\ v \in Nat
        BY <1>1, LargerFacts
      <4>2. \A k \in 1 .. Generation : directory[k] <= v /\ directory[k] \in Nat
        <5>1. \A k \in 1 .. Generation : directory[k] <= v
          BY <3>1 DEF IsNewest
        <5>2. \A k \in 1 .. Generation : directory[k] \in Nat
          BY <1>1 DEF TypeInv, DirectoryInv
        <5>. QED
          BY <5>1, <5>2
      <4>3. \A k \in 1 .. Generation : directory'[k] <= Larger(v, x)
        BY <1>1, <1>3, <4>1, <4>2
      <4>. QED
        BY <1>1, <1>3, <2>2, <4>1, <4>3
    <3>. QED
      BY <3>2, <3>3, <3>4 DEF IsNewest
  <2>. QED
    BY <1>1, <1>3, <2>1, <2>2
<1>5. /\ \A k \in 1 .. Generation' : directory'[k] \in 1 .. source'
      /\ \A j, k \in 1 .. Generation' : directory'[j] = directory'[k] => j = k
  <2>1. /\ source' = source
        /\ \A k \in 1 .. Generation : directory[k] \in 1 .. source /\ directory[k] # x
        /\ \A j, k \in 1 .. Generation : directory[j] = directory[k] => j = k
    BY <1>1 DEF Bump, TypeInv, DirectoryInv
  <2>2. \A k \in 1 .. Generation' : k \in 1 .. Generation \/ k = Generation'
    BY <1>1, <1>3
  <2>3. \A k \in 1 .. Generation : directory'[k] = directory[k] /\ directory'[k] # x
    BY <1>3, <2>1
  <2>4. \A k \in 1 .. Generation' : directory'[k] \in 1 .. source'
    <3>0. x \in Nat
      BY <1>1
    <3>1. x \in 1 .. source
      BY <1>1, <3>0
    <3>2. directory'[Generation'] \in 1 .. source'
      BY <1>3, <2>1, <3>1
    <3>. QED
      BY <2>1, <2>2, <2>3, <3>2
  <2>5. ASSUME NEW j \in 1 .. Generation', NEW k \in 1 .. Generation',
               directory'[j] = directory'[k]
        PROVE  j = k
    BY <1>3, <2>1, <2>2, <2>3, <2>5
  <2>. QED
    BY <2>4, <2>5
<1>6. \A u \in Writers :
        /\ writer'[u].version <= source'
        /\ Unannounced(u)' =>
             /\ writer'[u].version > 0
             /\ \A k \in 1 .. Generation' : directory'[k] # writer'[u].version
             /\ \A v \in Writers : Unannounced(v)' /\ writer'[v].version = writer'[u].version
                                   => v = u
  <2>1. /\ source' = source
        /\ writer'[w].pc = "bumped"
        /\ \A u \in Writers : writer'[u].version = writer[u].version
        /\ \A u \in Writers : u # w => writer'[u] = writer[u]
    BY DEF Bump, TypeInv, TypeOK
  <2>2. \A u \in Writers : Unannounced(u)' => u # w /\ Unannounced(u)
    BY <2>1 DEF Unannounced
  <2>3. \A u \in Writers : Unannounced(u) /\ u # w => writer[u].version # x
    BY <1>1 DEF TypeInv, DirectoryInv
  <2>4. \A u \in Writers :
        /\ writer[u].version <= source
        /\ Unannounced(u) =>
             /\ writer[u].version > 0
             /\ \A k \in 1 .. Generation : directory[k] # writer[u].version
             /\ \A v \in Writers : Unannounced(v) /\ writer[v].version = writer[u].version
                                   => v = u
    BY DEF TypeInv, DirectoryInv
  <2>. QED
    BY <1>1, <1>3, <2>1, <2>2, <2>3, <2>4
<1>. QED
  BY <1>3, <1>4, <1>5, <1>6 DEF DirectoryInv

\* A commit has a version that nobody has.
LEMMA DirectoryCommitted ==
  ASSUME TypeInv, NEW w \in Writers, Commit(w)
  PROVE  DirectoryInv'
<1>0. /\ source \in Nat /\ source' = source + 1 /\ directory' = directory
      /\ Generation' = Generation
  BY CoherencyAssumption DEF Commit, TypeInv, TypeOK, Versions, Generation
<1>1. /\ source \in Nat /\ source' = source + 1 /\ directory' = directory
      /\ Generation' = Generation
      /\ writer'[w] = [pc |-> "committed", version |-> source', got |-> 0]
      /\ \A v \in Writers : v # w => writer'[v] = writer[v]
  BY <1>0 DEF Commit, TypeInv, TypeOK, NotWriting
<1>2. \A v \in Writers : writer[v].version \in Nat /\ writer[v].version <= source
  BY CoherencyAssumption DEF TypeInv, TypeOK, DirectoryInv, Versions
<1>3. /\ \A k \in 1 .. Generation : directory[k] \in 1 .. source
      /\ \A j, k \in 1 .. Generation : directory[j] = directory[k] => j = k
      /\ \A g \in 0 .. Generation : \E v \in Versions : IsNewest(directory, g, v)
  BY DEF TypeInv, DirectoryInv
<1>4. \A k \in 1 .. Generation : directory[k] \in 1 .. source' /\ directory[k] # source'
  BY <1>1, <1>3
<1>5. \A u \in Writers : Unannounced(u) =>
        /\ writer[u].version > 0
        /\ \A k \in 1 .. Generation : directory[k] # writer[u].version
        /\ \A v \in Writers : Unannounced(v) /\ writer[v].version = writer[u].version
                              => v = u
  BY DEF TypeInv, DirectoryInv
<1>6. ASSUME NEW u \in Writers
      PROVE  /\ writer'[u].version <= source'
             /\ Unannounced(u)' =>
                  /\ writer'[u].version > 0
                  /\ \A k \in 1 .. Generation : directory[k] # writer'[u].version
                  /\ \A v \in Writers : Unannounced(v)' /\ writer'[v].version = writer'[u].version
                                        => v = u
  <2>1. \A v \in Writers : v # w => writer'[v].version # source' /\ writer'[v].version <= source
    BY <1>1, <1>2
  <2>2. writer'[w].version = source'
    BY <1>1
  <2>3. CASE u = w
    BY <1>1, <1>4, <2>1, <2>2, <2>3
  <2>4. CASE u # w
    BY <1>1, <1>2, <1>5, <2>1, <2>2, <2>4 DEF Unannounced
  <2>. QED
    BY <2>3, <2>4
<1>. QED
  BY <1>1, <1>3, <1>4, <1>6 DEF DirectoryInv

\* A drop changes no more than a fence.
LEMMA FencedType ==
  ASSUME NEW i \in Isolates, NEW g \in Nat,
         NEW rs \in [Readers -> ReadStates(g)]
  PROVE  /\ Fenced(i, rs) \in [Readers -> ReadStates(g)]
         /\ \A r \in Readers : /\ Fenced(i, rs)[r].pc = rs[r].pc
                               /\ Fenced(i, rs)[r].owed = rs[r].owed
                               /\ Fenced(i, rs)[r].value = rs[r].value
                               /\ Fenced(i, rs)[r].got = rs[r].got
                               /\ Fenced(i, rs)[r].from = rs[r].from
                               /\ rs[r].fenced => Fenced(i, rs)[r].fenced
         /\ \A r \in Readers :
              Home[r] = i /\ rs[r].pc = "loaded" => Fenced(i, rs)[r].fenced
<1>1. ASSUME NEW r \in Readers
      PROVE  /\ [rs[r] EXCEPT !.fenced = TRUE] \in ReadStates(g)
             /\ rs[r] \in ReadStates(g)
             /\ Fenced(i, rs)[r] = IF Home[r] = i /\ rs[r].pc \in {"loading", "loaded"}
                                   THEN [rs[r] EXCEPT !.fenced = TRUE] ELSE rs[r]
  <2>1. rs[r] \in ReadStates(g)
    OBVIOUS
  <2>. QED
    BY <2>1 DEF Fenced, ReadStates
<1>2. Fenced(i, rs) \in [Readers -> ReadStates(g)]
  BY <1>1 DEF Fenced
<1>3. \A r \in Readers :
        LET x == [rs[r] EXCEPT !.fenced = TRUE]
        IN x.pc = rs[r].pc /\ x.owed = rs[r].owed /\ x.value = rs[r].value
           /\ x.got = rs[r].got /\ x.from = rs[r].from /\ x.fenced
  BY <1>1 DEF ReadStates
<1>. QED
  BY <1>1, <1>2, <1>3

\* In the reads rs, r goes on to the cache, owed x.
GoesOn(rs, r, x) == [rs EXCEPT ![r].pc = "reading", ![r].owed = x]

LEMMA GoesOnType ==
  ASSUME NEW g \in Nat, NEW rs \in [Readers -> ReadStates(g)],
         NEW r \in Readers, NEW x \in Versions
  PROVE  /\ GoesOn(rs, r, x) \in [Readers -> ReadStates(g)]
         /\ GoesOn(rs, r, x)[r].pc = "reading"
         /\ GoesOn(rs, r, x)[r].owed = x
         /\ GoesOn(rs, r, x)[r].from = rs[r].from
         /\ \A s \in Readers : s # r => GoesOn(rs, r, x)[s] = rs[s]
<1> DEFINE new == [rs[r] EXCEPT !.pc = "reading", !.owed = x]
<1>1. rs[r] \in ReadStates(g)
  OBVIOUS
<1>2. /\ new \in ReadStates(g) /\ new.pc = "reading" /\ new.owed = x
      /\ new.from = rs[r].from
  BY <1>1 DEF ReadStates
<1>3. GoesOn(rs, r, x) = [rs EXCEPT ![r] = new]
  BY DEF GoesOn
<1>. HIDE DEF new
<1>. QED
  BY <1>2, <1>3

LEMMA TypesInit ==
  ASSUME Init
  PROVE  TypeInv
<1>1. Versions \subseteq Nat /\ 0 \in Versions /\ MaxWrites \in Nat /\ MaxFaults \in Nat
  BY CoherencyAssumption DEF Versions
<1>2. Generation = 0
  BY DEF Init, Generation
<1>3. TypeOK
  BY <1>1, <1>2 DEF TypeOK, Init, NotReading, NotWriting
<1>4. DirectoryInv
  <2>1. IsNewest(directory, 0, 0)
    BY DEF IsNewest
  <2>. QED
    BY <1>1, <1>2, <2>1 DEF DirectoryInv, Init, NotWriting, Unannounced
<1>. QED
  BY <1>3, <1>4 DEF TypeInv

LEMMA TypesAt ==
  ASSUME TypeOK
  PROVE  /\ source \in Nat /\ source <= MaxWrites /\ Generation \in Nat
         /\ Generation <= MaxWrites /\ Versions = 0 .. MaxWrites /\ MaxWrites \in Nat
         /\ directory \in Seq(Versions)
         /\ entry \in [Isolates -> Versions \cup {None}]
         /\ baseline \in [Isolates -> 0 .. Generation]
         /\ inWindow \in [Isolates -> BOOLEAN]
         /\ reader \in [Readers -> ReadStates(Generation)]
         /\ writer \in [Writers -> WriteStates(Generation)]
         /\ told \in [Isolates -> Versions] /\ written \in [Isolates -> Versions]
         /\ faults \in 0 .. MaxFaults /\ MaxFaults \in Nat
         /\ \A r \in Readers \cup Writers : Home[r] \in Isolates
         /\ \A r \in Readers : NotReading(r) \in ReadStates(Generation)
         /\ NotWriting \in WriteStates(Generation)
<1>1. /\ MaxWrites \in Nat /\ MaxFaults \in Nat /\ Versions = 0 .. MaxWrites
      /\ \A r \in Readers \cup Writers : Home[r] \in Isolates
  BY CoherencyAssumption DEF Versions
<1>2. directory \in Seq(Versions) /\ Generation \in Nat
  BY DEF TypeOK, Generation
<1>. QED
  BY <1>1, <1>2 DEF TypeOK, ReadStates, WriteStates, NotReading, NotWriting

\* What a write reports of its version is a version.
LEMMA ReturnedTypes ==
  ASSUME TypeOK, NEW w \in Writers, Returned(w)
  PROVE  /\ writer' \in [Writers -> WriteStates(Generation)]
         /\ written' \in [Isolates -> Versions]
         /\ \A v \in Writers : writer'[v] = writer[v] \/ writer'[v] = NotWriting
<1>1. writer[w].version \in Versions /\ written[Home[w]] \in Versions
  BY TypesAt DEF WriteStates
<1>2. Larger(written[Home[w]], writer[w].version) \in Versions
  BY <1>1 DEF Larger
<1>. QED
  BY <1>2, TypesAt DEF Returned

LEMMA ReadTypesStep ==
  ASSUME TypeInv, NEW r \in Readers,
         Get(r) \/ DirectoryAnswers(r) \/ ApplyProbe(r) \/ ProbeFails(r) \/ Hit(r)
         \/ Join(r) \/ Miss(r) \/ Load(r) \/ Publish(r)
  PROVE  TypeInv'
<1> DEFINE i == Home[r]
<1>1. TypeOK
  BY DEF TypeInv
<1>2. /\ Versions \subseteq Nat /\ i \in Isolates
      /\ reader[r] \in ReadStates(Generation)
      /\ baseline[i] \in 0 .. Generation
      /\ told[i] \in Versions /\ written[i] \in Versions /\ source \in Versions
  BY <1>1, TypesAt
<1>3. UNCHANGED <<source, directory, writer, written>> /\ Generation' = Generation
  BY DEF Get, DirectoryAnswers, ApplyProbe, ProbeFails, Hit, Join, Miss, Load, Publish, Ends, Generation
<1>4. DirectoryInv'
  BY <1>1, <1>3, DirectoryKept, TypesAt
<1>5. faults' \in 0 .. MaxFaults
  BY <1>1, TypesAt
  DEF Get, DirectoryAnswers, ApplyProbe, ProbeFails, Hit, Join, Miss, Load, Publish, Fault, Ends
<1>6. entry' \in [Isolates -> Versions \cup {None}]
  BY <1>1, <1>2, TypesAt
  DEF Get, DirectoryAnswers, ApplyProbe, ProbeFails, Hit, Join, Miss, Load, Publish, Drops,
      FailsClosed, Ends, ReadStates
<1>7. \A rs \in [Readers -> ReadStates(Generation)] :
        Fenced(i, rs) \in [Readers -> ReadStates(Generation)]
  BY <1>1, <1>2, FencedType, TypesAt
<1>8. CASE ApplyProbe(r)
  <2> DEFINE got  == reader[r].got
             news == Announced(got)
             waiting == GoesOn(reader, r, Larger(reader[r].owed, news))
  <2>1. got \in 0 .. Generation /\ reader[r].owed \in Versions
    BY <1>2 DEF ReadStates
  <2>2. news = Newest(directory, got)
    BY DEF Announced, Newest, IsNewest
  <2>3. news \in Versions
    BY <1>1, <2>1, <2>2, NewestFacts, TypesAt
  <2>4. Larger(reader[r].owed, news) \in Versions /\ Larger(told[i], news) \in Versions
        /\ Merged(i, got) \in 0 .. Generation
    BY <1>2, <2>1, <2>3 DEF Larger, Merged
  <2>5. waiting \in [Readers -> ReadStates(Generation)]
    BY <1>1, <2>4, GoesOnType, TypesAt
  <2>6. reader' = waiting \/ reader' = Fenced(i, waiting)
    BY <1>1, <1>8, TypesAt DEF ApplyProbe, GoesOn
  <2>7. reader' \in [Readers -> ReadStates(Generation)]
    BY <1>7, <2>5, <2>6
  <2>8. /\ baseline' \in [Isolates -> 0 .. Generation]
        /\ inWindow' \in [Isolates -> BOOLEAN]
        /\ told' \in [Isolates -> Versions]
    BY <1>1, <1>2, <1>8, <2>4, TypesAt DEF ApplyProbe
  <2>9. TypeOK'
    BY <1>1, <1>3, <1>5, <1>6, <2>7, <2>8, TypesAt DEF TypeOK, ReadStates, WriteStates, Versions
  <2>. QED
    BY <1>4, <2>9 DEF TypeInv
<1>9. CASE ~ApplyProbe(r)
  <2>1. UNCHANGED <<baseline, inWindow, told>>
    BY <1>9 DEF Get, DirectoryAnswers, ProbeFails, Hit, Join, Miss, Load, Publish, Ends
  <2>2. Larger(written[i], IF inWindow[i] THEN told[i] ELSE 0) \in Versions
    BY <1>1, <1>2, TypesAt DEF Larger
  <2>3. reader' \in [Readers -> ReadStates(Generation)]
    <3>1. CASE ProbeFails(r)
      <4>1. GoesOn(reader, r, source) \in [Readers -> ReadStates(Generation)]
        BY <1>1, <1>2, GoesOnType, TypesAt
      <4>2. reader' = Fenced(i, GoesOn(reader, r, source))
        BY <3>1 DEF ProbeFails, GoesOn
      <4>. QED
        BY <1>7, <4>1, <4>2
    <3>2. CASE Get(r)
      BY <1>1, <1>2, <2>2, <3>2, TypesAt DEF Get, NotReading, ReadStates
    <3>3. CASE DirectoryAnswers(r) \/ Miss(r) \/ Load(r)
      <4>1. Generation \in 0 .. Generation
        BY <1>1, TypesAt
      <4>2. CASE DirectoryAnswers(r)
        <5>1. [reader[r] EXCEPT !.pc = "answered", !.got = Generation] \in ReadStates(Generation)
          BY <1>2, <4>1 DEF ReadStates
        <5>2. reader' = [reader EXCEPT ![r] = [reader[r] EXCEPT !.pc = "answered",
                                                               !.got = Generation]]
          BY <1>1, <4>2, TypesAt DEF DirectoryAnswers
        <5>. QED
          BY <1>1, <5>1, <5>2, TypesAt
      <4>3. CASE Miss(r)
        <5>1. [reader[r] EXCEPT !.pc = "loading"] \in ReadStates(Generation)
          BY <1>2 DEF ReadStates
        <5>. QED
          BY <1>1, <4>3, <5>1, TypesAt DEF Miss
      <4>4. CASE Load(r)
        <5>1. [reader[r] EXCEPT !.pc = "loaded", !.value = source] \in ReadStates(Generation)
          BY <1>2 DEF ReadStates
        <5>2. reader' = [reader EXCEPT ![r] = [reader[r] EXCEPT !.pc = "loaded",
                                                               !.value = source]]
          BY <1>1, <4>4, TypesAt DEF Load
        <5>. QED
          BY <1>1, <5>1, <5>2, TypesAt
      <4>. QED
        BY <3>3, <4>2, <4>3, <4>4
    <3>4. CASE Hit(r) \/ Publish(r)
      <4>1. \A s \in Readers : reader[s] \in ReadStates(Generation)
                             /\ NotReading(s) \in ReadStates(Generation)
        BY <1>1, TypesAt
      <4>2. CASE Hit(r)
        BY <1>1, <4>1, <4>2, TypesAt DEF Hit
      <4>3. CASE Publish(r)
        BY <4>1, <4>3 DEF Publish, Ends
      <4>. QED
        BY <3>4, <4>2, <4>3
    <3>5. CASE Join(r)
      <4>1. PICK s \in Readers : reader' = [reader EXCEPT ![r].pc = "joined", ![r].from = s]
        BY <3>5 DEF Join, InFlight
      <4>2. [reader[r] EXCEPT !.pc = "joined", !.from = s] \in ReadStates(Generation)
        BY <1>2 DEF ReadStates
      <4>3. reader' = [reader EXCEPT ![r] = [reader[r] EXCEPT !.pc = "joined", !.from = s]]
        BY <1>1, <4>1, TypesAt
      <4>. QED
        BY <1>1, <4>2, <4>3, TypesAt
    <3>. QED
      BY <1>9, <3>1, <3>2, <3>3, <3>4, <3>5
  <2>4. TypeOK'
    BY <1>1, <1>3, <1>5, <1>6, <2>1, <2>3, TypesAt DEF TypeOK, ReadStates, WriteStates, Versions
  <2>. QED
    BY <1>4, <2>4 DEF TypeInv
<1>. QED
  BY <1>8, <1>9

LEMMA WriteTypesStep ==
  ASSUME TypeInv, NEW w \in Writers,
         Commit(w) \/ LocalDrop(w) \/ Bump(w) \/ MergeOwnBump(w) \/ BumpFails(w)
  PROVE  TypeInv'
<1>1. TypeOK
  BY DEF TypeInv
<1>2. /\ writer[w] \in WriteStates(Generation) /\ Home[w] \in Isolates
      /\ Versions \subseteq Nat
  BY <1>1, TypesAt
<1>3. CASE Commit(w)
  <2>1. DirectoryInv'
    BY <1>3, DirectoryCommitted
  <2>2. source' \in Versions /\ Generation' = Generation
    BY <1>1, <1>3, TypesAt DEF Commit, Generation
  <2>3. writer' \in [Writers -> WriteStates(Generation)]
    BY <1>1, <1>3, <2>2, TypesAt DEF Commit, NotWriting, WriteStates
  <2>4. TypeOK'
    BY <1>1, <1>3, <2>2, <2>3, TypesAt DEF Commit, TypeOK, ReadStates, WriteStates
  <2>. QED
    BY <2>1, <2>4 DEF TypeInv
<1>4. CASE LocalDrop(w)
  <2>1. Generation' = Generation
    BY <1>4 DEF LocalDrop, Generation
  <2>2. writer' \in [Writers -> WriteStates(Generation)]
    BY <1>1, <1>2, <1>4, TypesAt DEF LocalDrop, WriteStates
  <2>3. reader' \in [Readers -> ReadStates(Generation)]
    BY <1>1, <1>2, <1>4, FencedType, TypesAt DEF LocalDrop
  <2>4. entry' \in [Isolates -> Versions \cup {None}]
    BY <1>1, <1>4, TypesAt DEF LocalDrop, Drops
  <2>5. TypeOK'
    BY <1>1, <1>4, <2>1, <2>2, <2>3, <2>4, TypesAt
    DEF LocalDrop, TypeOK, ReadStates, WriteStates
  <2>6. \A v \in Writers : writer'[v] = writer[v]
          \/ (writer'[v].version = writer[v].version /\ (Unannounced(v)' => Unannounced(v)))
    BY <1>1, <1>2, <1>4, TypesAt DEF LocalDrop, WriteStates, Unannounced
  <2>7. DirectoryInv'
    BY <1>1, <1>4, <2>6, DirectoryKept, TypesAt DEF LocalDrop
  <2>. QED
    BY <2>5, <2>7 DEF TypeInv
<1>5. CASE Bump(w)
  <2>1. /\ DirectoryInv' /\ Generation' = Generation + 1 /\ directory' \in Seq(Versions)
        /\ UNCHANGED <<source, entry, baseline, inWindow, reader, told, written, faults>>
    BY <1>5, DirectoryBumped DEF Bump
  <2>2. Generation' <= source'
    <3>1. /\ \A k \in 1 .. Generation' : directory'[k] \in 1 .. source'
          /\ \A j, k \in 1 .. Generation' : directory'[j] = directory'[k] => j = k
      BY <2>1 DEF DirectoryInv
    <3>2. Generation' \in Nat /\ source' \in Nat
      BY <1>1, <2>1, TypesAt
    <3>. QED
      BY <3>1, <3>2, BumpsWithinSource
  <2>3. writer' \in [Writers -> WriteStates(Generation')]
    <3>1. Generation' = Len(directory')
      BY DEF Generation
    <3>2. writer' = [writer EXCEPT ![w].pc = "bumped", ![w].got = Generation']
      BY <1>5, <3>1 DEF Bump
    <3>3. \A v \in Writers : writer[v] \in WriteStates(Generation')
      <4>1. Generation \in Nat /\ \A v \in Writers : writer[v] \in WriteStates(Generation)
        BY <1>1, TypesAt
      <4>. QED
        BY <2>1, <4>1 DEF WriteStates
    <3>4. [writer[w] EXCEPT !.pc = "bumped", !.got = Generation'] \in WriteStates(Generation')
      <4>1. Generation' \in 0 .. Generation'
        BY <1>1, <2>1, TypesAt
      <4>. QED
        BY <3>3, <4>1 DEF WriteStates
    <3>5. writer' = [v \in Writers |-> IF v = w
                       THEN [writer[w] EXCEPT !.pc = "bumped", !.got = Generation']
                       ELSE writer[v]]
      BY <1>1, <3>2, TypesAt
    <3>. QED
      BY <3>3, <3>4, <3>5
  <2>4. /\ reader' \in [Readers -> ReadStates(Generation')]
        /\ baseline' \in [Isolates -> 0 .. Generation']
    BY <1>1, <2>1, TypesAt DEF ReadStates
  <2>5. TypeOK'
    <3>1. Generation' <= MaxWrites /\ source' \in Versions
      BY <1>1, <2>1, <2>2, TypesAt
    <3>. QED
      BY <1>1, <2>1, <2>3, <2>4, <3>1, TypesAt DEF TypeOK, ReadStates, WriteStates
  <2>. QED
    BY <2>1, <2>5 DEF TypeInv
<1>6. CASE MergeOwnBump(w) \/ BumpFails(w)
  <2>1. /\ Returned(w) /\ Generation' = Generation
        /\ UNCHANGED <<source, directory, entry, inWindow, reader, told>>
    BY <1>6 DEF MergeOwnBump, BumpFails, Generation
  <2>2. /\ writer' \in [Writers -> WriteStates(Generation)]
        /\ written' \in [Isolates -> Versions]
        /\ \A v \in Writers : writer'[v] = writer[v] \/ writer'[v] = NotWriting
    BY <1>1, <2>1, ReturnedTypes
  <2>3. faults' \in 0 .. MaxFaults
    BY <1>1, <1>6, TypesAt DEF MergeOwnBump, BumpFails, Fault
  <2>4. baseline' \in [Isolates -> 0 .. Generation]
    <3>1. Merged(Home[w], writer[w].got) \in 0 .. Generation
      BY <1>1, <1>2, TypesAt DEF Merged, Larger, WriteStates
    <3>. QED
      BY <1>1, <1>6, <3>1, TypesAt DEF MergeOwnBump, BumpFails
  <2>5. TypeOK'
    BY <1>1, <2>1, <2>2, <2>3, <2>4, TypesAt DEF TypeOK, ReadStates, WriteStates
  <2>6. DirectoryInv'
    BY <1>1, <2>1, <2>2, DirectoryKept, TypesAt
  <2>. QED
    BY <2>5, <2>6 DEF TypeInv
<1>. QED
  BY <1>3, <1>4, <1>5, <1>6

LEMMA IsolateTypesStep ==
  ASSUME TypeInv, NEW i \in Isolates,
         Expire(i) \/ WindowEnds(i) \/ ForgetGroup(i)
  PROVE  TypeInv'
<1>1. TypeOK
  BY DEF TypeInv
<1>2. /\ UNCHANGED <<source, directory, reader, writer, told, written, faults>>
      /\ Generation' = Generation
  BY DEF Expire, WindowEnds, ForgetGroup, Generation
<1>3. /\ entry' \in [Isolates -> Versions \cup {None}]
      /\ baseline' \in [Isolates -> 0 .. Generation]
      /\ inWindow' \in [Isolates -> BOOLEAN]
  <2>1. CASE Expire(i)
    BY <1>1, <2>1, TypesAt DEF Expire, Drops
  <2>2. CASE WindowEnds(i)
    BY <1>1, <2>2, TypesAt DEF WindowEnds
  <2>3. CASE ForgetGroup(i)
    BY <1>1, <2>3, TypesAt DEF ForgetGroup
  <2>. QED
    BY <2>1, <2>2, <2>3
<1>4. DirectoryInv'
  BY <1>1, <1>2, DirectoryKept, TypesAt
<1>5. TypeOK'
  BY <1>1, <1>2, <1>3, TypesAt DEF TypeOK, ReadStates, WriteStates
<1>. QED
  BY <1>4, <1>5 DEF TypeInv

LEMMA TypesStep ==
  TypeInv /\ [Next]_vars => TypeInv'
<1> SUFFICES ASSUME TypeInv, [Next]_vars PROVE TypeInv'
  OBVIOUS
<1>1. CASE Next
  BY <1>1, ReadTypesStep, WriteTypesStep, IsolateTypesStep DEF Next
<1>2. CASE UNCHANGED vars
  BY <1>2 DEF vars, TypeInv, TypeOK, DirectoryInv, Generation, Unannounced
<1>. QED
  BY <1>1, <1>2

\* The types hold, and there are never more bumps than writes: the model's
\* bound on writes bounds every generation (generationDirectory bump).
THEOREM CoherencyTypes ==
  Spec => []TypeOK
<1>1. Spec => []TypeInv
  BY TypesInit, TypesStep, PTL DEF Spec
<1>2. TypeInv => TypeOK
  BY DEF TypeInv
<1>. QED
  BY <1>1, <1>2, PTL

-----------------------------------------------------------------------------
(* What a step does to the floors. *)

\* A floor holds lower down, and 0 is always one.
LEMMA FloorFacts ==
  ASSUME TypeInv, NEW i \in Isolates
  PROVE  /\ Floor(entry, reader, i, 0)
         /\ \A x \in Nat, y \in Nat :
              Floor(entry, reader, i, x) /\ y <= x => Floor(entry, reader, i, y)
<1>1. /\ entry[i] # None => entry[i] \in Nat
      /\ \A r \in Readers : reader[r].value \in Nat
  BY TypesAt DEF TypeInv, None, ReadStates
<1>. QED
  BY <1>1 DEF Floor

LEMMA FloorsDown ==
  TypeInv => \A i \in Isolates : \A x \in Nat, y \in Nat :
    Floor(entry, reader, i, x) /\ y <= x => Floor(entry, reader, i, y)
BY FloorFacts

\* A drop leaves nothing that could be too old, and touches no other isolate.
LEMMA DropClears ==
  ASSUME TypeInv, NEW i \in Isolates,
         NEW rs \in [Readers -> ReadStates(Generation)],
         entry' = [entry EXCEPT ![i] = None], reader' = Fenced(i, rs)
  PROVE  \A x : Floor(entry', reader', i, x)
<1>1. entry'[i] = None
  BY TypesAt DEF TypeInv
<1>2. Generation \in Nat
  BY TypesAt DEF TypeInv
<1>3. \A r \in Readers : /\ reader'[r].pc = rs[r].pc
                         /\ Home[r] = i /\ rs[r].pc = "loaded" => reader'[r].fenced
  <2>1. \A r \in Readers : Fenced(i, rs)[r].pc = rs[r].pc
    BY <1>2, FencedType
  <2>2. \A r \in Readers : Home[r] = i /\ rs[r].pc = "loaded" => Fenced(i, rs)[r].fenced
    BY <1>2, FencedType
  <2>. QED
    BY <2>1, <2>2
<1>. QED
  BY <1>1, <1>3 DEF Floor

\* The source, the generations and the floors only rise.
Steady ==
  /\ source' \in Nat /\ source <= source'
  /\ Generation' \in Nat /\ Generation <= Generation'
  /\ Newest(directory', Generation') \in Nat
  /\ \A g \in 0 .. Generation : Newest(directory, g) <= Newest(directory', Generation')
  /\ \A g \in 0 .. Generation : Newest(directory', g) = Newest(directory, g)
  /\ \A i \in Isolates : \A x \in 0 .. source :
       Floor(entry, reader, i, x) => Floor(entry', reader', i, x)
  /\ \A i \in Isolates : \A x \in Nat, y \in Nat :
       Floor(entry', reader', i, x) /\ y <= x => Floor(entry', reader', i, y)

\* Floors are kept when no entry and no publishable load is new.
LEMMA FloorsKept ==
  ASSUME TypeInv,
         \A i \in Isolates : entry'[i] \in {entry[i], None},
         \A r \in Readers :
           reader'[r].pc = "loaded" /\ ~reader'[r].fenced =>
             reader[r].pc = "loaded" /\ ~reader[r].fenced /\ reader'[r].value = reader[r].value
  PROVE  \A i \in Isolates : \A x \in 0 .. source :
           Floor(entry, reader, i, x) => Floor(entry', reader', i, x)
BY DEF Floor

LEMMA ReadFloors ==
  ASSUME TypeInv, NEW r \in Readers,
         Get(r) \/ DirectoryAnswers(r) \/ ApplyProbe(r) \/ ProbeFails(r) \/ Hit(r)
         \/ Join(r) \/ Miss(r) \/ Load(r) \/ Publish(r)
  PROVE  \A i \in Isolates : \A x \in 0 .. source :
           Floor(entry, reader, i, x) => Floor(entry', reader', i, x)
<1>1. /\ TypeOK /\ reader[r] \in ReadStates(Generation) /\ Home[r] \in Isolates
      /\ reader \in [Readers -> ReadStates(Generation)] /\ Generation \in Nat
      /\ \A s \in Readers : reader[s] \in ReadStates(Generation)
  BY TypesAt DEF TypeInv
<1>2. CASE ApplyProbe(r) \/ ProbeFails(r)
  <2>1. PICK rs \in [Readers -> ReadStates(Generation)] :
          /\ reader' = rs \/ reader' = Fenced(Home[r], rs)
          /\ \A s \in Readers : s # r => rs[s] = reader[s]
          /\ rs[r].pc = "reading"
    <3>1. CASE ApplyProbe(r)
      <4> DEFINE rs == GoesOn(reader, r, Larger(reader[r].owed, Announced(reader[r].got)))
      <4>1. reader' = rs \/ reader' = Fenced(Home[r], rs)
        BY <1>1, <3>1, TypesAt DEF ApplyProbe, GoesOn
      <4>2. Larger(reader[r].owed, Announced(reader[r].got)) \in Versions
        <5>1. /\ Announced(reader[r].got) = Newest(directory, reader[r].got)
              /\ reader[r].got \in 0 .. Generation /\ reader[r].owed \in Versions
          BY <1>1 DEF Announced, Newest, IsNewest, ReadStates
        <5>2. Announced(reader[r].got) \in Versions
          BY <1>1, <5>1, NewestFacts, TypesAt
        <5>. QED
          BY <5>1, <5>2 DEF Larger
      <4>3. /\ rs \in [Readers -> ReadStates(Generation)]
            /\ \A s \in Readers : s # r => rs[s] = reader[s]
            /\ rs[r].pc = "reading"
        BY <1>1, <4>2, GoesOnType
      <4>. QED
        BY <4>1, <4>3
    <3>2. CASE ProbeFails(r)
      <4> DEFINE rs == GoesOn(reader, r, source)
      <4>1. reader' = Fenced(Home[r], rs)
        BY <3>2 DEF ProbeFails, GoesOn
      <4>2. source \in Versions
        BY <1>1, TypesAt
      <4>3. /\ rs \in [Readers -> ReadStates(Generation)]
            /\ \A s \in Readers : s # r => rs[s] = reader[s]
            /\ rs[r].pc = "reading"
        BY <1>1, <4>2, GoesOnType
      <4>. QED
        BY <4>1, <4>3
    <3>. QED
      BY <1>2, <3>1, <3>2
  <2>2. \A s \in Readers : /\ reader'[s].pc = rs[s].pc
                           /\ reader'[s].value = rs[s].value
                           /\ rs[s].fenced => reader'[s].fenced
    <3>1. Generation \in Nat
      BY <1>1, TypesAt
    <3>2. CASE reader' = rs
      BY <3>2
    <3>3. CASE reader' = Fenced(Home[r], rs)
      BY <1>1, <3>1, <3>3, FencedType
    <3>. QED
      BY <2>1, <3>2, <3>3
  <2>3. \A s \in Readers : reader'[s].pc = "loaded" /\ ~reader'[s].fenced =>
          reader[s].pc = "loaded" /\ ~reader[s].fenced /\ reader'[s].value = reader[s].value
    BY <2>1, <2>2
  <2>4. \A i \in Isolates : entry'[i] \in {entry[i], None}
    BY <1>1, <1>2, TypesAt DEF ApplyProbe, ProbeFails, Drops, FailsClosed
  <2>. QED
    BY <2>3, <2>4, FloorsKept
<1>3. CASE Get(r) \/ DirectoryAnswers(r) \/ Hit(r) \/ Join(r) \/ Miss(r)
  <2>1. entry' = entry
    BY <1>3 DEF Get, DirectoryAnswers, Hit, Join, Miss
  <2>2. reader'[r].pc # "loaded" /\ \A s \in Readers : s # r => reader'[s] = reader[s]
    <3>1. CASE Get(r)
      BY <1>1, <3>1, TypesAt DEF Get, NotReading
    <3>2. CASE DirectoryAnswers(r)
      BY <1>1, <3>2, TypesAt DEF DirectoryAnswers, ReadStates
    <3>3. CASE Hit(r) \/ Miss(r)
      BY <1>1, <3>3, TypesAt DEF Hit, Miss, NotReading, ReadStates
    <3>4. CASE Join(r)
      <4>1. PICK l \in Readers : reader' = [reader EXCEPT ![r].pc = "joined", ![r].from = l]
        BY <3>4 DEF Join, InFlight
      <4>2. reader' = [reader EXCEPT ![r] = [reader[r] EXCEPT !.pc = "joined", !.from = l]]
        BY <1>1, <4>1
      <4>3. [reader[r] EXCEPT !.pc = "joined", !.from = l].pc = "joined"
        BY <1>1 DEF ReadStates
      <4>. QED
        BY <1>1, <4>2, <4>3
    <3>. QED
      BY <1>3, <3>1, <3>2, <3>3, <3>4
  <2>. QED
    BY <2>1, <2>2, FloorsKept
<1>4. CASE Load(r)
  <2>1. /\ entry' = entry /\ reader'[r].value = source
        /\ \A s \in Readers : s # r => reader'[s] = reader[s]
    BY <1>1, <1>4, TypesAt DEF Load, ReadStates
  <2>2. \A x \in 0 .. source : reader'[r].value >= x
    BY <1>1, <2>1, TypesAt
  <2>. QED
    BY <2>1, <2>2 DEF Floor
<1>5. CASE Publish(r)
  <2>1. /\ reader[r].pc = "loaded" /\ reader'[r].pc = "idle"
        /\ \A s \in Readers : s # r => reader'[s] = reader[s] \/ reader'[s].pc = "idle"
    BY <1>1, <1>5, TypesAt DEF Publish, Ends, NotReading
  <2>2. \A i \in Isolates :
          \/ entry'[i] = entry[i]
          \/ i = Home[r] /\ ~reader[r].fenced /\ entry'[i] = reader[r].value
    BY <1>1, <1>5, TypesAt DEF Publish
  <2>. QED
    BY <1>1, <2>1, <2>2, TypesAt DEF Floor
<1>. QED
  BY <1>2, <1>3, <1>4, <1>5

LEMMA OtherFloors ==
  ASSUME TypeInv,
         \/ \E i \in Isolates : Expire(i) \/ WindowEnds(i) \/ ForgetGroup(i)
         \/ \E w \in Writers : Commit(w) \/ LocalDrop(w) \/ Bump(w)
                               \/ MergeOwnBump(w) \/ BumpFails(w)
  PROVE  \A i \in Isolates : \A x \in 0 .. source :
           Floor(entry, reader, i, x) => Floor(entry', reader', i, x)
<1>1. TypeOK
  BY DEF TypeInv
<1>2. \A i \in Isolates : entry'[i] \in {entry[i], None}
  BY <1>1, TypesAt DEF Expire, WindowEnds, ForgetGroup, Commit, LocalDrop, Bump,
     MergeOwnBump, BumpFails, Drops
<1>3. ASSUME NEW r \in Readers
      PROVE  /\ reader'[r].pc = reader[r].pc
             /\ reader'[r].value = reader[r].value
             /\ reader[r].fenced => reader'[r].fenced
  <2>1. CASE reader' = reader
    BY <2>1
  <2>2. CASE \E w \in Writers : reader' = Fenced(Home[w], reader)
    <3>1. PICK w \in Writers : reader' = Fenced(Home[w], reader)
      BY <2>2
    <3>2. /\ Generation \in Nat /\ Home[w] \in Isolates
          /\ reader \in [Readers -> ReadStates(Generation)]
      BY <1>1, TypesAt
    <3>. QED
      BY <3>1, <3>2, FencedType
  <2>. QED
    BY <2>1, <2>2 DEF Expire, WindowEnds, ForgetGroup, Commit, LocalDrop, Bump,
       MergeOwnBump, BumpFails
<1>. QED
  BY <1>2, <1>3, FloorsKept

LEMMA Steadies ==
  ASSUME TypeInv, Next
  PROVE  Steady
<1>1. TypeOK
  BY DEF TypeInv
<1>2. /\ source' \in Nat /\ Generation' \in Nat
      /\ Newest(directory', Generation') \in Nat
      /\ \A g \in 0 .. Generation' :
           Newest(directory', g) <= Newest(directory', Generation')
  <2>1. TypeInv'
    BY TypesStep
  <2>2. (TypeInv => /\ Newest(directory, Generation) \in Nat
                    /\ \A g \in 0 .. Generation :
                         Newest(directory, g) <= Newest(directory, Generation))'
    BY NewestRises, PTL
  <2>3. source' \in Nat /\ Generation' \in Nat
    BY <2>1, CoherencyAssumption DEF TypeInv, TypeOK, Versions, Generation
  <2>. QED
    BY <2>1, <2>2, <2>3
<1>3. \A i \in Isolates : \A x \in Nat, y \in Nat :
        Floor(entry', reader', i, x) /\ y <= x => Floor(entry', reader', i, y)
  <2>1. TypeInv'
    BY TypesStep
  <2>2. (TypeInv => \A i \in Isolates : \A x \in Nat, y \in Nat :
           Floor(entry, reader, i, x) /\ y <= x => Floor(entry, reader, i, y))'
    BY FloorsDown, PTL
  <2>. QED
    BY <2>1, <2>2
<1>4. source <= source'
  <2>1. source' \in {source, source + 1}
    BY DEF Next, Expire, WindowEnds, ForgetGroup, Get, DirectoryAnswers,
       ApplyProbe, ProbeFails, Hit, Join, Miss, Load, Publish, Commit, LocalDrop, Bump,
       MergeOwnBump, BumpFails
  <2>. QED
    BY <1>1, <2>1, TypesAt
<1>5. CASE directory' = directory
  <2>1. Generation' = Generation
    BY <1>5 DEF Generation
  <2>. QED
    BY <1>1, <1>2, <1>3, <1>4, <1>5, <2>1, ReadFloors, OtherFloors, TypesAt DEF Next, Steady
<1>6. ASSUME NEW w \in Writers, Bump(w)
      PROVE  Steady
  <2>1. /\ DirectoryInv' /\ Generation' = Generation + 1 /\ directory' \in Seq(Versions)
        /\ \A k \in 1 .. Generation : directory'[k] = directory[k]
    BY <1>6, DirectoryBumped
  <2>2. ASSUME NEW g \in 0 .. Generation
        PROVE  Newest(directory', g) = Newest(directory, g)
    <3>1. /\ IsNewest(directory, g, Newest(directory, g))
          /\ Newest(directory, g) \in Versions
      BY <1>1, NewestFacts, TypesAt
    <3>2. \A k \in 1 .. g : directory'[k] = directory[k]
      BY <1>1, <2>1, TypesAt
    <3>3. IsNewest(directory', g, Newest(directory, g))
      BY <3>1, <3>2 DEF IsNewest
    <3>4. g \in 0 .. Len(directory')
      BY <1>1, <2>1, TypesAt DEF Generation
    <3>. QED
      BY <2>1, <3>1, <3>3, <3>4, NewestIs
  <2>3. \A g \in 0 .. Generation : g \in 0 .. Generation'
    BY <1>1, <2>1, TypesAt
  <2>4. \A i \in Isolates : \A x \in 0 .. source :
          Floor(entry, reader, i, x) => Floor(entry', reader', i, x)
    BY <1>6, OtherFloors
  <2>. QED
    BY <1>1, <1>2, <1>3, <1>4, <2>1, <2>2, <2>3, <2>4, TypesAt DEF Steady
<1>7. directory' = directory \/ \E w \in Writers : Bump(w)
  BY DEF Next, Expire, WindowEnds, ForgetGroup, Get, DirectoryAnswers,
     ApplyProbe, ProbeFails, Hit, Join, Miss, Load, Publish, Commit, LocalDrop,
     MergeOwnBump, BumpFails
<1>. QED
  BY <1>5, <1>6, <1>7

-----------------------------------------------------------------------------
(* Reads are fresh. *)

LEMMA FreshTypes ==
  ASSUME FreshInv
  PROVE  /\ TypeInv /\ TypeOK /\ source \in Nat /\ Generation \in Nat
         /\ \A i \in Isolates : /\ baseline[i] \in 0 .. Generation
                                /\ told[i] \in Nat /\ written[i] \in Nat
                                /\ inWindow[i] \in BOOLEAN
         /\ \A r \in Readers : /\ reader[r].got \in 0 .. Generation
                               /\ reader[r].owed \in Nat /\ reader[r].value \in Nat
                               /\ Home[r] \in Isolates
         /\ \A w \in Writers : /\ writer[w].got \in 0 .. Generation
                               /\ writer[w].version \in 0 .. source
                               /\ Home[w] \in Isolates
         /\ \A g \in 0 .. Generation : Newest(directory, g) \in 0 .. source
         /\ \A k \in 1 .. Generation : directory[k] \in 0 .. source
<1>1. TypeInv /\ TypeOK
  BY DEF FreshInv, TypeInv
<1>2. \A g \in 0 .. Generation : Newest(directory, g) \in 0 .. source
  BY <1>1, NewestFacts
<1>3. /\ \A k \in 1 .. Generation : directory[k] \in 0 .. source
      /\ \A w \in Writers : writer[w].version <= source
  BY <1>1, TypesAt DEF TypeInv, DirectoryInv
<1>4. \A i \in Isolates : /\ baseline[i] \in 0 .. Generation
                         /\ told[i] \in Nat /\ written[i] \in Nat
                         /\ inWindow[i] \in BOOLEAN
  BY <1>1, TypesAt
<1>5. \A r \in Readers : /\ reader[r].got \in 0 .. Generation
                        /\ reader[r].owed \in Nat /\ reader[r].value \in Nat
                        /\ Home[r] \in Isolates
  BY <1>1, TypesAt DEF ReadStates
<1>6. \A w \in Writers : /\ writer[w].got \in 0 .. Generation
                        /\ writer[w].version \in 0 .. source
                        /\ Home[w] \in Isolates
  <2>1. \A w \in Writers : writer[w] \in WriteStates(Generation) /\ Home[w] \in Isolates
    BY <1>1, TypesAt
  <2>2. \A x \in Versions : x \in Nat
    BY <1>1, TypesAt
  <2>3. source \in Nat
    BY <1>1, TypesAt
  <2>. QED
    BY <1>3, <2>1, <2>2, <2>3 DEF WriteStates
<1>7. source \in Nat /\ Generation \in Nat
  BY <1>1, TypesAt
<1>. QED
  BY <1>1, <1>2, <1>3, <1>4, <1>5, <1>6, <1>7

LEMMA FreshInit ==
  ASSUME Init
  PROVE  FreshInv
<1>1. TypeInv
  BY TypesInit
<1>2. Generation = 0
  BY DEF Init, Generation
<1>3. Newest(directory, 0) = 0
  BY <1>1, NewestOfNone
<1>4. \A i \in Isolates : Floor(entry, reader, i, 0)
  BY <1>1, FloorFacts
<1>5. \A i \in Isolates : IsolateInv(i)
  <2>1. \A i \in Isolates : baseline[i] = 0 /\ written[i] = 0 /\ told[i] = 0 /\ ~inWindow[i]
    BY DEF Init
  <2>2. source = 0
    BY DEF Init
  <2> TAKE i \in Isolates
  <2>3. /\ Newest(directory, baseline[i]) = 0 /\ Newest(directory, Generation) = 0
        /\ written[i] = 0 /\ told[i] = 0 /\ ~inWindow[i]
    BY <1>2, <1>3, <2>1
  <2>. QED
    BY <1>4, <2>2, <2>3 DEF IsolateInv
<1>6. ASSUME NEW r \in Readers PROVE ReaderInv(r)
  <2>1. reader[r].pc = "idle" /\ reader[r].owed = 0 /\ source = 0
    BY DEF Init, NotReading
  <2>. QED
    BY <2>1 DEF ReaderInv
<1>7. \A w \in Writers : WriterInv(w)
  BY <1>2 DEF WriterInv, Init, NotWriting
<1>. QED
  BY <1>1, <1>5, <1>6, <1>7 DEF FreshInv

\* Where an isolate's own bookkeeping stands still, its part is kept.
LEMMA IsolateKept ==
  ASSUME FreshInv, Steady, NEW i \in Isolates,
         UNCHANGED <<baseline[i], told[i], written[i]>>, inWindow'[i] => inWindow[i]
  PROVE  IsolateInv(i)'
<1>1. /\ IsolateInv(i) /\ baseline[i] \in 0 .. Generation /\ Generation \in Nat
      /\ written[i] \in Nat /\ source \in Nat /\ told[i] \in Nat
      /\ Newest(directory, baseline[i]) \in 0 .. source
      /\ Newest(directory, Generation) \in 0 .. source
  BY FreshTypes DEF FreshInv
<1>2. /\ Newest(directory', baseline[i]) = Newest(directory, baseline[i])
      /\ Newest(directory, Generation) <= Newest(directory', Generation')
      /\ Newest(directory', Generation') \in Nat
      /\ source' \in Nat /\ source <= source'
  BY <1>1 DEF Steady
<1>3. /\ written[i] \in 0 .. source /\ told[i] \in 0 .. source
      /\ told[i] <= Newest(directory, Generation)
  BY <1>1 DEF IsolateInv
<1>4. /\ Floor(entry', reader', i, Newest(directory, baseline[i]))
      /\ Floor(entry', reader', i, written[i])
      /\ inWindow[i] => Floor(entry', reader', i, told[i])
  BY <1>1, <1>3 DEF Steady, IsolateInv
<1>. QED
  BY <1>1, <1>2, <1>3, <1>4 DEF IsolateInv

\* A probe that moved drops the entry; one that did not announces nothing the
\* baseline has not seen.
LEMMA ProbeApplied ==
  ASSUME FreshInv, Steady, NEW r \in Readers, ApplyProbe(r)
  PROVE  LET i    == Home[r]
             got  == reader[r].got
             news == Newest(directory, got)
         IN /\ news \in 0 .. source /\ news <= Newest(directory, Generation)
            /\ baseline' = [baseline EXCEPT ![i] = Larger(baseline[i], got)]
            /\ inWindow' = [inWindow EXCEPT ![i] = TRUE]
            /\ told' = [told EXCEPT ![i] = Larger(told[i], news)]
            /\ UNCHANGED <<source, directory, writer, written, Generation>>
            /\ told[i] <= Newest(directory, Larger(baseline[i], got))
            /\ news <= Newest(directory, Larger(baseline[i], got))
            /\ Floor(entry', reader', i, Newest(directory, Larger(baseline[i], got)))
            /\ Floor(entry', reader', i, written[i])
            /\ reader'[r].pc = "reading"
            /\ reader'[r].owed = Larger(reader[r].owed, news)
            /\ \A s \in Readers : s # r => /\ reader'[s].pc = reader[s].pc
                                           /\ reader'[s].owed = reader[s].owed
                                           /\ reader'[s].got = reader[s].got
                                           /\ reader'[s].value = reader[s].value
<1> DEFINE i    == Home[r]
           got  == reader[r].got
           news == Newest(directory, got)
           top  == Larger(baseline[i], got)
           waiting == GoesOn(reader, r, Larger(reader[r].owed, news))
<1>1. /\ TypeOK /\ TypeInv /\ i \in Isolates /\ got \in 0 .. Generation
      /\ baseline[i] \in 0 .. Generation /\ Generation \in Nat
      /\ news \in 0 .. source /\ source \in Nat /\ reader[r].owed \in Nat
  BY FreshTypes
<1>2. news = Announced(got)
  BY DEF Announced, Newest, IsNewest
<1>3. /\ baseline' = [baseline EXCEPT ![i] = top]
      /\ inWindow' = [inWindow EXCEPT ![i] = TRUE]
      /\ told' = [told EXCEPT ![i] = Larger(told[i], news)]
      /\ UNCHANGED <<source, directory, writer, written, Generation>>
  BY <1>2 DEF ApplyProbe, Merged, Generation
<1>4. top \in 0 .. Generation /\ got \in 0 .. top /\ top \in {baseline[i], got}
  BY <1>1 DEF Larger
<1>5. /\ news <= Newest(directory, top)
      /\ news <= Newest(directory, Generation)
      /\ Newest(directory, top) \in 0 .. source
  BY <1>1, <1>4, NewestFacts
<1>6. /\ told[i] <= Newest(directory, top)
      /\ IsolateInv(i) /\ written[i] \in 0 .. source
  BY <1>1, FreshTypes DEF FreshInv, ReaderInv, IsolateInv, ApplyProbe
<1>7. /\ waiting \in [Readers -> ReadStates(Generation)]
      /\ waiting[r].pc = "reading" /\ waiting[r].owed = Larger(reader[r].owed, news)
      /\ \A s \in Readers : s # r => waiting[s] = reader[s]
  <2>1. /\ reader \in [Readers -> ReadStates(Generation)] /\ news \in Versions
        /\ reader[r].owed \in Versions
    BY <1>1, TypesAt, SMTT(60) DEF ReadStates
  <2>2. Larger(reader[r].owed, news) \in Versions
    BY <2>1 DEF Larger
  <2>. QED
    BY <1>1, <2>1, <2>2, GoesOnType
<1>8. \A s \in Readers : /\ reader'[s].pc = waiting[s].pc
                         /\ reader'[s].owed = waiting[s].owed
                         /\ reader'[s].got = waiting[s].got
                         /\ reader'[s].value = waiting[s].value
  <2>1. reader' = waiting \/ reader' = Fenced(i, waiting)
    BY <1>1, <1>2, TypesAt DEF ApplyProbe, GoesOn
  <2>. HIDE DEF waiting
  <2>. QED
    BY <1>1, <1>7, <2>1, FencedType
<1>9. CASE got > baseline[i]
  <2>1. entry' = [entry EXCEPT ![i] = None] /\ reader' = Fenced(i, waiting)
    BY <1>1, <1>2, <1>9, TypesAt DEF ApplyProbe, Moved, Drops, GoesOn
  <2>2. \A x : Floor(entry', reader', i, x)
    BY <1>1, <1>7, <2>1, DropClears
  <2>. QED
    BY <1>1, <1>3, <1>5, <1>6, <1>7, <1>8, <2>2
<1>10. CASE ~(got > baseline[i])
  <2>1. top = baseline[i]
    BY <1>1, <1>10 DEF Larger
  <2>2. Floor(entry, reader, i, Newest(directory, top)) /\ Floor(entry, reader, i, written[i])
    BY <1>6, <2>1 DEF IsolateInv
  <2>3. /\ Floor(entry', reader', i, Newest(directory, top))
        /\ Floor(entry', reader', i, written[i])
    BY <1>1, <1>5, <1>6, <2>2 DEF Steady
  <2>. QED
    BY <1>1, <1>3, <1>5, <1>6, <1>7, <1>8, <2>3
<1>. QED
  BY <1>9, <1>10

LEMMA IsolateStep ==
  ASSUME FreshInv, Next, Steady, NEW i \in Isolates
  PROVE  IsolateInv(i)'
<1>1. /\ TypeOK /\ TypeInv /\ IsolateInv(i) /\ source \in Nat /\ Generation \in Nat
      /\ baseline[i] \in 0 .. Generation /\ told[i] \in 0 .. source
      /\ written[i] \in 0 .. source /\ told[i] <= Newest(directory, Generation)
      /\ Newest(directory, baseline[i]) \in 0 .. source
      /\ Newest(directory, Generation) \in 0 .. source
  BY FreshTypes DEF FreshInv, IsolateInv
<1>2. ASSUME NEW r \in Readers, ApplyProbe(r), Home[r] = i
      PROVE  IsolateInv(i)'
  <2> DEFINE news == Newest(directory, reader[r].got)
             top  == Larger(baseline[i], reader[r].got)
  <2>1. /\ baseline'[i] = top /\ told'[i] = Larger(told[i], news)
        /\ written'[i] = written[i] /\ source' = source
        /\ directory' = directory /\ Generation' = Generation
        /\ news \in 0 .. source /\ news <= Newest(directory, Generation)
        /\ told[i] <= Newest(directory, top) /\ news <= Newest(directory, top)
        /\ Floor(entry', reader', i, Newest(directory, top))
        /\ Floor(entry', reader', i, written[i])
    BY <1>1, <1>2, ProbeApplied, TypesAt
  <2>2. Larger(told[i], news) \in {told[i], news} /\ Larger(told[i], news) \in Nat
    BY <1>1, <2>1 DEF Larger
  <2>3. Newest(directory, top) \in Nat
    <3>1. top \in 0 .. Generation
      BY <1>1, FreshTypes DEF Larger
    <3>. QED
      BY <3>1, FreshTypes
  <2>4. Floor(entry', reader', i, Larger(told[i], news))
    <3>1. Larger(told[i], news) <= Newest(directory, top)
      BY <2>1, <2>2
    <3>. QED
      BY <2>1, <2>2, <2>3, <3>1 DEF Steady
  <2>5. Larger(told[i], news) <= Newest(directory, Generation)
    BY <1>1, <2>1, <2>2
  <2>. QED
    BY <1>1, <2>1, <2>4, <2>5 DEF IsolateInv
<1>3. ASSUME NEW w \in Writers, MergeOwnBump(w) \/ BumpFails(w), Home[w] = i
      PROVE  IsolateInv(i)'
  <2>1. /\ WriterInv(w) /\ writer[w].got \in 0 .. Generation
        /\ writer[w].version \in 0 .. source
    BY FreshTypes DEF FreshInv
  <2>2. /\ source' = source /\ directory' = directory /\ Generation' = Generation
        /\ told' = told /\ inWindow' = inWindow
        /\ written'[i] = Larger(written[i], writer[w].version)
        /\ writer[w].pc \in {"dropped", "bumped"}
    BY <1>1, <1>3, TypesAt DEF MergeOwnBump, BumpFails, Returned, Generation
  <2>3. Floor(entry, reader, i, writer[w].version) /\ Floor(entry, reader, i, written[i])
    BY <1>1, <1>3, <2>1, <2>2 DEF WriterInv, IsolateInv
  <2>4. /\ Larger(written[i], writer[w].version) \in 0 .. source
        /\ Floor(entry', reader', i, Larger(written[i], writer[w].version))
    BY <1>1, <2>1, <2>3 DEF Larger, Steady
  <2>5. baseline'[i] \in {baseline[i], writer[w].got}
    BY <1>1, <1>3, TypesAt DEF MergeOwnBump, BumpFails, Merged, Larger
  <2>6. Floor(entry, reader, i, Newest(directory, writer[w].got))
    <3>1. /\ Newest(directory, writer[w].got) = 0
             \/ \E k \in 1 .. writer[w].got : directory[k] = Newest(directory, writer[w].got)
      BY <1>1, <2>1, NewestFacts DEF IsNewest
    <3>2. \A k \in 1 .. writer[w].got : k \in 1 .. Generation
      BY <1>1, <2>1
    <3>3. \A k \in 1 .. Generation : Floor(entry, reader, i, directory[k])
      BY <1>3, <2>1 DEF WriterInv
    <3>4. Floor(entry, reader, i, 0)
      BY <1>1, FloorFacts
    <3>. QED
      BY <3>1, <3>2, <3>3, <3>4
  <2>7. Floor(entry', reader', i, Newest(directory, baseline'[i]))
    <3>1. Newest(directory, baseline'[i]) \in 0 .. source
      BY <1>1, <2>1, <2>5, FreshTypes
    <3>2. Floor(entry, reader, i, Newest(directory, baseline'[i]))
      BY <1>1, <2>5, <2>6 DEF IsolateInv
    <3>. QED
      BY <3>1, <3>2 DEF Steady
  <2>8. inWindow[i] => Floor(entry', reader', i, told[i])
    BY <1>1 DEF IsolateInv, Steady
  <2>. QED
    BY <1>1, <2>2, <2>4, <2>7, <2>8 DEF IsolateInv
<1>4. CASE ForgetGroup(i)
  <2>1. /\ baseline'[i] = 0 /\ inWindow'[i] = FALSE
        /\ UNCHANGED <<source, directory, entry, reader, told, written, Generation>>
    BY <1>1, <1>4, TypesAt DEF ForgetGroup, Generation
  <2>2. Newest(directory, 0) = 0 /\ Floor(entry, reader, i, 0)
    BY <1>1, NewestOfNone, FloorFacts
  <2>. QED
    BY <1>1, <2>1, <2>2 DEF IsolateInv
<1>5. CASE UNCHANGED <<baseline[i], told[i], written[i]>> /\ (inWindow'[i] => inWindow[i])
  BY <1>5, IsolateKept
<1>6. \/ UNCHANGED <<baseline[i], told[i], written[i]>> /\ (inWindow'[i] => inWindow[i])
      \/ \E r \in Readers : ApplyProbe(r) /\ Home[r] = i
      \/ \E w \in Writers : (MergeOwnBump(w) \/ BumpFails(w)) /\ Home[w] = i
      \/ ForgetGroup(i)
  <2>1. ASSUME NEW r \in Readers,
               Get(r) \/ DirectoryAnswers(r) \/ ApplyProbe(r) \/ ProbeFails(r) \/ Hit(r)
               \/ Join(r) \/ Miss(r) \/ Load(r) \/ Publish(r)
        PROVE  \/ ApplyProbe(r) /\ Home[r] = i
               \/ UNCHANGED <<baseline[i], told[i], written[i]>> /\ (inWindow'[i] => inWindow[i])
    BY <1>1, <2>1, TypesAt DEF Get, DirectoryAnswers, ApplyProbe, ProbeFails, Hit, Join, Miss,
       Load, Publish
  <2>2. ASSUME NEW w \in Writers,
               Commit(w) \/ LocalDrop(w) \/ Bump(w) \/ MergeOwnBump(w) \/ BumpFails(w)
        PROVE  \/ (MergeOwnBump(w) \/ BumpFails(w)) /\ Home[w] = i
               \/ UNCHANGED <<baseline[i], told[i], written[i]>> /\ (inWindow'[i] => inWindow[i])
    BY <1>1, <2>2, TypesAt DEF Commit, LocalDrop, Bump, MergeOwnBump, BumpFails, Returned
  <2>3. ASSUME NEW j \in Isolates, Expire(j) \/ WindowEnds(j) \/ ForgetGroup(j)
        PROVE  \/ ForgetGroup(i)
               \/ UNCHANGED <<baseline[i], told[i], written[i]>> /\ (inWindow'[i] => inWindow[i])
    BY <1>1, <2>3, TypesAt DEF Expire, WindowEnds, ForgetGroup
  <2>. QED
    BY <2>1, <2>2, <2>3 DEF Next
<1>. QED
  BY <1>2, <1>3, <1>4, <1>5, <1>6

\* A read that the step leaves alone.
LEMMA ReaderKept ==
  ASSUME FreshInv, Steady, NEW r \in Readers,
         reader'[r].pc = reader[r].pc, reader'[r].owed = reader[r].owed,
         reader'[r].got = reader[r].got, reader'[r].value = reader[r].value,
         written'[Home[r]] \in Nat, written[Home[r]] <= written'[Home[r]],
         reader[r].pc = "answered" =>
           told'[Home[r]] <= Newest(directory', Larger(baseline'[Home[r]], reader[r].got))
  PROVE  ReaderInv(r)'
<1> DEFINE i == Home[r]
<1>1. /\ ReaderInv(r) /\ reader[r].owed \in 0 .. source /\ source \in Nat
      /\ i \in Isolates /\ written[i] \in Nat
  BY FreshTypes DEF FreshInv, ReaderInv
<1>2. reader'[r].owed <= source'
  BY <1>1 DEF Steady
<1>3. reader'[r].pc \in {"probing", "answered"} => reader'[r].owed <= written'[i]
  BY <1>1 DEF ReaderInv
<1>4. reader'[r].pc \in {"reading", "loading", "loaded"} =>
        Floor(entry', reader', i, reader'[r].owed)
  BY <1>1 DEF ReaderInv, Steady
<1>5. reader'[r].pc = "loaded" => reader'[r].value >= reader'[r].owed
  BY <1>1 DEF ReaderInv
<1>. QED
  BY <1>2, <1>3, <1>4, <1>5 DEF ReaderInv

\* What an answered probe owes it keeps while the baseline only rises.
LEMMA AnswerKept ==
  ASSUME FreshInv, Steady, NEW r \in Readers, reader[r].pc = "answered",
         told'[Home[r]] = told[Home[r]], directory' = directory \/ baseline' = baseline,
         baseline'[Home[r]] \in 0 .. Generation, baseline[Home[r]] <= baseline'[Home[r]]
  PROVE  told'[Home[r]] <= Newest(directory', Larger(baseline'[Home[r]], reader[r].got))
<1> DEFINE i   == Home[r]
           top == Larger(baseline[i], reader[r].got)
           new == Larger(baseline'[i], reader[r].got)
<1>1. /\ TypeInv /\ told[i] \in Nat /\ told[i] <= Newest(directory, top)
      /\ reader[r].got \in 0 .. Generation /\ Generation \in Nat
      /\ baseline[i] \in 0 .. Generation
  BY FreshTypes DEF FreshInv, ReaderInv
<1>2. top \in 0 .. new /\ new \in 0 .. Generation /\ top \in 0 .. Generation
  BY <1>1 DEF Larger
<1>3. Newest(directory, top) <= Newest(directory, new)
  BY <1>1, <1>2, NewestFacts
<1>4. Newest(directory', new) = Newest(directory, new)
  BY <1>2 DEF Steady
<1>5. Newest(directory, top) \in Nat /\ Newest(directory, new) \in Nat
  BY <1>1, <1>2, NewestFacts, FreshTypes
<1>. QED
  BY <1>1, <1>3, <1>4, <1>5

LEMMA ReaderStep ==
  ASSUME FreshInv, Next, Steady, NEW r \in Readers
  PROVE  ReaderInv(r)'
<1> DEFINE i == Home[r]
<1>1. /\ TypeOK /\ TypeInv /\ ReaderInv(r) /\ IsolateInv(i) /\ i \in Isolates
      /\ source \in Nat /\ Generation \in Nat /\ baseline[i] \in 0 .. Generation
      /\ reader[r].owed \in 0 .. source /\ reader[r].got \in 0 .. Generation
      /\ reader[r].value \in Nat
      /\ written[i] \in 0 .. source /\ told[i] \in 0 .. source
      /\ told[i] <= Newest(directory, Generation)
  BY FreshTypes DEF FreshInv, ReaderInv, IsolateInv
<1>2. CASE Get(r)
  <2> DEFINE owed == Larger(written[i], IF inWindow[i] THEN told[i] ELSE 0)
  <2>1. /\ reader'[r].pc = (IF inWindow[i] THEN "reading" ELSE "probing")
        /\ reader'[r].owed = owed
        /\ UNCHANGED <<source, entry, written, directory>>
    BY <1>1, <1>2, TypesAt DEF Get, NotReading
  <2>2. /\ owed \in 0 .. source
        /\ inWindow[i] => owed \in {written[i], told[i]}
        /\ ~inWindow[i] => owed <= written[i]
    BY <1>1 DEF Larger
  <2>3. inWindow[i] => Floor(entry, reader, i, owed)
    BY <1>1, <2>2 DEF IsolateInv
  <2>4. inWindow[i] => Floor(entry', reader', i, owed)
    BY <1>1, <2>2, <2>3 DEF Steady
  <2>. QED
    BY <1>1, <2>1, <2>2, <2>4 DEF ReaderInv
<1>3. CASE DirectoryAnswers(r)
  <2>1. /\ reader'[r].pc = "answered" /\ reader'[r].got = Generation
        /\ reader'[r].owed = reader[r].owed /\ reader[r].pc = "probing"
        /\ UNCHANGED <<source, written, directory, told, baseline>>
    BY <1>1, <1>3, TypesAt DEF DirectoryAnswers, ReadStates
  <2>2. Larger(baseline[i], Generation) = Generation
    BY <1>1 DEF Larger
  <2>. QED
    BY <1>1, <2>1, <2>2 DEF ReaderInv
<1>4. CASE ApplyProbe(r)
  <2> DEFINE news == Newest(directory, reader[r].got)
             top  == Larger(baseline[i], reader[r].got)
  <2>1. /\ news \in 0 .. source /\ news <= Newest(directory, top)
        /\ Floor(entry', reader', i, Newest(directory, top))
        /\ Floor(entry', reader', i, written[i])
        /\ reader'[r].pc = "reading"
        /\ reader'[r].owed = Larger(reader[r].owed, news)
        /\ source' = source
    BY <1>4, ProbeApplied
  <2>2. reader[r].owed <= written[i]
    BY <1>1, <1>4 DEF ReaderInv, ApplyProbe
  <2>3. Newest(directory, top) \in Nat
    <3>1. top \in 0 .. Generation
      BY <1>1 DEF Larger
    <3>. QED
      BY <3>1, FreshTypes
  <2>4. \A x \in Nat, y \in Nat :
          Floor(entry', reader', i, x) /\ y <= x => Floor(entry', reader', i, y)
    BY <1>1 DEF Steady
  <2>5. Floor(entry', reader', i, reader[r].owed) /\ Floor(entry', reader', i, news)
    BY <1>1, <2>1, <2>2, <2>3, <2>4
  <2>6. Larger(reader[r].owed, news) \in {reader[r].owed, news}
    BY DEF Larger
  <2>7. reader'[r].owed <= source' /\ Floor(entry', reader', i, reader'[r].owed)
    BY <1>1, <2>1, <2>5, <2>6
  <2>. QED
    BY <2>1, <2>7 DEF ReaderInv
<1>5. CASE ProbeFails(r)
  <2> DEFINE rs == GoesOn(reader, r, source)
  <2>1. /\ entry' = [entry EXCEPT ![i] = None] /\ reader' = Fenced(i, rs)
        /\ source' = source
    BY <1>5 DEF ProbeFails, FailsClosed, Drops, GoesOn
  <2>2. source \in Versions /\ reader \in [Readers -> ReadStates(Generation)]
    BY <1>1, TypesAt
  <2>3. rs \in [Readers -> ReadStates(Generation)] /\ rs[r].pc = "reading" /\ rs[r].owed = source
    BY <1>1, <2>2, GoesOnType
  <2>. HIDE DEF rs
  <2>4. \A x : Floor(entry', reader', i, x)
    BY <1>1, <2>1, <2>3, DropClears
  <2>5. reader'[r].pc = "reading" /\ reader'[r].owed = source
    BY <1>1, <2>1, <2>3, FencedType
  <2>6. Floor(entry', reader', i, reader'[r].owed)
    BY <2>4
  <2>7. reader'[r].owed <= source'
    BY <1>1, <2>1, <2>5
  <2>. QED
    BY <2>5, <2>6, <2>7 DEF ReaderInv
<1>6. CASE Hit(r) \/ Publish(r)
  <2>1. /\ reader'[r].pc = "idle" /\ reader'[r].owed = 0 /\ source' = source
    BY <1>1, <1>6, TypesAt DEF Hit, Publish, Ends, NotReading
  <2>. QED
    BY <1>1, <2>1 DEF ReaderInv
<1>7. CASE Miss(r)
  <2>1. /\ reader'[r].pc = "loading" /\ reader'[r].owed = reader[r].owed
        /\ reader[r].pc = "reading" /\ source' = source
    BY <1>1, <1>7, TypesAt DEF Miss, ReadStates
  <2>2. Floor(entry, reader, i, reader[r].owed)
    BY <1>1, <2>1 DEF ReaderInv
  <2>. QED
    BY <1>1, <2>1, <2>2 DEF ReaderInv, Steady
<1>12. CASE Join(r)
  <2>1. /\ reader'[r].pc = "joined" /\ reader'[r].owed = reader[r].owed /\ source' = source
    BY <1>1, <1>12, TypesAt DEF Join, ReadStates
  <2>. QED
    BY <1>1, <2>1 DEF ReaderInv
<1>8. CASE Load(r)
  <2>1. /\ reader'[r].pc = "loaded" /\ reader'[r].owed = reader[r].owed
        /\ reader'[r].value = source /\ reader[r].pc = "loading" /\ source' = source
    BY <1>1, <1>8, TypesAt DEF Load, ReadStates
  <2>2. Floor(entry, reader, i, reader[r].owed)
    BY <1>1, <2>1 DEF ReaderInv
  <2>. QED
    BY <1>1, <2>1, <2>2 DEF ReaderInv, Steady
<1>9. ASSUME NEW s \in Readers, s # r,
             Get(s) \/ DirectoryAnswers(s) \/ ApplyProbe(s) \/ ProbeFails(s) \/ Hit(s)
             \/ Join(s) \/ Miss(s) \/ Load(s) \/ Publish(s)
      PROVE  ReaderInv(r)'
  <2>1. CASE ApplyProbe(s)
    <3> DEFINE got  == reader[s].got
               news == Newest(directory, got)
               top  == Larger(baseline[Home[s]], got)
    <3>1. /\ reader'[r].pc = reader[r].pc /\ reader'[r].owed = reader[r].owed
          /\ reader'[r].got = reader[r].got /\ reader'[r].value = reader[r].value
          /\ written' = written /\ directory' = directory
          /\ baseline' = [baseline EXCEPT ![Home[s]] = top]
          /\ told' = [told EXCEPT ![Home[s]] = Larger(told[Home[s]], news)]
          /\ news \in 0 .. source /\ news <= Newest(directory, top)
      BY <1>9, <2>1, ProbeApplied
    <3>2. ASSUME reader[r].pc = "answered"
          PROVE  told'[i] <= Newest(directory', Larger(baseline'[i], reader[r].got))
      <4>1. CASE Home[s] # i
        <5>1. told'[i] = told[i] /\ baseline'[i] = baseline[i]
          BY <1>1, <3>1, <4>1, TypesAt
        <5>. QED
          BY <1>1, <3>1, <3>2, <5>1, AnswerKept
      <4>2. CASE Home[s] = i
        <5> DEFINE new == Larger(top, reader[r].got)
                   old == Larger(baseline[i], reader[r].got)
        <5>1. told'[i] = Larger(told[i], news) /\ baseline'[i] = top
          BY <1>1, <3>1, <4>2, TypesAt
        <5>2. got \in 0 .. Generation
          BY FreshTypes
        <5>3. /\ top \in 0 .. Generation /\ new \in 0 .. Generation
              /\ old \in 0 .. new /\ top \in 0 .. new
          BY <1>1, <4>2, <5>2 DEF Larger
        <5>4. /\ Newest(directory, top) <= Newest(directory, new)
              /\ Newest(directory, old) <= Newest(directory, new)
              /\ Newest(directory, new) \in Nat /\ Newest(directory, top) \in Nat
              /\ Newest(directory, old) \in Nat
          BY <1>1, <5>3, NewestFacts
        <5>5. told[i] <= Newest(directory, old)
          BY <3>2, <1>1 DEF ReaderInv
        <5>6. told[i] <= Newest(directory, new) /\ news <= Newest(directory, new)
          BY <1>1, <3>1, <5>4, <5>5
        <5>. QED
          BY <3>1, <5>1, <5>6 DEF Larger
      <4>. QED
        BY <4>1, <4>2
    <3>. QED
      BY <1>1, <3>1, <3>2, ReaderKept
  <2>2. CASE ProbeFails(s)
    <3> DEFINE rs == GoesOn(reader, s, source)
    <3>1. source \in Versions /\ reader \in [Readers -> ReadStates(Generation)]
      BY <1>1, TypesAt
    <3>2. rs \in [Readers -> ReadStates(Generation)] /\ rs[r] = reader[r]
      BY <1>1, <1>9, <3>1, GoesOnType
    <3>3. /\ reader' = Fenced(Home[s], rs)
          /\ UNCHANGED <<written, told, baseline, directory>>
      BY <2>2 DEF ProbeFails, GoesOn
    <3>. HIDE DEF rs
    <3>4. Home[s] \in Isolates
      BY FreshTypes
    <3>5. /\ reader'[r].pc = reader[r].pc /\ reader'[r].owed = reader[r].owed
          /\ reader'[r].got = reader[r].got /\ reader'[r].value = reader[r].value
      BY <1>1, <3>2, <3>3, <3>4, FencedType
    <3>. QED
      BY <1>1, <3>3, <3>5, ReaderKept, AnswerKept
  <2>3. CASE ~ApplyProbe(s) /\ ~ProbeFails(s)
    <3>1. /\ reader'[r] = reader[r] \/ reader'[r] = NotReading(r)
          /\ UNCHANGED <<source, written, told, baseline, directory>>
      BY <1>1, <1>9, <2>3, TypesAt DEF Get, DirectoryAnswers, Hit, Join, Miss, Load, Publish, Ends
    <3>2. CASE reader'[r] = reader[r]
      BY <1>1, <3>1, <3>2, ReaderKept, AnswerKept
    <3>3. CASE reader'[r] = NotReading(r)
      BY <1>1, <3>1, <3>3 DEF ReaderInv, NotReading
    <3>. QED
      BY <3>1, <3>2, <3>3
  <2>. QED
    BY <2>1, <2>2, <2>3
<1>10. ASSUME NEW w \in Writers,
              Commit(w) \/ LocalDrop(w) \/ Bump(w) \/ MergeOwnBump(w) \/ BumpFails(w)
       PROVE  ReaderInv(r)'
  <2>1. /\ writer[w].got \in 0 .. Generation /\ writer[w].version \in 0 .. source
        /\ Home[w] \in Isolates
    BY FreshTypes
  <2>2. /\ reader'[r].pc = reader[r].pc /\ reader'[r].owed = reader[r].owed
        /\ reader'[r].got = reader[r].got /\ reader'[r].value = reader[r].value
    <3>1. reader' = reader \/ reader' = Fenced(Home[w], reader)
      BY <1>10 DEF Commit, LocalDrop, Bump, MergeOwnBump, BumpFails
    <3>2. reader \in [Readers -> ReadStates(Generation)]
      BY <1>1, TypesAt
    <3>. QED
      BY <1>1, <2>1, <3>1, <3>2, FencedType
  <2>3. written'[i] \in {written[i], Larger(written[i], writer[w].version)}
    BY <1>1, <1>10, TypesAt DEF Commit, LocalDrop, Bump, MergeOwnBump, BumpFails, Returned
  <2>4. written'[i] \in Nat /\ written[i] <= written'[i]
    BY <1>1, <2>1, <2>3 DEF Larger
  <2>5. /\ told' = told
        /\ directory' = directory \/ baseline' = baseline
        /\ baseline'[i] \in {baseline[i], Larger(baseline[i], writer[w].got)}
    BY <1>1, <1>10, TypesAt DEF Commit, LocalDrop, Bump, MergeOwnBump, BumpFails, Merged
  <2>6. baseline'[i] \in 0 .. Generation /\ baseline[i] <= baseline'[i]
    BY <1>1, <2>1, <2>5 DEF Larger
  <2>. QED
    BY <1>1, <2>2, <2>4, <2>5, <2>6, ReaderKept, AnswerKept
<1>11. ASSUME NEW j \in Isolates, Expire(j) \/ WindowEnds(j) \/ ForgetGroup(j)
       PROVE  ReaderInv(r)'
  <2>1. UNCHANGED <<reader, written, told, directory>>
    BY <1>11 DEF Expire, WindowEnds, ForgetGroup
  <2>2. reader[r].pc = "answered" => baseline'[i] = baseline[i]
    BY <1>1, <1>11, TypesAt DEF Expire, WindowEnds, ForgetGroup
  <2>. QED
    BY <1>1, <2>1, <2>2, ReaderKept, AnswerKept
<1>. QED
  BY <1>2, <1>3, <1>4, <1>5, <1>6, <1>7, <1>8, <1>9, <1>10, <1>11, <1>12 DEF Next

LEMMA WriterStep ==
  ASSUME OneWritingIsolate, FreshInv, Next, Steady, NEW w \in Writers
  PROVE  WriterInv(w)'
<1> DEFINE i == Home[w]
<1>1. /\ TypeOK /\ TypeInv /\ WriterInv(w) /\ i \in Isolates /\ source \in Nat
      /\ Generation \in Nat
      /\ \A v \in Writers : writer[v].version \in 0 .. source
      /\ \A k \in 1 .. Generation : directory[k] \in 0 .. source
  BY FreshTypes DEF FreshInv
<1>2. \A k \in 1 .. Generation : Floor(entry', reader', i, directory[k])
  BY <1>1 DEF WriterInv, Steady
<1>3. writer[w].pc \in {"dropped", "bumped"} => Floor(entry', reader', i, writer[w].version)
  BY <1>1 DEF WriterInv, Steady
<1>4. ASSUME NEW v \in Writers, Bump(v)
      PROVE  WriterInv(w)'
  <2>1. /\ Generation' = Generation + 1
        /\ \A k \in 1 .. Generation : directory'[k] = directory[k]
        /\ directory'[Generation'] = writer[v].version
    BY <1>1, <1>4, DirectoryBumped
  <2>2. Floor(entry', reader', i, writer[v].version)
    <3>1. Home[v] = i /\ WriterInv(v) /\ writer[v].pc = "dropped"
      BY <1>4 DEF OneWritingIsolate, FreshInv, Bump
    <3>2. Floor(entry, reader, i, writer[v].version)
      BY <3>1 DEF WriterInv
    <3>. QED
      BY <1>1, <3>2 DEF Steady
  <2>3. \A k \in 1 .. Generation' : k \in 1 .. Generation \/ k = Generation'
    BY <1>1, <2>1
  <2>4. \A k \in 1 .. Generation' : Floor(entry', reader', i, directory'[k])
    BY <1>2, <2>1, <2>2, <2>3
  <2>5. writer'[w].version = writer[w].version
        /\ (writer'[w].pc \in {"dropped", "bumped"} => writer[w].pc \in {"dropped", "bumped"})
    BY <1>1, <1>4, TypesAt DEF Bump, WriteStates
  <2>. QED
    BY <1>3, <2>4, <2>5 DEF WriterInv
<1>5. CASE LocalDrop(w)
  <2>1. /\ entry' = [entry EXCEPT ![i] = None] /\ reader' = Fenced(i, reader)
        /\ UNCHANGED <<directory, Generation>>
    BY <1>5 DEF LocalDrop, Drops, Generation
  <2>2. \A x : Floor(entry', reader', i, x)
    BY <1>1, <2>1, DropClears, TypesAt
  <2>. QED
    BY <2>1, <2>2 DEF WriterInv
<1>6. ASSUME UNCHANGED <<directory, Generation>>,
             writer'[w].pc \in {"dropped", "bumped"} => writer'[w] = writer[w]
      PROVE  WriterInv(w)'
  BY <1>2, <1>3, <1>6 DEF WriterInv
<1>7. \/ \E v \in Writers : Bump(v)
      \/ LocalDrop(w)
      \/ UNCHANGED <<directory, Generation>>
         /\ (writer'[w].pc \in {"dropped", "bumped"} => writer'[w] = writer[w])
  <2>1. ASSUME NEW v \in Writers, Commit(v) \/ LocalDrop(v) \/ MergeOwnBump(v) \/ BumpFails(v)
        PROVE  \/ LocalDrop(w)
               \/ UNCHANGED <<directory, Generation>>
                  /\ (writer'[w].pc \in {"dropped", "bumped"} => writer'[w] = writer[w])
    <3>1. UNCHANGED <<directory, Generation>>
      BY <2>1 DEF Commit, LocalDrop, MergeOwnBump, BumpFails, Generation
    <3>2. CASE v # w
      <4>1. writer'[w] = writer[w]
        BY <1>1, <2>1, <3>2, TypesAt DEF Commit, LocalDrop, MergeOwnBump, BumpFails, Returned
      <4>. QED
        BY <3>1, <4>1
    <3>3. CASE v = w /\ ~LocalDrop(w)
      <4>1. writer'[w].pc \in {"committed", "idle"}
        <5>1. CASE Commit(w)
          BY <1>1, <5>1, TypesAt DEF Commit, NotWriting
        <5>2. CASE MergeOwnBump(w) \/ BumpFails(w)
          BY <1>1, <5>2, TypesAt DEF MergeOwnBump, BumpFails, Returned, NotWriting
        <5>. QED
          BY <2>1, <3>3, <5>1, <5>2
      <4>. QED
        BY <3>1, <4>1
    <3>. QED
      BY <3>2, <3>3
  <2>2. UNCHANGED <<directory, writer>> => UNCHANGED <<directory, Generation>>
    BY DEF Generation
  <2>. QED
    BY <2>1, <2>2 DEF Next, Expire, WindowEnds, ForgetGroup, Get, DirectoryAnswers, ApplyProbe,
       ProbeFails, Hit, Join, Miss, Load, Publish
<1>. QED
  BY <1>4, <1>5, <1>6, <1>7

LEMMA FreshStep ==
  OneWritingIsolate => (FreshInv /\ [Next]_vars => FreshInv')
<1> SUFFICES ASSUME OneWritingIsolate, FreshInv, [Next]_vars PROVE FreshInv'
  OBVIOUS
<1>1. TypeInv'
  BY TypesStep DEF FreshInv
<1>2. CASE Next
  <2>1. Steady
    BY <1>2, Steadies DEF FreshInv
  <2>. QED
    BY <1>1, <1>2, <2>1, IsolateStep, ReaderStep, WriterStep DEF FreshInv
<1>3. CASE UNCHANGED vars
  BY <1>1, <1>3 DEF vars, FreshInv, IsolateInv, ReaderInv, WriterInv, Generation
<1>. QED
  BY <1>2, <1>3

LEMMA FreshReached ==
  ASSUME OneWritingIsolate
  PROVE  Spec => []FreshInv
<1>1. Init => FreshInv
  BY FreshInit
<1>2. FreshInv /\ [Next]_vars => FreshInv'
  BY FreshStep
<1>. QED
  BY <1>1, <1>2, PTL DEF Spec

\* What an isolate caches is no older than any write its baseline says it has
\* seen: later probes will not drop it (runProbe, mergeGeneration).
THEOREM BaselinesAreHonest ==
  ASSUME OneWritingIsolate
  PROVE  Spec => []BaselineIsHonest
<1>1. FreshInv => BaselineIsHonest
  <2> SUFFICES ASSUME FreshInv, NEW i \in Isolates, entry[i] # None
               PROVE  entry[i] >= Announced(baseline[i])
    BY DEF BaselineIsHonest
  <2>1. Announced(baseline[i]) = Newest(directory, baseline[i])
    BY DEF Announced, Newest, IsNewest
  <2>. QED
    BY <2>1 DEF FreshInv, IsolateInv, Floor
<1>. QED
  BY <1>1, FreshReached, PTL

-----------------------------------------------------------------------------
(* Reads that join a load. *)

\* A read that joined a load did so in its own invocation; any other is served
\* by itself.
JoinInv ==
  \A r \in Readers : IF reader[r].pc = "joined" THEN SameInvocation(r, reader[r].from)
                     ELSE reader[r].from = r

\* A step joins a read to a load of its invocation, ends it, together with the
\* load it joined, or leaves it where its value comes from.
LEMMA JoinMoves ==
  ASSUME TypeInv, Next, NEW r \in Readers
  PROVE  \/ /\ reader'[r].pc = "joined" <=> reader[r].pc = "joined"
            /\ reader'[r].from = reader[r].from
         \/ reader'[r].pc = "joined" /\ SameInvocation(r, reader'[r].from)
         \/ /\ reader'[r].pc # "joined" /\ reader'[r].from = r
            /\ reader[r].pc = "joined" => Loader(r).pc = "loaded"
<1> DEFINE Kept == /\ reader'[r].pc = "joined" <=> reader[r].pc = "joined"
                   /\ reader'[r].from = reader[r].from
<1>1. /\ TypeOK /\ reader \in [Readers -> ReadStates(Generation)] /\ Generation \in Nat
      /\ source \in Versions
      /\ \A q \in Readers \cup Writers : Home[q] \in Isolates
  BY TypesAt DEF TypeInv
<1>2. ASSUME NEW s \in Readers, ApplyProbe(s) \/ ProbeFails(s)
      PROVE  Kept
  <2>1. PICK owed \in Versions :
          \/ reader' = GoesOn(reader, s, owed)
          \/ reader' = Fenced(Home[s], GoesOn(reader, s, owed))
    <3>1. CASE ApplyProbe(s)
      <4> DEFINE news == Announced(reader[s].got)
                 rs   == GoesOn(reader, s, Larger(reader[s].owed, news))
      <4>1. reader' = rs \/ reader' = Fenced(Home[s], rs)
        BY <1>1, <3>1 DEF ApplyProbe, GoesOn
      <4>2. news = Newest(directory, reader[s].got) /\ reader[s].got \in 0 .. Generation
            /\ reader[s].owed \in Versions
        BY <1>1 DEF Announced, Newest, IsNewest, ReadStates
      <4>3. news \in Versions
        BY <1>1, <4>2, NewestFacts, TypesAt
      <4>4. Larger(reader[s].owed, news) \in Versions
        BY <4>2, <4>3 DEF Larger
      <4>. QED
        BY <4>1, <4>4
    <3>2. CASE ProbeFails(s)
      BY <1>1, <3>2 DEF ProbeFails, GoesOn
    <3>. QED
      BY <1>2, <3>1, <3>2
  <2> DEFINE rs == GoesOn(reader, s, owed)
  <2>2. /\ rs \in [Readers -> ReadStates(Generation)]
        /\ \A q \in Readers : q # s => rs[q] = reader[q]
        /\ rs[s].pc = "reading" /\ rs[s].from = reader[s].from
    BY <1>1, GoesOnType
  <2>3. reader' = rs \/ reader' = Fenced(Home[s], rs)
    BY <2>1
  <2>. HIDE DEF rs
  <2>4. reader'[r].pc = rs[r].pc /\ reader'[r].from = rs[r].from
    BY <1>1, <2>2, <2>3, FencedType
  <2>5. reader[s].pc # "joined"
    BY <1>2 DEF ApplyProbe, ProbeFails
  <2>. QED
    BY <2>2, <2>4, <2>5
<1>3. ASSUME NEW s \in Readers,
             DirectoryAnswers(s) \/ Miss(s) \/ Load(s)
      PROVE  Kept
  BY <1>1, <1>3 DEF DirectoryAnswers, Miss, Load, ReadStates
<1>4. ASSUME NEW s \in Readers, Get(s) \/ Hit(s)
      PROVE  \/ Kept
             \/ /\ reader'[r].pc # "joined" /\ reader'[r].from = r
                /\ reader[r].pc # "joined"
  <2>1. \A q \in Readers : q # s => reader'[q] = reader[q]
    BY <1>1, <1>4 DEF Get, Hit
  <2>2. CASE Get(s)
    <3>1. /\ reader[s].pc = "idle" /\ reader'[s].from = s
          /\ reader'[s].pc \in {"reading", "probing"}
      BY <1>1, <2>2 DEF Get, NotReading
    <3>. QED
      BY <2>1, <3>1
  <2>3. CASE Hit(s)
    <3>1. /\ reader[s].pc = "reading" /\ reader'[s].from = s /\ reader'[s].pc = "idle"
      BY <1>1, <2>3 DEF Hit, NotReading
    <3>. QED
      BY <2>1, <3>1
  <2>. QED
    BY <1>4, <2>2, <2>3
<1>5. ASSUME NEW s \in Readers, Join(s)
      PROVE  \/ Kept
             \/ reader'[r].pc = "joined" /\ SameInvocation(r, reader'[r].from)
  <2>1. PICK l \in Readers : SameInvocation(s, l)
                             /\ reader' = [reader EXCEPT ![s].pc = "joined", ![s].from = l]
    BY <1>5 DEF Join, InFlight
  <2>2. reader' = [reader EXCEPT ![s] = [reader[s] EXCEPT !.pc = "joined", !.from = l]]
    BY <1>1, <2>1
  <2>3. reader'[s].pc = "joined" /\ reader'[s].from = l
    BY <1>1, <2>2 DEF ReadStates
  <2>4. r # s => reader'[r] = reader[r]
    BY <1>1, <2>2
  <2>. QED
    BY <2>1, <2>3, <2>4
<1>6. ASSUME NEW s \in Readers, Publish(s)
      PROVE  \/ Kept
             \/ /\ reader'[r].pc # "joined" /\ reader'[r].from = r
                /\ reader[r].pc = "joined" => Loader(r).pc = "loaded"
  <2>1. reader[s].pc = "loaded"
        /\ reader'[r] = IF r = s \/ reader[r].from = s THEN NotReading(r) ELSE reader[r]
    BY <1>6 DEF Publish, Ends
  <2>. QED
    BY <2>1 DEF NotReading, Loader
<1>7. ASSUME NEW w \in Writers,
             Commit(w) \/ LocalDrop(w) \/ Bump(w) \/ MergeOwnBump(w) \/ BumpFails(w)
      PROVE  Kept
  <2>1. reader' = reader \/ reader' = Fenced(Home[w], reader)
    BY <1>7 DEF Commit, LocalDrop, Bump, MergeOwnBump, BumpFails
  <2>. QED
    BY <1>1, <2>1, FencedType
<1>8. ASSUME NEW i \in Isolates, Expire(i) \/ WindowEnds(i) \/ ForgetGroup(i)
      PROVE  Kept
  BY <1>8 DEF Expire, WindowEnds, ForgetGroup
<1>. QED
  BY <1>2, <1>3, <1>4, <1>5, <1>6, <1>7, <1>8 DEF Next

\* Reads join only within an invocation.
LEMMA JoinReached ==
  Spec => []JoinInv
<1>1. Init => JoinInv
  BY DEF Init, NotReading, JoinInv
<1>2. TypeInv /\ JoinInv /\ [Next]_vars => JoinInv'
  <2> SUFFICES ASSUME TypeInv, JoinInv, [Next]_vars PROVE JoinInv'
    OBVIOUS
  <2>1. CASE Next
    BY <2>1, JoinMoves DEF JoinInv, SameInvocation
  <2>2. CASE UNCHANGED vars
    BY <2>2 DEF vars, JoinInv
  <2>. QED
    BY <2>1, <2>2
<1>. QED
  BY <1>1, <1>2, TypesInit, TypesStep, PTL DEF Spec

\* A read served from the cache or by its own load gets nothing older than it is
\* owed; one that joined a load gets, in its own invocation, nothing older than
\* the read that loads is owed (ensureFresh, noteLocalInvalidation,
\* InvocationScopedLoads.run).
THEOREM FreshReads ==
  ASSUME OneWritingIsolate
  PROVE  Spec => ReadsAreFresh
<1> DEFINE Fresh(r) == \/ Served(r) >= reader[r].owed
                       \/ SameInvocation(r, reader[r].from) /\ Served(r) >= Loader(r).owed
           AllFresh == \A r \in Readers : Serves(r) => Fresh(r)
<1>1. ASSUME FreshInv, JoinInv, Next, NEW r \in Readers, Serves(r)
      PROVE  Fresh(r)
  <2>1. /\ ReaderInv(r) /\ TypeOK /\ TypeInv /\ Home[r] \in Isolates /\ reader[r].owed \in Nat
    BY <1>1, FreshTypes DEF FreshInv
  <2>2. CASE reader[r].pc = "loaded"
    BY <1>1, <2>1, <2>2 DEF ReaderInv, JoinInv, Served, Loader
  <2>3. CASE reader[r].pc = "reading" /\ entry[Home[r]] # None
    BY <2>1, <2>3 DEF ReaderInv, Floor, Served
  <2>4. CASE reader[r].pc = "reading" /\ entry[Home[r]] = None
    <3>1. reader[r].owed <= MaxWrites /\ MaxWrites \in Nat
      BY <2>1, TypesAt DEF ReaderInv
    <3>. QED
      BY <2>1, <2>4, <3>1 DEF Served, None
  <2>5. CASE reader[r].pc = "joined"
    <3>1. Loader(r).pc = "loaded" /\ reader[r].from \in Readers
      BY <1>1, <2>1, <2>5, JoinMoves, TypesAt DEF Serves, ReadStates
    <3>2. Loader(r).value >= Loader(r).owed
      BY <1>1, <3>1 DEF FreshInv, ReaderInv, Loader
    <3>3. SameInvocation(r, reader[r].from)
      BY <1>1, <2>5 DEF JoinInv
    <3>. QED
      BY <2>5, <3>2, <3>3 DEF Served
  <2>. QED
    BY <1>1, <2>2, <2>3, <2>4, <2>5 DEF Serves
<1>2. FreshInv /\ JoinInv /\ [Next]_vars => [AllFresh]_vars
  BY <1>1
<1>. QED
  BY <1>2, FreshReached, JoinReached, PTL DEF Spec, ReadsAreFresh
=============================================================================
