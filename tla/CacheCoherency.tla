--------------------------- MODULE CacheCoherency ----------------------------
(***************************************************************************)
(* One cached value on several isolates, kept coherent by a directory of   *)
(* generations: a write commits, drops the entry of its own isolate and    *)
(* bumps the directory; a read past the probe window asks the directory,   *)
(* and drops the entry when the generation moved.  A load in flight when   *)
(* the entry is dropped is fenced: it is served but not published.  A miss *)
(* joins a load its own invocation has in flight, fenced or not, and is    *)
(* served what that load brings.                                           *)
(*                                                                         *)
(* The value is its version, the number of writes committed.  One cache    *)
(* and one group: a group is its own shard of the directory, and the       *)
(* epoch, which carries cache-wide drops, is one more group.               *)
(***************************************************************************)
EXTENDS Naturals, Sequences

CONSTANTS
  Isolates,
  Readers,    \* reads of the value, each of one isolate
  Writers,    \* writes of it
  Home,       \* Home[p]: the isolate a read or a write runs on
  Invocation, \* Invocation[r]: what a read is served in, or NoInvocation
  NoInvocation,
  MaxWrites,  \* bound: committed writes
  MaxFaults   \* bound: directory calls that fail or whose answer is lost

ASSUME CoherencyAssumption ==
  /\ Home \in [Readers \cup Writers -> Isolates]
  /\ DOMAIN Invocation = Readers
  /\ \A r, s \in Readers : Invocation[r] = Invocation[s] =>
       Invocation[r] = NoInvocation \/ Home[r] = Home[s]
  /\ {MaxWrites, MaxFaults} \subseteq Nat

Versions == 0 .. MaxWrites
None     == MaxWrites + 1

VARIABLES
  source,     \* the stored version
  directory,  \* the bumps so far, each the version it announces
  entry,      \* entry[i]: what isolate i caches, or None
  baseline,   \* baseline[i]: the last generation i has seen or produced
  inWindow,   \* inWindow[i]: was the group probed less than a window ago
  reader,     \* reader[r]: where the read is and what it holds
  writer,     \* writer[w]: where the write is, its version, its bump
  told,       \* history: told[i]: newest version announced to i's last probe
  written,    \* history: written[i]: newest version whose write has returned
  faults      \* what is left of the bound

vars == <<source, directory, entry, baseline, inWindow, reader, writer, told,
          written, faults>>

Generation == Len(directory)
Larger(a, b) == IF a < b THEN b ELSE a

\* The newest version among the first g bumps.
Announced(g) ==
  CHOOSE v \in Versions :
    /\ v = 0 \/ \E k \in 1 .. g : directory[k] = v
    /\ \A k \in 1 .. g : directory[k] <= v

\* from: the read whose load this one is served, its own or the one it joined.
NotReading(r) == [pc |-> "idle", got |-> 0, value |-> 0, fenced |-> FALSE,
                  owed |-> 0, from |-> r]
NotWriting == [pc |-> "idle", version |-> 0, got |-> 0]

Init ==
  /\ source = 0
  /\ directory = <<>>
  /\ entry = [i \in Isolates |-> None]
  /\ baseline = [i \in Isolates |-> 0]
  /\ inWindow = [i \in Isolates |-> FALSE]
  /\ reader = [r \in Readers |-> NotReading(r)]
  /\ writer = [w \in Writers |-> NotWriting]
  /\ told = [i \in Isolates |-> 0]
  /\ written = [i \in Isolates |-> 0]
  /\ faults = MaxFaults

Fault == faults > 0 /\ faults' = faults - 1

---------------------------------------------------------------------------
(* The isolate's cache. *)

\* Faulty: a drop leaves the loads in flight alone.
Unfenced(i, readers) == readers
\* A drop breaks the fence of every load the isolate has in flight.
Fenced(i, readers) ==
  [r \in Readers |->
     IF Home[r] = i /\ readers[r].pc \in {"loading", "loaded"}
     THEN [readers[r] EXCEPT !.fenced = TRUE] ELSE readers[r]]

Drops(i) == entry' = [entry EXCEPT ![i] = None]

Expire(i) ==
  /\ entry[i] # None
  /\ Drops(i)
  /\ UNCHANGED <<source, directory, baseline, inWindow, reader, writer, told,
                 written, faults>>

WindowEnds(i) ==
  /\ inWindow[i]
  /\ inWindow' = [inWindow EXCEPT ![i] = FALSE]
  /\ UNCHANGED <<source, directory, entry, baseline, reader, writer, told,
                 written, faults>>

\* The bookkeeping of a group untouched for long is evicted, its entry is not.
ForgetGroup(i) ==
  /\ baseline[i] # 0
  /\ \A r \in Readers : Home[r] = i => reader[r].pc \notin {"probing", "answered"}
  /\ baseline' = [baseline EXCEPT ![i] = 0]
  /\ inWindow' = [inWindow EXCEPT ![i] = FALSE]
  /\ UNCHANGED <<source, directory, entry, reader, writer, told, written,
                 faults>>

---------------------------------------------------------------------------
(* A read: ensureFresh, then the entry or a load. *)

Get(r) ==
  LET i == Home[r]
  IN /\ reader[r].pc = "idle"
     /\ reader' = [reader EXCEPT ![r] =
          [NotReading(r) EXCEPT
             !.pc   = IF inWindow[i] THEN "reading" ELSE "probing",
             !.owed = Larger(written[i], IF inWindow[i] THEN told[i] ELSE 0)]]
     /\ UNCHANGED <<source, directory, entry, baseline, inWindow, writer, told,
                    written, faults>>

DirectoryAnswers(r) ==
  /\ reader[r].pc = "probing"
  /\ reader' = [reader EXCEPT ![r].pc = "answered", ![r].got = Generation]
  /\ UNCHANGED <<source, directory, entry, baseline, inWindow, writer, told,
                 written, faults>>

Moved(i, got) == got > baseline[i]
\* Faulty: counted up instead.
AddedUp(i, got) == baseline[i] + got
\* Generations only rise; a late answer lowers nothing.
Merged(i, got) == Larger(baseline[i], got)

ApplyProbe(r) ==
  LET i == Home[r]
      got == reader[r].got
      news == Announced(got)
      waiting == [reader EXCEPT ![r].pc = "reading",
                                ![r].owed = Larger(@, news)]
  IN /\ reader[r].pc = "answered"
     /\ IF Moved(i, got)
        THEN Drops(i) /\ reader' = Fenced(i, waiting)
        ELSE reader' = waiting /\ UNCHANGED entry
     /\ baseline' = [baseline EXCEPT ![i] = Merged(i, got)]
     /\ inWindow' = [inWindow EXCEPT ![i] = TRUE]
     /\ told' = [told EXCEPT ![i] = Larger(@, news)]
     /\ UNCHANGED <<source, directory, writer, written, faults>>

\* Faulty: what cannot be asked is served as it is.
FailsOpen(i) == UNCHANGED entry
FailsClosed(i) == Drops(i)

\* The directory cannot be asked: the read is owed what is stored by now.
ProbeFails(r) ==
  LET i == Home[r]
  IN /\ reader[r].pc = "probing" /\ Fault
     /\ FailsClosed(i)
     /\ reader' = Fenced(i, [reader EXCEPT ![r].pc = "reading",
                                           ![r].owed = source])
     /\ UNCHANGED <<source, directory, baseline, inWindow, writer, told,
                    written>>

Hit(r) ==
  /\ reader[r].pc = "reading" /\ entry[Home[r]] # None
  /\ reader' = [reader EXCEPT ![r] = NotReading(r)]
  /\ UNCHANGED <<source, directory, entry, baseline, inWindow, writer, told,
                 written, faults>>

SameInvocation(r, s) ==
  Invocation[r] = Invocation[s] /\ Invocation[r] # NoInvocation

\* The loads the invocation of r has in flight: one at most.
InFlight(r) ==
  {s \in Readers : SameInvocation(r, s) /\ reader[s].pc \in {"loading", "loaded"}}

\* The promise is joined as it is: no fence says since when it has been loading.
Join(r) ==
  /\ reader[r].pc = "reading" /\ entry[Home[r]] = None
  /\ \E s \in InFlight(r) :
       reader' = [reader EXCEPT ![r].pc = "joined", ![r].from = s]
  /\ UNCHANGED <<source, directory, entry, baseline, inWindow, writer, told,
                 written, faults>>

Miss(r) ==
  /\ reader[r].pc = "reading" /\ entry[Home[r]] = None /\ InFlight(r) = {}
  /\ reader' = [reader EXCEPT ![r].pc = "loading"]
  /\ UNCHANGED <<source, directory, entry, baseline, inWindow, writer, told,
                 written, faults>>

Load(r) ==
  /\ reader[r].pc = "loading"
  /\ reader' = [reader EXCEPT ![r].pc = "loaded", ![r].value = source]
  /\ UNCHANGED <<source, directory, entry, baseline, inWindow, writer, told,
                 written, faults>>

\* The read that loaded ends, and with it the reads that joined it.
Ends(r) ==
  reader' = [s \in Readers |->
    IF s = r \/ reader[s].from = r THEN NotReading(s) ELSE reader[s]]

Publish(r) ==
  /\ reader[r].pc = "loaded"
  /\ Ends(r)
  /\ IF reader[r].fenced THEN UNCHANGED entry
     ELSE entry' = [entry EXCEPT ![Home[r]] = reader[r].value]
  /\ UNCHANGED <<source, directory, baseline, inWindow, writer, told, written,
                 faults>>

---------------------------------------------------------------------------
(* A write: it commits, then invalidates. *)

Commit(w) ==
  /\ writer[w].pc = "idle" /\ source < MaxWrites
  /\ source' = source + 1
  /\ writer' = [writer EXCEPT ![w] = [NotWriting EXCEPT !.pc = "committed",
                                                        !.version = source']]
  /\ UNCHANGED <<directory, entry, baseline, inWindow, reader, told, written,
                 faults>>

LocalDrop(w) ==
  /\ writer[w].pc = "committed"
  /\ Drops(Home[w])
  /\ reader' = Fenced(Home[w], reader)
  /\ writer' = [writer EXCEPT ![w].pc = "dropped"]
  /\ UNCHANGED <<source, directory, baseline, inWindow, told, written, faults>>

Bump(w) ==
  /\ writer[w].pc = "dropped"
  /\ directory' = Append(directory, writer[w].version)
  /\ writer' = [writer EXCEPT ![w].pc = "bumped", ![w].got = Len(directory')]
  /\ UNCHANGED <<source, entry, baseline, inWindow, reader, told, written,
                 faults>>

Returned(w) ==
  /\ writer' = [writer EXCEPT ![w] = NotWriting]
  /\ written' = [written EXCEPT ![Home[w]] = Larger(@, writer[w].version)]

\* The isolate's own bump is merged, so that its next probe is not news to it.
MergeOwnBump(w) ==
  /\ writer[w].pc = "bumped"
  /\ baseline' = [baseline EXCEPT ![Home[w]] = Merged(Home[w], writer[w].got)]
  /\ Returned(w)
  /\ UNCHANGED <<source, directory, entry, inWindow, reader, told, faults>>

\* The bump fails, or its answer does; the write stands.
BumpFails(w) ==
  /\ writer[w].pc \in {"dropped", "bumped"} /\ Fault
  /\ Returned(w)
  /\ UNCHANGED <<source, directory, entry, baseline, inWindow, reader, told>>

---------------------------------------------------------------------------

Next ==
  \/ \E i \in Isolates : Expire(i) \/ WindowEnds(i) \/ ForgetGroup(i)
  \/ \E r \in Readers : \/ Get(r) \/ DirectoryAnswers(r) \/ ApplyProbe(r)
                        \/ ProbeFails(r) \/ Hit(r) \/ Join(r) \/ Miss(r)
                        \/ Load(r) \/ Publish(r)
  \/ \E w \in Writers : \/ Commit(w) \/ LocalDrop(w) \/ Bump(w)
                        \/ MergeOwnBump(w) \/ BumpFails(w)

Spec == Init /\ [][Next]_vars

---------------------------------------------------------------------------

TypeOK ==
  /\ source \in Versions
  /\ directory \in Seq(Versions) /\ Generation <= MaxWrites
  /\ entry \in [Isolates -> Versions \cup {None}]
  /\ baseline \in [Isolates -> 0 .. Generation]
  /\ inWindow \in [Isolates -> BOOLEAN]
  /\ reader \in [Readers ->
       [pc : {"idle", "probing", "answered", "reading", "joined", "loading",
              "loaded"},
        got : 0 .. Generation, value : Versions, fenced : BOOLEAN,
        owed : Versions, from : Readers]]
  /\ writer \in [Writers ->
       [pc : {"idle", "committed", "dropped", "bumped"}, version : Versions,
        got : 0 .. Generation]]
  /\ {told, written} \subseteq [Isolates -> Versions]
  /\ faults \in 0 .. MaxFaults

Serves(r) == /\ reader[r].pc \in {"reading", "joined", "loaded"}
             /\ reader'[r].pc = "idle"
Loader(r) == reader[reader[r].from]
Served(r) == IF reader[r].pc = "reading" THEN entry[Home[r]]
             ELSE Loader(r).value

\* A read is served nothing older than it is owed: than the writes its isolate
\* made before it, than what the directory had announced when the window's probe
\* asked it, or, when the directory could not be asked, than what was stored at
\* that moment (ensureFresh, noteLocalInvalidation).  Only a read that joined a
\* load may fall behind, of its own invocation, and then no further than what the
\* read that loads was owed (InvocationScopedLoads.run).
ReadsAreFresh ==
  [][\A r \in Readers : Serves(r) =>
       \/ Served(r) >= reader[r].owed
       \/ SameInvocation(r, reader[r].from) /\ Served(r) >= Loader(r).owed]_vars

\* What the comments say of every read, joined or not: after a failed probe
\* "reads load fresh", after a write the isolate "reads fresh immediately".
NoStaleServe ==
  [][\A r \in Readers : Serves(r) => Served(r) >= reader[r].owed]_vars

\* What an isolate caches is no older than any write its baseline says it has
\* seen: later probes will not drop it (runProbe, mergeGeneration).
BaselineIsHonest ==
  \A i \in Isolates : entry[i] # None => entry[i] >= Announced(baseline[i])
=============================================================================
