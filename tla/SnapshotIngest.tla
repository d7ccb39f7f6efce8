--------------------------- MODULE SnapshotIngest ----------------------------
(***************************************************************************)
(* A run that starts from a snapshot: load_snapshot_distributed, its       *)
(* serial sibling load_snapshot_ic, the re-admission of the source when    *)
(* the run is restarted, and the analysis that opens a snapshot a second   *)
(* time to read it (AnalysisSnapshotReader).  Rank 0 opens the file once,  *)
(* hashes the opened object, reads its header, and compares header, run    *)
(* metadata and configuration; it reads the particles twice in batches,    *)
(* first to count the particles of every rank, then to route them; it      *)
(* hashes the object again and only then do the ranks take the digest for  *)
(* the provenance of the run, test the identities, and make the candidate  *)
(* their particles.  Another program may write the file all this time.     *)
(*                                                                         *)
(* The ranks share one point of control: every part ends in an agreement   *)
(* (CollectiveStage), and between two of them they do not meet.  A digest  *)
(* is the content it was taken of.  What a content is and what it says of  *)
(* the origin of its particles is SnapshotProvenance.                      *)
(*                                                                         *)
(* A definition marked "fault" is a plausible mistake in the definition    *)
(* that follows it; no action uses it.                                     *)
(***************************************************************************)
EXTENDS SnapshotProvenance, FiniteSetsExt

CONSTANTS NumRanks,
          Width,        \* slabs per rank; a particle lies in slab x
          Loads,        \* what is asked, of which file, see below
          Contents,     \* what another program may write
          MaxWrites     \* how often it does; see Meddle

Ranks == 0 .. NumRanks - 1
Objects == {1, 2}

(* kind: "distributed", "serial" or "readmit", or "analysis", which has no *)
(* configuration; file: the content of object 1, to which the path leads;  *)
(* other: that of object 2; expected: the digest the operator gave; batch: *)
(* particles read at once; physics, epoch, side and mass: what the         *)
(* configuration says; kept: the digest in the checkpoint, when the run is *)
(* restarted from one.                                                     *)
SnapshotIngestAssumption ==
    /\ NumRanks \in Nat \ {0} /\ Width \in Nat \ {0} /\ MaxWrites \in {0, 1}
    /\ \A l \in Loads : /\ l.kind \in {"distributed", "serial", "readmit",
                                         "analysis"}
                        /\ l.batch \in Nat \ {0} /\ l.side \in Nat \ {0}
                        /\ l.kept = None <=> l.kind # "readmit"
                        /\ DOMAIN l.file = DOMAIN l.other

VARIABLES load,       \* the call
          path,       \* the object the file's name leads to
          content,    \* content[o]: what object o holds now
          writes,     \* how often another program wrote
          at,         \* the part of the call all ranks are in
          source,     \* the object rank 0 opened, and its digest
          descriptor, \* what the header said
          census,     \* census[r]: the particles counted for rank r
          begin,      \* the first row of the next batch
          batch,      \* the rows rank 0 has read
          total,      \* observed_explicit_mass
          candidate,  \* candidate[r]: the rows rank r has received
          verified,   \* verified[r]: the provenance in r's configuration
          particles   \* particles[r]: the caller's store

file == <<path, content, writes>>
vars == <<load, file, at, source, descriptor, census, begin, batch, total,
          candidate, verified, particles>>

Init == /\ load \in Loads
        /\ path = 1
        /\ content = [o \in Objects |-> IF o = 1 THEN load.file ELSE load.other]
        /\ writes = 0
        /\ at = "admission"
        /\ source = None
        /\ descriptor = None
        /\ census = [r \in Ranks |-> 0]
        /\ begin = 0
        /\ batch = <<>>
        /\ total = 0
        /\ candidate = [r \in Ranks |-> <<>>]
        /\ verified = [r \in Ranks |-> [sha256 |-> None, text |-> None]]
        /\ particles = [r \in Ranks |-> None]

Ended == {"returned", "threw"}
GoTo(part) == at' = part

-----------------------------------------------------------------------------
(* Another program writes into an object, in place, or gives the name to   *)
(* another one.  A digest cannot see a content that is changed and changed *)
(* back before the next digest, so MaxWrites is one.                       *)

Overwrite(o, c) == /\ writes < MaxWrites
                   /\ content' = [content EXCEPT ![o] = c]
                   /\ UNCHANGED path

Rename == /\ writes < MaxWrites
          /\ path' = 2
          /\ UNCHANGED content

Meddle == /\ at \notin Ended
          /\ Rename \/ \E o \in Objects, c \in Contents : Overwrite(o, c)
          /\ writes' = writes + 1
          /\ UNCHANGED <<load, at, source, descriptor, census, begin, batch,
                         total, candidate, verified, particles>>

-----------------------------------------------------------------------------
(* Rank 0 and the file.                                                    *)

(* What it reads it reads from the object it opened, whatever the name     *)
(* leads to by now.                                                        *)
Seen == content[source.object]

SameName == path = source.object                                 \* fault

(* verify_unchanged                                                        *)
Unchanged == Seen = source.sha256

(* VerifiedSnapshotSource: the digest, and the operator's idea of it.      *)
Open == /\ at = "admission" /\ source = None
        /\ load.expected \in {None, content[path]}
        /\ source' = [object |-> path, sha256 |-> content[path]]
        /\ UNCHANGED <<load, file, at, descriptor, census, begin, batch, total,
                       candidate, verified, particles>>

(* read_snapshot_descriptor, which hashes the object again.                *)
Described == {c \in {Seen} : ReadsAsDescriptor(c)}

Describe == /\ at = "admission" /\ source # None /\ descriptor = None
            /\ descriptor' \in Described
            /\ UNCHANGED <<load, file, at, source, census, begin, batch, total,
                           candidate, verified, particles>>

ByTableOnly(d) == d.table = load.mass                            \* fault

(* A mass in the header must be the configured one; a list is checked by   *)
(* its total.                                                              *)
MassMatches(d) == d.table > 0 => d.table = load.mass

(* require_snapshot_initial_condition_match                                *)
Matches(d) == /\ HasOrigin(d)
              /\ d.count = Cube(load.side) /\ d.side = load.side
              /\ d.physics = load.physics
              /\ d.epoch = load.epoch
              /\ MassMatches(d)

Admit == /\ at = "admission" /\ descriptor # None
         /\ Unchanged
         /\ load.kind # "analysis" => Matches(descriptor)
         /\ GoTo(CASE load.kind = "analysis" -> "reopen"
                   [] load.kind = "distributed" -> "census"
                   [] load.kind = "serial" -> "read"
                   [] load.kind = "readmit" -> "publication")
         /\ UNCHANGED <<load, file, source, descriptor, census, begin, batch,
                        total, candidate, verified, particles>>

(* AnalysisSnapshotReader opens the name again; only the content that was  *)
(* described may be there.                                                 *)
Reopen == /\ at = "reopen"
          /\ content[path] = source.sha256
          /\ source' = [object |-> path, sha256 |-> content[path]]
          /\ GoTo("read")
          /\ UNCHANGED <<load, file, descriptor, census, begin, batch, total,
                         candidate, verified, particles>>

(* require_unique_ids_bounded: a bitmap when the identities are below      *)
(* their number, otherwise by sorting them.                                *)
Unique(ids) ==
    IF \A i \in DOMAIN ids : ids[i] < Len(ids)
      THEN \A id \in 0 .. Len(ids) - 1 :
               Cardinality({i \in DOMAIN ids : ids[i] = id}) <= 1
      ELSE LET sorted == SortSeq(ids, <)
           IN  \A i \in 1 .. Len(ids) - 1 : sorted[i] # sorted[i + 1]

(* read_exact_initial_condition_range, and read_snapshot for all of them:  *)
(* the shape of the datasets, identities that differ, masses where the     *)
(* header has none, coordinates in the box.                                *)
Rows(first, count) ==
    SubSeq(Seen.rows, first + 1, Min({first + count, Len(Seen.rows)}))

Refused(rows) ==
    \/ Len(Seen.rows) # Cube(descriptor.side)
    \/ ~ Unique([i \in DOMAIN rows |-> rows[i].id])
    \/ \E i \in DOMAIN rows : \/ rows[i].x \notin 0 .. Width * NumRanks - 1
                              \/ descriptor.table = 0 /\ rows[i].mass <= 0

BatchSize == Min({load.batch, Cube(load.side) - begin})

(* owner_rank                                                              *)
Owner(row) == row.x \div Width
Owned(r, rows) == SelectSeq(rows, LAMBDA row : Owner(row) = r)

MassOf(rows) == FoldLeft(LAMBDA sum, row : sum + row.mass, 0, rows)

-----------------------------------------------------------------------------
(* The distributed load.                                                   *)

Count == /\ at = "census" /\ begin < Cube(load.side)
         /\ LET rows == Rows(begin, BatchSize)
            IN  /\ ~ Refused(rows)
                /\ census' = [r \in Ranks |-> census[r] + Len(Owned(r, rows))]
         /\ begin' = begin + BatchSize
         /\ UNCHANGED <<load, file, at, source, descriptor, batch, total,
                        candidate, verified, particles>>

(* The broadcast: every rank learns how much it must make room for.        *)
Counted == /\ at = "census" /\ begin = Cube(load.side)
           /\ begin' = 0
           /\ GoTo("read")
           /\ UNCHANGED <<load, file, source, descriptor, census, batch, total,
                          candidate, verified, particles>>

Read == /\ at = "read" /\ load.kind = "distributed"
        /\ begin < Cube(load.side)
        /\ batch' = Rows(begin, BatchSize)
        /\ ~ Refused(batch')
        /\ total' = total + MassOf(batch')
        /\ GoTo("routing")
        /\ UNCHANGED <<load, file, source, descriptor, census, begin,
                       candidate, verified, particles>>

(* partition_domain of the batch (DomainPartition), and the copy into the  *)
(* room the census made.                                                   *)
InOrder(rows) == SortSeq(rows, LAMBDA a, b : a.id < b.id)

Route == /\ at = "routing"
         /\ candidate' = [r \in Ranks |->
                             candidate[r] \o InOrder(Owned(r, batch))]
         /\ \A r \in Ranks : Len(candidate'[r]) <= census[r]
         /\ begin' = begin + Len(batch)
         /\ batch' = <<>>
         /\ GoTo("read")
         /\ UNCHANGED <<load, file, source, descriptor, census, total, verified,
                        particles>>

Assembled == /\ at = "read" /\ load.kind = "distributed"
             /\ begin = Cube(load.side)
             /\ \A r \in Ranks : Len(candidate[r]) = census[r]
             /\ GoTo("completion")
             /\ UNCHANGED <<load, file, source, descriptor, census, begin,
                            batch, total, candidate, verified, particles>>

TotalMatches == descriptor.table = 0 /\ load.kind # "analysis" =>
                    total = Cube(load.side) * load.mass

Complete == /\ at = "completion"
            /\ TotalMatches
            /\ Unchanged
            /\ GoTo("publication")
            /\ UNCHANGED <<load, file, source, descriptor, census, begin,
                           batch, total, candidate, verified, particles>>

(* set_verified_snapshot_ic_provenance: a configuration that says          *)
(* something else keeps it and refuses.                                    *)
Agrees(r) == /\ verified[r].sha256 \in {None, source.sha256}
             /\ verified[r].text \in {None, descriptor.text}

(* Every rank takes the digest and the run metadata rank 0 sent into its   *)
(* configuration; when a rank cannot, the call fails everywhere and the    *)
(* others have them.                                                       *)
Take(those) ==
    /\ those \subseteq {r \in Ranks : Agrees(r)}
    /\ verified' = [r \in Ranks |->
           IF r \in those THEN [sha256 |-> source.sha256, text |-> descriptor.text]
                          ELSE verified[r]]

Publish(those) ==
    /\ at = "publication" /\ load.kind = "distributed"
    /\ Take(those)
    /\ GoTo(IF those = Ranks THEN "identities" ELSE "threw")
    /\ UNCHANGED <<load, file, source, descriptor, census, begin, batch, total,
                   candidate, particles>>

(* admit_snapshot_provenance: a restart needs the source only for what it  *)
(* says of its origin.                                                     *)
Readmit(those) ==
    /\ at = "publication" /\ load.kind = "readmit"
    /\ Take(those)
    /\ GoTo(IF those = Ranks THEN "restore" ELSE "threw")
    /\ UNCHANGED <<load, file, source, descriptor, census, begin, batch, total,
                   candidate, particles>>

(* Then the checkpoint is read (RestartCheckpoint); its digest must be     *)
(* that of the configuration, which is also part of the dynamics identity. *)
Restore ==
    /\ at = "restore"
    /\ \A r \in Ranks : verified[r].sha256 = load.kept
    /\ GoTo("returned")
    /\ UNCHANGED <<load, file, source, descriptor, census, begin, batch, total,
                   candidate, verified, particles>>

(* The population, require_globally_unique_particle_ids (IdBuckets) and    *)
(* the partition the run keeps; then the candidate is moved.               *)
Everything == FlattenSeq([n \in 1 .. NumRanks |-> candidate[n - 1]])

GloballyUnique == IsInjective([i \in DOMAIN Everything |-> Everything[i].id])

Keep == /\ at = "identities"
        /\ Len(Everything) = Cube(load.side)
        /\ GloballyUnique
        /\ particles' = [r \in Ranks |-> InOrder(candidate[r])]
        /\ GoTo("returned")
        /\ UNCHANGED <<load, file, source, descriptor, census, begin, batch,
                       total, candidate, verified>>

-----------------------------------------------------------------------------
(* The serial load: the whole file at once, the digest again, the epoch,   *)
(* the number and the masses; the file's order is kept.                    *)

Whole == Seen.rows

ReadAll == /\ at = "read" /\ load.kind \in {"serial", "analysis"}
           /\ batch' = Whole
           /\ ~ Refused(batch')
           /\ Seen \in Described
           /\ total' = MassOf(batch')
           /\ GoTo("completion")
           /\ UNCHANGED <<load, file, source, descriptor, census, begin,
                          candidate, verified, particles>>

(* read_complete: the epoch is the header's.                               *)
KeepForAnalysis == /\ at = "publication" /\ load.kind = "analysis"
                   /\ particles' = [r \in Ranks |-> Owned(r, batch)]
                   /\ GoTo("returned")
                   /\ UNCHANGED <<load, file, source, descriptor, census, begin,
                                  batch, total, candidate, verified>>

KeepSerial == /\ at = "publication" /\ load.kind = "serial"
              /\ Take(Ranks)
              /\ particles' = [r \in Ranks |-> Owned(r, batch)]
              /\ GoTo("returned")
              /\ UNCHANGED <<load, file, source, descriptor, census, begin,
                             batch, total, candidate>>

-----------------------------------------------------------------------------
(* Any part may fail: the file is not what it should be, a read, an        *)
(* allocation.                                                             *)
Fail == /\ at \notin Ended
        /\ GoTo("threw")
        /\ UNCHANGED <<load, file, source, descriptor, census, begin, batch,
                       total, candidate, verified, particles>>

Next == \/ Open \/ Describe \/ Admit
        \/ Count \/ Counted \/ Read \/ Route \/ Assembled \/ Complete
        \/ \E those \in SUBSET Ranks : Publish(those) \/ Readmit(those)
        \/ Restore \/ Keep \/ ReadAll \/ KeepSerial \/ Reopen \/ KeepForAnalysis
        \/ Fail \/ Meddle

Spec == Init /\ [][Next]_vars

-----------------------------------------------------------------------------
(* Whatever another program does to the file meanwhile: the particles of a *)
(* run, or of an analysis, are the rows of one content, the one that was   *)
(* described, whose digest the run records and the operator expected; for  *)
(* a run that content is the configured one; it has N^3 different          *)
(* particles in the box, with their right mass.  Nothing is recorded that  *)
(* was not hashed twice, a restarted run has the source of its checkpoint, *)
(* and a call that throws leaves the caller's particles alone.  And the    *)
(* snapshots the run will write, of whatever becomes of its N^3 particles, *)
(* can start a run again: they read as described, and tell of the same     *)
(* origin.                                                                 *)
Sound(c) == /\ ReadsAsDescriptor(c)
            /\ Len(c.rows) = Cube(c.side)
            /\ IsInjective([i \in DOMAIN c.rows |-> c.rows[i].id])
            /\ load.kind # "analysis" =>
                 /\ Matches(c)
                 /\ c.table = 0 => MassOf(c.rows) = Cube(load.side) * load.mass
            /\ \A i \in DOMAIN c.rows : c.rows[i].x \in 0 .. Width * NumRanks - 1

Held(c, r) == IF load.kind = "distributed" THEN InOrder(Owned(r, c.rows))
                                           ELSE Owned(r, c.rows)

WrittenNext(r) ==
    Snapshot(Inherited(load.physics, load.side,
                       verified[r].sha256, verified[r].text),
             "later", source.sha256.table,
             [i \in 1 .. Cube(load.side) |-> None])

ProvenanceSurvives(r) == /\ ReadsAsDescriptor(WrittenNext(r))
                         /\ HasOrigin(WrittenNext(r))
                         /\ Upstream(WrittenNext(r).text) = Upstream(verified[r].text)

RecordIsSound(r) ==
    LET c == verified[r].sha256
    IN  /\ load.expected \in {None, c}
        /\ ReadsAsDescriptor(c) /\ Matches(c)
        /\ verified[r].text = c.text

IngestedIsSound ==
    /\ \A r \in Ranks : verified[r].text # None => RecordIsSound(r)
    /\ at = "returned" =>
           /\ descriptor = source.sha256
           /\ load.kept \in {None, source.sha256}
           /\ load.kind # "analysis" =>
                  \A r \in Ranks : /\ verified[r].sha256 = source.sha256
                                   /\ verified[r].text # None
                                   /\ ProvenanceSurvives(r)
    /\ at = "returned" /\ load.kind # "readmit" =>
           /\ Sound(source.sha256)
           /\ \A r \in Ranks : particles[r] = Held(source.sha256, r)
    /\ at # "returned" => \A r \in Ranks : particles[r] = None
=============================================================================
