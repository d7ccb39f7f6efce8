------------------------ MODULE MCDistributedSnapshot ------------------------
(***************************************************************************)
(* What surrounds a snapshot: writing it (DistributedSnapshot), starting a *)
(* run from one (SnapshotIngest), and the test of the particle identities  *)
(* both use or rely on (IdBuckets).  A behaviour runs one of the machines. *)
(***************************************************************************)
EXTENDS DistributedSnapshot, TLC

CONSTANT None

VARIABLES machine,
          test, place, channel, bucket, received, before, reply,
          load, path, content, writes, at, source, descriptor, census, begin,
          batch, total, candidate, verified, particles

Ask(size) == [what |-> "snapshot 1", batch |-> size]
OtherAsk == [what |-> "snapshot 2", batch |-> 2]
ByRank(a, b, c) == 0 :> a @@ 1 :> b @@ 2 :> c

World(ids, size, mass, configured) ==
    [ids |-> ids, asked |-> [r \in Ranks |-> Ask(size)],
     mass |-> mass, configured |-> configured]

Equal == ByRank("one", "one", "one")

(* Two senders, one of them with two batches; an empty rank with another   *)
(* idea of the mass; explicit masses; one identity at two ranks, at the    *)
(* end of lists of different lengths; a list out of order; masses or       *)
(* requests that disagree; a particle too few.                             *)
MCWorlds ==
    { World(ByRank(<<2>>, <<1, 4, 5>>, <<3>>), 2, Equal, 5),
      World(ByRank(<<2, 3>>, <<>>, <<1, 4>>), 3, ByRank("one", "two", "one"), 4),
      World(ByRank(<<>>, <<1>>, <<2>>), 1,
            ByRank("one", "explicit", "explicit"), 2),
      World(ByRank(<<5>>, <<1, 4, 5>>, <<3, 7>>), 2, Equal, 6),
      World(ByRank(<<6, 9>>, <<1, 2, 3>>, <<2, 4, 7>>), 2, Equal, 8),
      World(ByRank(<<2>>, <<3, 1>>, <<4>>), 2, Equal, 4),
      World(ByRank(<<1>>, <<2>>, <<3>>), 2, ByRank("one", "one", "two"), 3),
      World(ByRank(<<1>>, <<2>>, <<3>>), 2, Equal, 4),
      [World(ByRank(<<1>>, <<2>>, <<3>>), 2, Equal, 3)
         EXCEPT !.asked[1] = OtherAsk] }

-----------------------------------------------------------------------------
(* Identities before and after, and a hash: the same set, moved; one lost  *)
(* and another one made of it; one at two ranks before, or only after,     *)
(* once while the number stays right; one rank that has them all; none.    *)
Test(first, second, hash) == [owned |-> <<first, second>>, hash |-> hash]

Spread == [id \in 0 .. 7 |-> id % NumRanks]
OneHeap == [id \in 0 .. 7 |-> 1]

MCTests ==
    { Test(ByRank(<<4, 1>>, <<2>>, <<7, 3>>), ByRank(<<>>, <<1, 2, 3, 4, 7>>, <<>>),
           Spread),
      Test(ByRank(<<4, 1>>, <<2>>, <<7>>), ByRank(<<2, 7>>, <<4>>, <<1>>), OneHeap),
      Test(ByRank(<<4, 1>>, <<2>>, <<7>>), ByRank(<<4>>, <<2, 5>>, <<7>>), Spread),
      Test(ByRank(<<4>>, <<2, 4>>, <<>>), ByRank(<<4>>, <<2>>, <<>>), Spread),
      Test(ByRank(<<4, 1>>, <<2>>, <<7>>), ByRank(<<4, 1>>, <<4>>, <<7>>), OneHeap),
      Test(ByRank(<<>>, <<>>, <<>>), ByRank(<<>>, <<>>, <<>>), Spread) }

B == INSTANCE IdBuckets WITH Tests <- MCTests

ASSUME BucketAssumption == B!IdBucketsAssumption

-----------------------------------------------------------------------------
(* Contents of a file, as a run writes them: 27 particles with a common    *)
(* mass, or with a list of masses; by a run that generated them, with the  *)
(* support left open or asked for, and by a run that began with a snapshot *)
(* of such a run.                                                          *)
P == INSTANCE SnapshotProvenance

Row(id, x, mass) == [id |-> id, x |-> x, mass |-> mass]
TheRows(mass) == [i \in 1 .. 27 |-> Row((4 * i) % 27, (5 * i) % 6, mass)]

Origin == [order |-> 2, mesh |-> 0, requested |-> None,
           fidelity |-> P!Precise, spectrum |-> "boltzmann"]
SnapshotOf(meta) == P!Snapshot(meta, "start", 2, TheRows(2))
WrittenBy(ic) == SnapshotOf(P!Generated(ic, "flat", 3))

Good == WrittenBy(Origin)
Listed == [Good EXCEPT !.table = 0]
Windowed == WrittenBy([Origin EXCEPT !.requested = 1])
Heir == SnapshotOf(P!Inherited("flat", 3, Good, Good.text))

(* Whatever a configuration may ask for, its snapshots can be read, and    *)
(* those of the runs that begin with them; and a run can begin with them   *)
(* if the power spectrum had a digest.                                     *)
ICs == [order : {1, 2}, mesh : {0} \union 1 .. 12, requested : {None} \union 1 .. 3,
        fidelity : {P!Precise}, spectrum : {None, "boltzmann"}]

ASSUME GenerationsReadBack ==
    \A n \in 1 .. 6 : \A ic \in ICs :
        P!IsGeneration(ic, n) =>
            LET rows == [i \in 1 .. P!Cube(n) |-> Row(i, 0, 2)]
                first == P!Snapshot(P!Generated(ic, "flat", n), "start", 2, rows)
                second == P!Snapshot(P!Inherited("flat", n, first, first.text),
                                     "later", 2, rows)
            IN  \A c \in {first, second} :
                    /\ P!ReadsAsDescriptor(c)
                    /\ P!HasOrigin(c) <=> ic.spectrum # None

(* The field of the run metadata with another value, left out, or twice.   *)
Retold(c, key, value) ==
    [c EXCEPT !.text = [i \in DOMAIN @ |-> IF @[i][1] = key THEN <<key, value>>
                                                           ELSE @[i]]]
Untold(c, key) == [c EXCEPT !.text = SelectSeq(@, LAMBDA f : f[1] # key)]
TwiceTold(c, key, value) == [c EXCEPT !.text = Append(@, <<key, value>>)]

(* Then what is wrong with others: the particles, the header, and what     *)
(* they say of their origin.  The two other calls read them the same way.  *)
Empty == [Good EXCEPT !.rows = <<>>, !.text = <<>>]

Sound == {Good, Listed, Windowed, Heir}

Unsound ==
    { [Good EXCEPT !.rows[8] = Row(1, 0, 2)],
      [Good EXCEPT !.rows[2] = Row(16, 0, 2)],
      [Good EXCEPT !.rows[5].x = 6],
      [Listed EXCEPT !.rows[4].mass = 3],
      [Good EXCEPT !.table = 3],
      [Good EXCEPT !.rows = SubSeq(@, 1, 26)],
      Empty,
      [Good EXCEPT !.count = 26],
      [Good EXCEPT !.native = FALSE],
      [Good EXCEPT !.epoch = "later"],
      [Good EXCEPT !.generator.order = 1],
      [Windowed EXCEPT !.support = None],
      SnapshotOf(P!Generated(Origin, "curved", 3)),
      SnapshotOf(P!Unverified("flat", 3, Good)),
      WrittenBy([Origin EXCEPT !.spectrum = None]),
      WrittenBy([Origin EXCEPT !.mesh = 3]),
      Retold(Good, "physics", "curved"),
      Retold(Good, "lineage", "derived_analysis"),
      Retold(Good, "ic_effective_max_mode_per_axis", 2),
      Retold(Good, "ic_provenance_status", "inherited"),
      Retold(Heir, "ic_generation_parameters_applied", TRUE),
      Retold(Heir, "ic_provenance_status", "bytes_verified"),
      Untold(Good, "ic_mode"),
      TwiceTold(Good, "power_spectrum_sha256", "other") }

Load(kind, expected, first) ==
    [kind |-> kind, file |-> first, other |-> Listed, expected |-> expected,
     kept |-> IF kind = "readmit" THEN Good ELSE None, batch |-> 9,
     physics |-> "flat", epoch |-> "start", side |-> 3, mass |-> 2]

Kinds == {"distributed", "serial", "readmit", "analysis"}

(* What is asked where the machine does not run.                           *)
Idle == [Load("analysis", None, Empty) EXCEPT !.other = Empty]

MCLoads ==
    {Idle} \union
    { Load(kind, None, first) : kind \in Kinds, first \in Sound } \union
    { Load(kind, None, first) : kind \in {"distributed", "analysis"},
                                first \in Unsound } \union
    { Load(kind, Good, first) : kind \in Kinds, first \in {Good, Listed} }

(* What the other program writes: other sound files, the same particles    *)
(* with one of them elsewhere, one identity twice.                         *)
Rewritten == {Listed, Heir, [Good EXCEPT !.rows[1].x = 2],
              [Good EXCEPT !.rows[8] = Row(1, 0, 2)]}

S == INSTANCE SnapshotIngest WITH
        Width <- 2, Loads <- MCLoads, Contents <- Rewritten, MaxWrites <- 1

ASSUME IngestAssumption == S!SnapshotIngestAssumption

-----------------------------------------------------------------------------
(* One machine runs; the others stay where they begin.                     *)
theBuckets == <<test, place, channel, bucket, received, before, reply>>
theIngest == <<load, path, content, writes, at, source, descriptor, census,
               begin, batch, total, candidate, verified, particles>>

MCInit == /\ machine \in {"write", "compare", "ingest"}
          /\ SnapshotInit /\ B!Init /\ S!Init
          /\ machine # "write" => /\ canonical = "absent"
                                   /\ world = CHOOSE w \in Worlds : TRUE
          /\ machine # "compare" => test = CHOOSE t \in MCTests : TRUE
          /\ machine # "ingest" => load = Idle

InWrite(step) == machine = "write" /\ step
                 /\ UNCHANGED <<machine, theBuckets, theIngest>>
InCompare(step) == machine = "compare" /\ step
                   /\ UNCHANGED <<machine, snapshot, theIngest>>
InIngest(step) == machine = "ingest" /\ step
                  /\ UNCHANGED <<machine, snapshot, theBuckets>>

AllDone == /\ machine # "write"
           /\ machine = "compare" => B!Answered
           /\ machine = "ingest" => at \in S!Ended
           /\ UNCHANGED <<machine, snapshot, theBuckets, theIngest>>

MCNext == \/ InWrite(SnapshotNext) \/ InCompare(B!Next) \/ InIngest(S!Next)
          \/ AllDone

mcvars == <<machine, snapshot, theBuckets, theIngest>>

(* A transport that buffers nothing and ranks that run (see FairSpec).     *)
MCSpec == /\ MCInit /\ [][MCNext]_mcvars
          /\ \A r \in Ranks : /\ WF_mcvars(InWrite(RankStep(r)))
                              /\ WF_mcvars(InWrite(Match(r)))
          /\ WF_mcvars(InWrite(RootStep))

-----------------------------------------------------------------------------
(* What a run begins with is one sound file, the one it says it is; and    *)
(* the hashed buckets, by which identities are compared before and after,  *)
(* tell the truth about them (VerdictIsExact).                             *)
IngestedIsSound == S!IngestedIsSound /\ B!VerdictIsExact

(* Every rank leaves the call that writes a snapshot.                      *)
EveryWriterLeaves == machine = "write" ~> \A r \in Ranks : phase[r] \in Ended
=============================================================================
