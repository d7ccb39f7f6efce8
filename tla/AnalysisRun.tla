---------------------------- MODULE AnalysisRun ------------------------------
(***************************************************************************)
(* One call of hyowon_analyze: the request is parsed, a private directory  *)
(* is staged, the stages of run_pipeline write their products into it, and *)
(* the directory is published as a whole or discarded.  The loops over     *)
(* candidates run on several threads (parallel_for_indices); the           *)
(* membership catalogue is four tables filled row by row while other files *)
(* are open.                                                               *)
(*                                                                         *)
(* What an estimator computes is abstracted to what it was computed from.  *)
(* A snapshot comes with its candidates, their hosts and the apertures     *)
(* around them (HaloFinding shows how these are found); reading one is a   *)
(* step (SnapshotIngest), and so is publishing (DurablePublication).       *)
(***************************************************************************)
EXTENDS MembershipTable, Functions, FiniteSets, SequencesExt, TLC

CONSTANTS Calls,       \* what is asked, and of which snapshots
          Threads,     \* how many the host has
          ShapeRoom,   \* halo_result_batch_capacity
          MaxFaults,   \* how many operations fail in a run
          None

AnalysisRunAssumption == Threads \in Nat \ {0} /\ ShapeRoom \in Nat \ {0}

VARIABLES job,        \* the call
          at,         \* the part of the program
          directory,  \* of the output directory: none, staged, visible, gone
          products,   \* the files published in it
          loop,       \* a parallel loop
          results,    \* what its workers have written
          have,       \* properties and halos of the stages before
          cursor,     \* a host, a seed, or where a batch begins
          draft,      \* the rows of the files that are open
          tables,     \* the membership catalogue
          faults      \* how many operations have failed

vars == <<job, at, directory, products, loop, results, have, cursor, draft,
          tables, faults>>

Definitions == <<"M200m", "M200c", "Mvir_BN98">>
NoLoop == [count |-> 0, next |-> 1, running |-> {}, failed |-> FALSE,
           exception |-> FALSE]
NewTables == [t \in {"basins"} \union Range(Definitions) |->
                 NewTable(t = "basins")]
NoDraft == [peaks |-> <<>>, hosts |-> <<>>, derived |-> <<>>, shapes |-> <<>>]

Init == /\ job \in Calls
        /\ at = "parse"
        /\ directory = "none"
        /\ products = <<>>
        /\ loop = NoLoop
        /\ results = <<>>
        /\ have = [properties |-> <<>>, later |-> <<>>]
        /\ cursor = 1
        /\ draft = NoDraft
        /\ tables = NewTables
        /\ faults = 0

Ended == {"returned", "threw"}
Asked(option) == option \in Range(job.arguments)

-----------------------------------------------------------------------------
(* The request.  An option that takes values is one argument here, and so  *)
(* are the options an estimator cannot do without.                         *)

(* parse_analysis_request: what is known, and nothing twice.               *)
KnownOptions ==
    {"field", "interlaced", "subtract", "skip", "fof", "so", "deblend", "hmf",
     "hmf bins", "xi", "xi bins", "bispectrum", "bispectrum bins", "shapes",
     "shape options", "tidal", "tidal options", "cross", "cross mesh", "phase",
     "earlier"}

Parsed == Range(job.arguments) \subseteq KnownOptions /\ IsInjective(job.arguments)

(* validate: a product comes with all its options and no option without    *)
(* its product; what needs candidates cannot go with --skip-halos.         *)
Together(option, other) == Asked(option) <=> Asked(other)

ValidField == Asked("field") /\ ~ (Asked("interlaced") /\ Asked("subtract"))

ValidHalos == /\ Together("so", "deblend")
              /\ IF Asked("skip")
                   THEN \A option \in {"fof", "so", "hmf", "xi", "shapes",
                                       "earlier"} : ~ Asked(option)
                   ELSE Asked("fof")

ValidProducts == /\ Together("hmf", "hmf bins")
                 /\ Together("xi", "xi bins")
                 /\ Together("bispectrum", "bispectrum bins")
                 /\ (Asked("shapes") \/ Asked("so")) <=> Asked("shape options")
                 /\ Together("tidal", "tidal options")
                 /\ Together("cross", "cross mesh")
                 /\ Asked("phase") => Asked("cross")

Accepted == Parsed /\ ValidField /\ ValidHalos /\ ValidProducts

-----------------------------------------------------------------------------
(* Snapshots.  A candidate lists its particles by their places in the      *)
(* store, in the order of their identities.                                *)

Groups == job.main.groups

(* require_field_comparison_match, require_pair_link_match                 *)
FieldsCompare == job.cross.volume = job.main.volume

PairsLink == /\ \A field \in {"volume", "physics", "side"} :
                    job.earlier[field] = job.main[field]
             /\ job.earlier.epoch < job.main.epoch

Identities(snapshot, places) == [i \in DOMAIN places |-> snapshot.ids[places[i]]]

(* Where a product says it comes from.                                     *)
Of(snapshot) == [object |-> snapshot.object, epoch |-> snapshot.epoch]

(* HaloDerivedPropertyAnalyzer::compute                                    *)
Property(snapshot, i) ==
    LET places == snapshot.groups[i].members
    IN  [id |-> i, count |-> Len(places),
         mass |-> FoldLeft(LAMBDA sum, p : sum + snapshot.mass[p], 0, places)]

-----------------------------------------------------------------------------
(* Steps.                                                                  *)

Stay(these) == UNCHANGED these
GoTo(part) == at' = part
Abandon == GoTo("abandon")

(* A file is published under a name that must be free.                     *)
Write(name, content) == /\ name \notin DOMAIN products
                        /\ products' = name :> content @@ products

(* An optional product of the field stage.                                 *)
Optional(part, option, name, content, next) ==
    /\ at = part
    /\ IF Asked(option) THEN Write(name, content) ELSE UNCHANGED products
    /\ GoTo(next)
    /\ Stay(<<job, directory, loop, results, have, cursor, draft, tables,
              faults>>)

Parse == /\ at = "parse"
         /\ GoTo(IF Accepted THEN "open" ELSE "threw")
         /\ Stay(<<job, directory, products, loop, results, have, cursor, draft,
                   tables, faults>>)

OpenDirectory ==
    /\ at = "open"
    /\ directory' = "staged"
    /\ GoTo("descriptors")
    /\ Stay(<<job, products, loop, results, have, cursor, draft, tables, faults>>)

(* Both headers, the reach of the correlation function, the particles.     *)
Admissible == /\ Asked("cross") => FieldsCompare
              /\ Asked("xi") => 2 * job.reach <= job.main.volume

Describe ==
    /\ at = "descriptors"
    /\ IF Admissible THEN GoTo("power") ELSE Abandon
    /\ Stay(<<job, directory, products, loop, results, have, cursor, draft,
              tables, faults>>)

-----------------------------------------------------------------------------
(* The field stage.                                                        *)

SpectrumProduct == Of(job.main)
PowerSpectrum ==
    Optional("power", "field", "pk", SpectrumProduct, "cross")

CrossProduct == [reference |-> Of(job.cross), candidate |-> Of(job.main)]

(* The mesh must hold the wave numbers of the first field; phase space is  *)
(* compared at one epoch and between equal lattices.                       *)
PhaseSpaceCompares == /\ job.cross.epoch = job.main.epoch
                      /\ job.cross.side = job.main.side

PhaseSpace ==
    /\ at = "cross" /\ Asked("cross")
    /\ IF ~ job.meshHolds \/ (Asked("phase") /\ ~ PhaseSpaceCompares)
         THEN Abandon /\ UNCHANGED products
         ELSE /\ GoTo("field cross")
              /\ IF Asked("phase") THEN Write("phase space", CrossProduct)
                                   ELSE UNCHANGED products
    /\ Stay(<<job, directory, loop, results, have, cursor, draft, tables, faults>>)

NoCross == /\ at = "cross" /\ ~ Asked("cross")
           /\ GoTo("tidal web")
           /\ Stay(<<job, directory, products, loop, results, have, cursor,
                     draft, tables, faults>>)

FieldCross ==
    Optional("field cross", "cross", "field cross", CrossProduct, "tidal web")
TidalWeb ==
    Optional("tidal web", "tidal", "tidal web", Of(job.main), "bispectrum")
TriangleProduct == Of(job.main)
Bispectrum ==
    Optional("bispectrum", "bispectrum", "bispectrum", TriangleProduct, "halos")

-----------------------------------------------------------------------------
(* parallel_for_indices.  The threads take the indices in order; one that  *)
(* sees the flag passes over its index, but the flag is read without       *)
(* ordering and may be seen late.  The first exception is kept and thrown  *)
(* when all threads are through.                                           *)

Begin(part, count) == /\ GoTo(part)
                      /\ loop' = [NoLoop EXCEPT !.count = count]
                      /\ results' = [i \in 1 .. count |-> None]

InLoop == {"properties", "shapes", "later", "progenitors", "earlier"}

Claim == /\ at \in InLoop /\ loop.next <= loop.count
         /\ Cardinality(loop.running) < Threads
         /\ \/ loop' = [loop EXCEPT !.next = @ + 1, !.running = @ \union {loop.next}]
            \/ loop.failed /\ loop' = [loop EXCEPT !.next = @ + 1]
         /\ Stay(<<job, at, directory, products, results, have, cursor, draft,
                   tables, faults>>)

(* materialize_pair_link_halos: a candidate with its property.             *)
Aligned(snapshot, i) ==
    /\ have.properties[i] # None
    /\ have.properties[i].id = i
    /\ have.properties[i].count = Len(snapshot.groups[i].members)

Halo(snapshot, i) ==
    [id |-> i, mass |-> have.properties[i].mass,
     members |-> SortSeq(Identities(snapshot, snapshot.groups[i].members), <)]

Shape(i) == [id |-> i, centre |-> have.properties[i],
             members |-> Identities(job.main, Groups[i].members)]

Work(i) == CASE at = "properties" -> Property(job.main, i)
             [] at = "shapes" -> Shape(cursor + i - 1)
             [] at = "later" -> Halo(job.main, i)
             [] at = "progenitors" -> Property(job.earlier, i)
             [] at = "earlier" -> Halo(job.earlier, i)

Works(i) == CASE at = "later" -> Aligned(job.main, i)
              [] at = "earlier" -> Aligned(job.earlier, i)
              [] OTHER -> TRUE

Compute(i) == /\ Works(i)
              /\ results' = [results EXCEPT ![i] = Work(i)]
              /\ loop' = [loop EXCEPT !.running = @ \ {i}]
              /\ UNCHANGED faults

Throw(i) == /\ IF Works(i) THEN faults < MaxFaults /\ faults' = faults + 1
                           ELSE UNCHANGED faults
            /\ loop' = [loop EXCEPT !.running = @ \ {i}, !.failed = TRUE,
                                    !.exception = TRUE]
            /\ UNCHANGED results

Worker(i) == /\ at \in InLoop /\ i \in loop.running
             /\ Compute(i) \/ Throw(i)
             /\ Stay(<<job, at, directory, products, have, cursor, draft,
                       tables>>)

Through(part) == /\ at = part
                 /\ loop.next > loop.count /\ loop.running = {}

Rethrow == /\ at \in InLoop /\ Through(at) /\ loop.exception
           /\ Abandon
           /\ Stay(<<job, directory, products, loop, results, have, cursor,
                     draft, tables, faults>>)

Finished(part) == Through(part) /\ ~ loop.exception

-----------------------------------------------------------------------------
(* The candidates and their catalogue.                                     *)

FindCandidates ==
    /\ at = "halos" /\ ~ Asked("skip")
    /\ Begin("properties", Len(Groups))
    /\ Stay(<<job, directory, products, have, cursor, draft, tables, faults>>)

SkipHalos == /\ at = "halos" /\ Asked("skip")
             /\ GoTo("publish")
             /\ Stay(<<job, directory, products, loop, results, have, cursor,
                       draft, tables, faults>>)

(* FoFAnalysisCatalogIO::write checks every row, recomputes its mass and   *)
(* refuses a particle that is in two candidates.                           *)
SoundRow(i) ==
    LET ids == Identities(job.main, Groups[i].members)
    IN  /\ results[i] # None
        /\ results[i] = Property(job.main, i)
        /\ Increasing(ids)

Members == FlattenSeq([i \in DOMAIN Groups |->
                          Identities(job.main, Groups[i].members)])

SoundCatalogue == /\ \A i \in DOMAIN Groups : SoundRow(i)
                  /\ IsInjective(Members)

FofProduct(properties) ==
    [of |-> Of(job.main),
     rows |-> [i \in DOMAIN Groups |-> properties[i]],
     offsets |-> [i \in 0 .. Len(Groups) |->
                     FoldLeft(LAMBDA sum, g : sum + Len(g.members), 0,
                              SubSeq(Groups, 1, i))],
     members |-> Members]

Catalogue ==
    /\ Finished("properties")
    /\ IF SoundCatalogue
         THEN /\ Write("fof", FofProduct(results))
              /\ have' = [have EXCEPT !.properties = results]
              /\ GoTo(IF Asked("so") THEN "deblend" ELSE "hmf")
         ELSE Abandon /\ UNCHANGED <<products, have>>
    /\ Stay(<<job, directory, loop, results, cursor, draft, tables, faults>>)

-----------------------------------------------------------------------------
(* The deblended hosts: one row each, and a membership in the catalogue.   *)
(* A peak that merged into another gets a row that names it, and no more.  *)

HostsOf(i) == [n \in DOMAIN Groups[i].hosts |->
                  [candidate |-> i, seed |-> n, host |-> Groups[i].hosts[n]]]
Hosts == FlattenSeq([i \in DOMAIN Groups |-> HostsOf(i)])
Seeds == SelectSeq(Hosts, LAMBDA h : h.host.large)

SeedOf(h) == [candidate |-> h.candidate, seed |-> h.seed, peak |-> h.host.peak]

PeaksOf(i) ==
    LET row(peak, into) == [candidate |-> i, peak |-> peak, into |-> into]
    IN  SetToSortSeq({row(h.peak, None) : h \in Range(Groups[i].hosts)}
                         \union {row(m.peak, m.into) : m \in Groups[i].merged},
                     LAMBDA a, b : a.peak < b.peak)

(* Every candidate must have more than k particles, before a file is open. *)
Preflight == \A i \in DOMAIN Groups : Len(Groups[i].members) > job.k

Deblend == /\ at = "deblend"
           /\ IF Preflight THEN GoTo("hosts") ELSE Abandon
           /\ Stay(<<job, directory, products, loop, results, have, cursor,
                     draft, tables, faults>>)

AppendHost ==
    /\ at = "hosts" /\ cursor <= Len(Hosts)
    /\ LET h == Hosts[cursor]
           ids == SortSeq(Identities(job.main, h.host.members), <)
       IN  IF Appendable(tables["basins"], TRUE, ids)
             THEN /\ tables' = [tables EXCEPT !["basins"] =
                                   AppendTo(@, SeedOf(h), TRUE, ids)]
                  /\ draft' = [draft EXCEPT
                        !.peaks = IF h.seed = 1 THEN @ \o PeaksOf(h.candidate)
                                                ELSE @,
                        !.hosts = Append(@, [seed |-> SeedOf(h),
                                             count |-> Len(ids),
                                             selected |-> h.host.large])]
                  /\ cursor' = cursor + 1
                  /\ UNCHANGED at
             ELSE Abandon /\ UNCHANGED <<tables, draft, cursor>>
    /\ Stay(<<job, directory, products, loop, results, have, faults>>)

HostsWritten ==
    /\ at = "hosts" /\ cursor > Len(Hosts)
    /\ products' = "peaks" :> draft.peaks @@ "hosts" :> draft.hosts @@ products
    /\ GoTo("standard so")
    /\ Stay(<<job, directory, loop, results, have, cursor, draft, tables, faults>>)

(* The evaluator gives three measurements for each seed, in their order; a *)
(* crossing that was not found has no radius and no particles.             *)
Resolved(h, d) == h.host.so[d] # <<>>
Measured(h, d) == [seed |-> SeedOf(h), definition |-> d,
                   resolved |-> Resolved(h, d), count |-> Len(h.host.so[d])]

StandardRows == FlattenSeq([i \in DOMAIN Seeds |->
                    [n \in DOMAIN Definitions |->
                        Measured(Seeds[i], Definitions[n])]])

StandardSO ==
    /\ at = "standard so"
    /\ Write("standard so", StandardRows)
    /\ cursor' = 1
    /\ GoTo("named so")
    /\ Stay(<<job, directory, loop, results, have, draft, tables, faults>>)

-----------------------------------------------------------------------------
(* The named products of a seed.  The particles of an aperture come in the *)
(* order of the query; compute_vmax sorts the list by radius, in place,    *)
(* and HaloSpin sorts it by identity: the catalogue takes it as it is      *)
(* then.                                                                   *)

ByRadius(places) == SortSeq(places, LAMBDA p, q :
                        job.main.radius[p] < job.main.radius[q])

ById(places) == SortSeq(places, LAMBDA p, q :
                        job.main.ids[p] < job.main.ids[q])

AfterSpin(places) == ById(ByRadius(places))

Persisted(h, d) == Identities(job.main, AfterSpin(h.host.so[d]))

AppendSeed ==
    /\ at = "named so" /\ cursor <= Len(Seeds)
    /\ LET h == Seeds[cursor]
       IN  IF \A d \in Range(Definitions) :
                  Appendable(tables[d], Resolved(h, d), Persisted(h, d))
             THEN /\ tables' = [d \in DOMAIN tables |->
                        IF d = "basins" THEN tables[d]
                        ELSE AppendTo(tables[d], SeedOf(h), Resolved(h, d),
                                      Persisted(h, d))]
                  /\ draft' = [draft EXCEPT !.derived = @ \o
                        [n \in DOMAIN Definitions |->
                            Measured(h, Definitions[n])]]
                  /\ cursor' = cursor + 1
                  /\ UNCHANGED at
             ELSE Abandon /\ UNCHANGED <<tables, draft, cursor>>
    /\ Stay(<<job, directory, products, loop, results, have, faults>>)

(* finalize                                                                *)
CloseAll == [t \in DOMAIN tables |-> Close(tables[t])]

CatalogueProduct(closed) ==
    [of |-> Of(job.main), views |-> [t \in DOMAIN closed |-> Read(closed[t])]]

NamedWritten ==
    /\ at = "named so" /\ cursor > Len(Seeds)
    /\ IF \A t \in DOMAIN tables : Consistent(CloseAll[t])
         THEN /\ products' = "derived" :> draft.derived
                             @@ "memberships" :> CatalogueProduct(CloseAll)
                             @@ products
              /\ tables' = CloseAll
              /\ GoTo("hmf")
         ELSE Abandon /\ UNCHANGED <<products, tables>>
    /\ Stay(<<job, directory, loop, results, have, cursor, draft, faults>>)

-----------------------------------------------------------------------------
(* The mass function: the bin before the first edge above the mass, the    *)
(* last one closed, and what lies outside is counted.                      *)

Masses == [i \in DOMAIN have.properties |-> have.properties[i].mass]
Low == job.edges[1]
High == Last(job.edges)

BinOf(mass) ==
    IF mass = High THEN Len(job.edges) - 1
    ELSE (CHOOSE e \in DOMAIN job.edges :
              /\ job.edges[e] > mass
              /\ \A f \in 1 .. e - 1 : job.edges[f] <= mass) - 1

Counts == FoldLeft(LAMBDA h, mass :
              IF mass < Low THEN [h EXCEPT !.under = @ + 1]
              ELSE IF mass > High THEN [h EXCEPT !.over = @ + 1]
              ELSE [h EXCEPT !.bins[BinOf(mass)] = @ + 1],
              [under |-> 0, over |-> 0,
               bins |-> [b \in 1 .. Len(job.edges) - 1 |-> 0]], Masses)

HmfProduct == [of |-> Of(job.main), counts |-> Counts]
MassFunction == Optional("hmf", "hmf", "hmf", HmfProduct, "xi")

(* The correlation function of the centres needs two of them.              *)
XiProduct == [of |-> Of(job.main), centres |-> have.properties]

TwoPoint ==
    /\ at = "xi"
    /\ IF Asked("xi") /\ Len(have.properties) < 2
         THEN Abandon /\ UNCHANGED products
         ELSE /\ GoTo("shape stage")
              /\ IF Asked("xi") THEN Write("xi", XiProduct)
                                ELSE UNCHANGED products
    /\ cursor' = 1
    /\ Stay(<<job, directory, loop, results, have, draft, tables, faults>>)

-----------------------------------------------------------------------------
(* Shapes, one batch of candidates after another.                          *)

BatchCount == IF Len(Groups) - cursor + 1 < ShapeRoom
                THEN Len(Groups) - cursor + 1 ELSE ShapeRoom

StartShapes == /\ at = "shape stage" /\ Asked("shapes")
               /\ cursor <= Len(Groups)
               /\ Begin("shapes", BatchCount)
               /\ Stay(<<job, directory, products, have, cursor, draft, tables,
                         faults>>)

WriteShapes == /\ Finished("shapes")
               /\ draft' = [draft EXCEPT !.shapes = @ \o results]
               /\ cursor' = cursor + loop.count
               /\ GoTo("shape stage")
               /\ Stay(<<job, directory, products, loop, results, have, tables,
                         faults>>)

ShapeProduct == [of |-> Of(job.main), rows |-> draft.shapes]

EndShapes == /\ at = "shape stage"
             /\ Asked("shapes") => cursor > Len(Groups)
             /\ IF Asked("shapes") THEN Write("shapes", ShapeProduct)
                                   ELSE UNCHANGED products
             /\ IF Asked("earlier") THEN Begin("later", Len(Groups))
                ELSE GoTo("publish") /\ UNCHANGED <<loop, results>>
             /\ Stay(<<job, directory, have, cursor, draft, tables, faults>>)

-----------------------------------------------------------------------------
(* The pair links: the candidates are kept as halos, the particles are let *)
(* go, and the earlier snapshot is read and searched.                      *)

ReadEarlier ==
    /\ Finished("later")
    /\ have' = [have EXCEPT !.later = results]
    /\ IF PairsLink THEN Begin("progenitors", Len(job.earlier.groups))
                    ELSE Abandon /\ UNCHANGED <<loop, results>>
    /\ Stay(<<job, directory, products, cursor, draft, tables, faults>>)

EarlierHalos ==
    /\ Finished("progenitors")
    /\ have' = [have EXCEPT !.properties = results]
    /\ Begin("earlier", Len(job.earlier.groups))
    /\ Stay(<<job, directory, products, cursor, draft, tables, faults>>)

LinkProduct(earlier, later) ==
    [sources |-> <<Of(job.earlier), Of(job.main)>>,
     earlier |-> earlier, later |-> later]

Link == /\ Finished("earlier")
        /\ Write("links", LinkProduct(results, have.later))
        /\ GoTo("publish")
        /\ Stay(<<job, directory, loop, results, have, cursor, draft, tables,
                  faults>>)

-----------------------------------------------------------------------------
(* The end.  A publication can fail before the name is there or after; a   *)
(* directory that is not visible is discarded, or left with a warning.     *)

Publish == /\ at = "publish"
           /\ directory' = "visible"
           /\ \/ GoTo("returned") /\ UNCHANGED faults
              \/ Abandon /\ faults < MaxFaults /\ faults' = faults + 1
           /\ Stay(<<job, products, loop, results, have, cursor, draft, tables>>)

Discard == /\ at = "abandon"
           /\ GoTo("threw")
           /\ \/ /\ directory' = IF directory = "staged" THEN "gone" ELSE directory
                 /\ UNCHANGED faults
              \/ /\ directory = "staged" /\ faults < MaxFaults
                 /\ faults' = faults + 1
                 /\ UNCHANGED directory
           /\ Stay(<<job, products, loop, results, have, cursor, draft, tables>>)

(* Outside the loops: a read, an allocation, a file.                       *)
Fault == /\ at \notin Ended \union InLoop \union {"parse", "abandon"}
         /\ faults < MaxFaults
         /\ faults' = faults + 1
         /\ Abandon
         /\ Stay(<<job, directory, products, loop, results, have, cursor, draft,
                   tables>>)

Next == \/ Parse \/ OpenDirectory \/ Describe
        \/ PowerSpectrum \/ PhaseSpace \/ NoCross \/ FieldCross
        \/ TidalWeb \/ Bispectrum
        \/ Claim \/ (\E i \in 1 .. loop.count : Worker(i)) \/ Rethrow
        \/ FindCandidates \/ SkipHalos \/ Catalogue
        \/ Deblend \/ AppendHost \/ HostsWritten \/ StandardSO
        \/ AppendSeed \/ NamedWritten
        \/ MassFunction \/ TwoPoint \/ StartShapes \/ WriteShapes \/ EndShapes
        \/ ReadEarlier \/ EarlierHalos \/ Link
        \/ Publish \/ Discard \/ Fault

Spec == Init /\ [][Next]_vars

-----------------------------------------------------------------------------
(* The products a request asks for.                                        *)
Wanted ==
    {"pk"} \union (IF Asked("cross") THEN {"field cross"} ELSE {})
           \union (IF Asked("phase") THEN {"phase space"} ELSE {})
           \union (IF Asked("tidal") THEN {"tidal web"} ELSE {})
           \union (IF Asked("bispectrum") THEN {"bispectrum"} ELSE {})
           \union (IF Asked("skip") THEN {} ELSE {"fof"})
           \union (IF Asked("so") THEN {"peaks", "hosts", "standard so",
                                        "derived", "memberships"} ELSE {})
           \union {name \in {"hmf", "xi", "shapes"} : Asked(name)}
           \union (IF Asked("earlier") THEN {"links"} ELSE {})

MainProperties == [i \in DOMAIN Groups |-> Property(job.main, i)]

(* The memberships as one would list them: the particles of each host and  *)
(* of each aperture, by identity.                                          *)
InOrder(S) == SetToSortSeq(S, <)
IdentitySet(places) == Range(Identities(job.main, places))

ViewOf(list, available(_), places(_)) ==
    [i \in DOMAIN list |-> [seed |-> SeedOf(list[i]),
                            available |-> available(list[i]),
                            members |-> InOrder(IdentitySet(places(list[i])))]]

MembershipsAreRight(views) ==
    /\ views["basins"] = ViewOf(Hosts, LAMBDA h : TRUE, LAMBDA h : h.host.members)
    /\ \A d \in Range(Definitions) :
           views[d] = ViewOf(Seeds, LAMBDA h : h.host.so[d] # <<>>,
                             LAMBDA h : h.host.so[d])

InBin(b, mass) == /\ job.edges[b] <= mass
                  /\ \/ mass < job.edges[b + 1]
                     \/ b + 1 = Len(job.edges) /\ mass = job.edges[b + 1]

Having(Test(_)) == Cardinality({i \in DOMAIN Groups : Test(MainProperties[i].mass)})

HistogramIsRight(h) ==
    /\ \A b \in DOMAIN h.bins : h.bins[b] = Having(LAMBDA m : InBin(b, m))
    /\ h.under + h.over + FoldFunction(+, 0, h.bins) = Len(Groups)

ShapesAreRight(rows) ==
    /\ Len(rows) = Len(Groups)
    /\ \A i \in DOMAIN rows : /\ rows[i] # None
                              /\ rows[i].id = i
                              /\ rows[i].centre = MainProperties[i]

HalosOf(snapshot) ==
    [i \in DOMAIN snapshot.groups |->
        [id |-> i, mass |-> Property(snapshot, i).mass,
         members |-> InOrder(Range(Identities(snapshot,
                                              snapshot.groups[i].members)))]]

(* The peaks that no other absorbed are the hosts, in their order; every   *)
(* other one names a host of its candidate.                                *)
PeaksAreRight(rows) ==
    /\ SelectSeq(rows, LAMBDA r : r.into = None) =
           [i \in DOMAIN Hosts |-> [candidate |-> Hosts[i].candidate,
                                   peak |-> Hosts[i].host.peak, into |-> None]]
    /\ \A r \in Range(rows) \ {q \in Range(rows) : q.into = None} :
           \E h \in Range(Hosts) : /\ h.candidate = r.candidate
                                  /\ h.host.peak = r.into
    /\ \A i \in DOMAIN Groups : Groups[i].merged \subseteq
           {[peak |-> r.peak, into |-> r.into] :
               r \in {q \in Range(rows) : q.candidate = i}}

LinksAreRight(links) ==
    /\ links = LinkProduct(HalosOf(job.earlier), HalosOf(job.main))
    /\ job.earlier.epoch < job.main.epoch

Right(name, content) ==
    CASE name = "fof" -> content = FofProduct(MainProperties)
      [] name = "memberships" -> /\ content.of = Of(job.main)
                                 /\ MembershipsAreRight(content.views)
      [] name \in {"standard so", "derived"} -> content = StandardRows
      [] name = "hosts" -> /\ Len(content) = Len(Hosts)
                           /\ Cardinality({i \in DOMAIN content :
                                  content[i].selected}) = Len(Seeds)
      [] name = "hmf" -> /\ content.of = Of(job.main)
                         /\ HistogramIsRight(content.counts)
      [] name = "xi" -> /\ content = [of |-> Of(job.main), centres |-> MainProperties]
                        /\ Len(Groups) > 1
      [] name = "shapes" -> /\ content.of = Of(job.main)
                            /\ ShapesAreRight(content.rows)
      [] name = "links" -> LinksAreRight(content)
      [] name \in {"phase space", "field cross"} ->
             /\ content = [reference |-> Of(job.cross), candidate |-> Of(job.main)]
             /\ name = "phase space" => job.cross.epoch = job.main.epoch
      [] name = "peaks" -> PeaksAreRight(content)
      [] OTHER -> content = Of(job.main)

(* Why a run may refuse although nothing failed.                           *)
CannotBe == \/ ~ Accepted \/ ~ Admissible
            \/ Asked("cross") /\ ~ job.meshHolds
            \/ Asked("phase") /\ ~ PhaseSpaceCompares
            \/ Asked("so") /\ ~ Preflight
            \/ Asked("xi") /\ Len(Groups) < 2
            \/ Asked("earlier") /\ ~ PairsLink

(* A directory that is visible holds exactly the products that were asked  *)
(* for, each complete and of its snapshots: a property, a shape or a halo  *)
(* from a worker for every candidate, and in the membership catalogue for  *)
(* every host and for every seed and definition the slice with just its    *)
(* particles, whatever was buffered; no worker's exception is lost.  A     *)
(* call returns only with the directory visible, and throws only for a     *)
(* reason; a directory that is not visible is gone unless removing it      *)
(* failed.                                                                 *)
PublishedProductsAgree ==
    /\ directory = "visible" => /\ DOMAIN products = Wanted
                                /\ \A name \in Wanted : Right(name, products[name])
    /\ at = "returned" => directory = "visible"
    /\ at = "threw" /\ faults = 0 => CannotBe /\ directory # "visible"
    /\ at = "threw" /\ directory = "staged" => faults > 0
=============================================================================
