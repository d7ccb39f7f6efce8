------------------------- MODULE SnapshotProvenance -------------------------
(***************************************************************************)
(* Where the initial conditions of a run came from, as its snapshots say   *)
(* it: a run that generates its particles writes what they were generated  *)
(* from, a run that starts from a snapshot writes what that snapshot said, *)
(* and whoever opens a snapshot decides whether to believe it.             *)
(*                                                                         *)
(* The text RunMetadataJson is a sequence of fields <<name, value>>.  The  *)
(* fields of the cosmology, the box and the force mesh are one field       *)
(* "physics".  A generator is the order of the displacements, the mesh     *)
(* they are made on and the fidelity of the power spectrum (with the seed, *)
(* the amplitudes, the phases and the lattice); its support is the largest *)
(* mode per axis that is populated.  None is an empty text, or null.       *)
(***************************************************************************)
EXTENDS Naturals, Sequences, SequencesExt, Functions

CONSTANT None

Precise == "precision_boltzmann"
NoGenerator == [order |-> 0, mesh |-> 0, fidelity |-> None]

Cube(n) == n * n * n

-----------------------------------------------------------------------------
(* What a configuration asks for, ic: the order, the mesh (0: automatic),  *)
(* the support, the fidelity, and the digest of the power spectrum's file. *)

Band(n) == (n - 1) \div 2
Effective(ic, n) == IF ic.requested = None THEN Band(n) ELSE ic.requested

(* A product of two fields of support k aliases into k unless M > 3k.      *)
AliasFree(mesh, k) == mesh # 0 /\ k <= (mesh - 1) \div 3

IcMesh(ic, n) == IF ic.mesh # 0 THEN ic.mesh
                 ELSE IF ic.order = 2 /\ ~ AliasFree(n, Effective(ic, n))
                        THEN 2 * n ELSE n

IsGeneration(ic, n) ==
    /\ ic.requested # None => ic.requested \in 1 .. Band(n)
    /\ Effective(ic, n) # 0
    /\ ic.order \in {1, 2}
    /\ ic.fidelity = Precise
    /\ IcMesh(ic, n) % n = 0
    /\ ic.order = 2 => AliasFree(IcMesh(ic, n), Effective(ic, n))

-----------------------------------------------------------------------------
(* canonical_run_metadata_value: no name twice, and the one asked for.     *)
Readable(text, key) == /\ IsInjective([i \in DOMAIN text |-> text[i][1]])
                       /\ \E i \in DOMAIN text : text[i][1] = key

Value(text, key) ==
    text[SelectInSeq(text, LAMBDA field : field[1] = key)][2]

Keys == {"lineage", "physics", "particles_per_dimension", "ic_mode",
         "ic_provenance_status", "ic_generation_parameters_applied",
         "generator", "power_spectrum_sha256", "ic_max_mode_per_axis",
         "ic_effective_max_mode_per_axis"}

(* A run that generated, or one whose source had this from such a run.     *)
Available(text) == \/ Value(text, "ic_mode") = "generate"
                   \/ Value(text, "ic_provenance_status") = "inherited"

IsGenerator(g) == g.order \in {1, 2} /\ g.mesh # 0 /\ g.fidelity = Precise

(* The support is the one asked for, or all the lattice can represent.     *)
SupportAgrees(text) ==
    LET requested == Value(text, "ic_max_mode_per_axis")
        effective == Value(text, "ic_effective_max_mode_per_axis")
        n == Value(text, "particles_per_dimension")
    IN  /\ Available(text) => effective # None
        /\ requested # None => effective = requested
        /\ effective # None => /\ Available(text) /\ n # 0
                               /\ effective \in 1 .. Band(n)
                               /\ requested = None => effective = Band(n)

(* read_snapshot_generation_provenance                                     *)
ReadsAsProvenance(text) ==
    /\ \A key \in Keys : Readable(text, key)
    /\ Value(text, "lineage") = "direct_simulation"
    /\ \/ /\ Value(text, "ic_mode") = "generate"
          /\ Value(text, "ic_generation_parameters_applied")
          /\ Value(text, "ic_provenance_status")
                \in {"applied", "applied_input_hash_unavailable"}
       \/ /\ Value(text, "ic_mode") = "snapshot"
          /\ ~ Value(text, "ic_generation_parameters_applied")
          /\ Value(text, "ic_provenance_status")
                \in {"inherited", "bytes_verified", "not_verified"}
    /\ IF Available(text) THEN IsGenerator(Value(text, "generator"))
       ELSE /\ Value(text, "generator") = NoGenerator
            /\ Value(text, "power_spectrum_sha256") = None
    /\ SupportAgrees(text)

-----------------------------------------------------------------------------
(* RunMetadata::from_config of a run that generates, and of one that       *)
(* starts from a snapshot, whose digest and text it may have verified.     *)

Generated(ic, physics, n) ==
    [physics |-> physics, side |-> n, mode |-> "generate",
     status |-> IF ic.spectrum = None THEN "applied_input_hash_unavailable"
                ELSE "applied",
     generator |-> [order |-> ic.order, mesh |-> IcMesh(ic, n),
                    fidelity |-> ic.fidelity],
     spectrum |-> ic.spectrum, requested |-> ic.requested,
     effective |-> Effective(ic, n)]

Unverified(physics, n, sha256) ==
    [physics |-> physics, side |-> n, mode |-> "snapshot",
     status |-> IF sha256 = None THEN "not_verified" ELSE "bytes_verified",
     generator |-> NoGenerator, spectrum |-> None,
     requested |-> None, effective |-> None]

Inherited(physics, n, sha256, text) ==
    IF text = None \/ ~ Available(text) THEN Unverified(physics, n, sha256)
    ELSE [Unverified(physics, n, sha256) EXCEPT
            !.status = "inherited",
            !.generator = Value(text, "generator"),
            !.spectrum = Value(text, "power_spectrum_sha256"),
            !.requested = Value(text, "ic_max_mode_per_axis"),
            !.effective = Value(text, "ic_effective_max_mode_per_axis")]

(* append_common_prefix, and append_json after it.                         *)
Prefix(meta) ==
    << <<"lineage", "direct_simulation">>,
       <<"physics", meta.physics>>,
       <<"particles_per_dimension", meta.side>>,
       <<"ic_max_mode_per_axis", meta.requested>>,
       <<"ic_effective_max_mode_per_axis", meta.effective>> >>

Json(meta) == Prefix(meta) \o
    << <<"ic_mode", meta.mode>>,
       <<"ic_provenance_status", meta.status>>,
       <<"ic_generation_parameters_applied", meta.mode = "generate">>,
       <<"generator", meta.generator>>,
       <<"power_spectrum_sha256", meta.spectrum>> >>

(* The physics fingerprint tells the support only if it was asked for.     *)
FingerprintSupport(meta) == IF meta.mode = "generate" THEN meta.requested ELSE None

(* A snapshot: its header repeats the generator; a mass table of 0 means   *)
(* that the rows have masses of their own.                                 *)
Snapshot(meta, epoch, table, rows) ==
    [native |-> TRUE, physics |-> meta.physics, side |-> meta.side,
     count |-> Len(rows), epoch |-> epoch, table |-> table, rows |-> rows,
     generator |-> meta.generator, support |-> FingerprintSupport(meta),
     text |-> Json(meta)]

-----------------------------------------------------------------------------
(* read_snapshot_descriptor: the native form, one complete file of one     *)
(* population; header and run metadata tell the same; a generator that the *)
(* code would have accepted; and N^3 particles.                            *)

(* Units and meanings are the program's own, and numbers are in range.     *)
Native(c) == c.native /\ c.side # 0

HeaderAgrees(c) ==
    /\ Value(c.text, "physics") = c.physics
    /\ Value(c.text, "particles_per_dimension") = c.side
    /\ Value(c.text, "generator") = c.generator
    /\ c.support = IF Value(c.text, "ic_mode") = "generate"
                     THEN Value(c.text, "ic_max_mode_per_axis") ELSE None

GeneratorFits(g, effective, n) ==
    /\ g.order # 0 => g.mesh # 0 /\ g.mesh % n = 0
    /\ g.order = 2 => effective # None /\ AliasFree(g.mesh, effective)

ReadsAsDescriptor(c) ==
    /\ Native(c)
    /\ ReadsAsProvenance(c.text)
    /\ HeaderAgrees(c)
    /\ GeneratorFits(c.generator,
                     Value(c.text, "ic_effective_max_mode_per_axis"), c.side)
    /\ c.count = Cube(c.side)

(* What a run that starts from it demands besides: a known origin, from a  *)
(* power spectrum with a digest.                                           *)
HasOrigin(c) == /\ Available(c.text)
                /\ Value(c.text, "ic_effective_max_mode_per_axis") # None
                /\ c.generator.fidelity = Precise
                /\ Value(c.text, "power_spectrum_sha256") # None

Upstream(text) ==
    [key \in {"generator", "power_spectrum_sha256", "ic_max_mode_per_axis",
              "ic_effective_max_mode_per_axis"} |-> Value(text, key)]
=============================================================================
