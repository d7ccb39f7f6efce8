------------------------------- MODULE RandomField -------------------------------
(***************************************************************************)
(* The Fourier modes of generated initial conditions: which mesh they are  *)
(* drawn on, what each stored coefficient is, and the shells of the        *)
(* evidence (ic/random_field.cpp, ic/particle_lattice_bandlimit.cpp,       *)
(* ic/realised_ic_evidence.cpp).  A request c has                          *)
(*   n        particles per dimension                                      *)
(*   mesh     the mesh asked for, 0 for the automatic one                  *)
(*   limit    the largest mode per axis asked for, 0 for none              *)
(*   order    of the displacements, 1 or 2                                 *)
(*   fixed    amplitudes are fixed, not Gaussian                           *)
(*   reversed the second of a pair                                         *)
(*   defect   the squared length of the modes at which the spectrum has no *)
(*            proper value, and what it has instead                        *)
(* The amplitude of a mode is left out: a coefficient is the block of      *)
(* random words it is made of and the signs of its parts.                  *)
(***************************************************************************)
EXTENDS Integers, SequencesExt

(* The smallest r with r * r >= n.                                         *)
CeilRoot(n) == CHOOSE r \in 0 .. n : r * r >= n /\ \A s \in 0 .. r - 1 : s * s < n

Least(S) == CHOOSE x \in S : \A y \in S : x <= y
Count(S, P(_)) == Cardinality({x \in S : P(x)})

-----------------------------------------------------------------------------
(* The configuration.                                                      *)

(* Products of two fields do not reach the kept modes round the mesh.      *)
AliasedFree(mesh, limit) == mesh # 0 /\ limit <= (mesh - 1) \div 2      \* fault
AliasFree(mesh, limit) == mesh # 0 /\ limit <= (mesh - 1) \div 3

EffectiveLimit(c) == IF c.limit # 0 THEN c.limit ELSE (c.n - 1) \div 2

MeshOf(c) == IF c.mesh # 0 THEN c.mesh
             ELSE IF c.order = 2 /\ ~ AliasFree(c.n, EffectiveLimit(c))
               THEN 2 * c.n ELSE c.n

ValidFields(c) == /\ c.limit <= (c.n - 1) \div 2 /\ EffectiveLimit(c) > 0
                  /\ MeshOf(c) % c.n = 0
                  /\ c.order = 2 => AliasFree(MeshOf(c), EffectiveLimit(c))

-----------------------------------------------------------------------------
(* The modes.                                                              *)

ModeNumber(index, mesh) == IF index <= mesh \div 2 THEN index ELSE index - mesh

WithinAxisLimit(mode, limit) == - limit <= mode /\ mode <= limit

Indices(c) == 0 .. MeshOf(c) - 1
Heights(c) == 0 .. MeshOf(c) \div 2

ModeAt(c, i, j, k) == <<ModeNumber(i, MeshOf(c)), ModeNumber(j, MeshOf(c)), k>>

Squared(m) == m[1] * m[1] + m[2] * m[2] + m[3] * m[3]

Kept(c, m) == /\ m # <<0, 0, 0>>
              /\ \A d \in 1 .. 3 : WithinAxisLimit(m[d], EffectiveLimit(c))

(* What the spectrum says of a mode: "throws", "invalid", an amplitude     *)
(* that is no number ("amplitude"), or a proper value.                     *)
SpectrumAt(c, squared) == IF squared = c.defect.at THEN c.defect.is ELSE "proper"

(* The block the generator gives for a mode: two numbers that nothing but  *)
(* the seed, the mode and the stream decides.                              *)
Block(m, stream) == [mode |-> m, stream |-> stream]

(* The stored half of the modes has both of a conjugate pair on these      *)
(* planes; one of the two is drawn.                                        *)
OnConjugatePlane(c, k) == k = 0 \/ (MeshOf(c) % 2 = 0 /\ k = MeshOf(c) \div 2)

Mirror(c, i) == (MeshOf(c) - i) % MeshOf(c)

SelfConjugate(c, i, j, k) ==
    OnConjugatePlane(c, k) /\ Mirror(c, i) = i /\ Mirror(c, j) = j

MirroredRow(c, i, j, k) == OnConjugatePlane(c, k) /\ Mirror(c, i) < i   \* fault
Mirrored(c, i, j, k) ==
    /\ OnConjugatePlane(c, k)
    /\ \/ Mirror(c, i) < i
       \/ Mirror(c, i) = i /\ Mirror(c, j) < j

Zero == [drawn |-> Block(<<0, 0, 0>>, "none"), conjugate |-> FALSE,
         real |-> FALSE, negative |-> FALSE]

Drawn(c, i, j, k) ==
    LET conjugate == Mirrored(c, i, j, k)
        from == IF conjugate THEN ModeAt(c, Mirror(c, i), Mirror(c, j), k)
                             ELSE ModeAt(c, i, j, k)
    IN  [drawn |-> Block(from, IF c.fixed THEN "phase" ELSE "gaussian"),
         conjugate |-> conjugate,
         real |-> SelfConjugate(c, i, j, k),
         negative |-> c.reversed]

(* A coefficient, and what is wrong with it: "none" for nothing.           *)
Coefficient(c, i, j, k) ==
    LET m == ModeAt(c, i, j, k)
    IN  IF ~ Kept(c, m) THEN [value |-> Zero, wrong |-> "none"]
        ELSE IF SpectrumAt(c, Squared(m)) # "proper"
          THEN [value |-> Zero, wrong |-> SpectrumAt(c, Squared(m))]
        ELSE [value |-> Drawn(c, i, j, k), wrong |-> "none"]

(* All coefficients with one first index.                                  *)
Slab(c, i) == [j \in Indices(c) |-> [k \in Heights(c) |-> Coefficient(c, i, j, k)]]

(* What the threads bring back of a slab: the first place where something  *)
(* threw, and whether a power or an amplitude was refused.                 *)
Throwing(slab) == UNION {{<<j, k>> : k \in {h \in DOMAIN slab[j] : slab[j][h].wrong = "throws"}}
                          : j \in DOMAIN slab}
Refused(slab, why) == \E j \in DOMAIN slab : \E k \in DOMAIN slab[j] : slab[j][k].wrong = why

FirstThrow(i, slab) ==
    LET j == Least({p[1] : p \in Throwing(slab)})
    IN  <<i, j, Least({p[2] : p \in {q \in Throwing(slab) : q[1] = j}})>>

-----------------------------------------------------------------------------
(* The shells of the evidence, one fundamental mode wide, up to the        *)
(* Nyquist mode of the particles.                                          *)

ShellCount(c) == IF c.n > 2 THEN (c.n - 1) \div 2 ELSE 0

InWindow(c, mode) == mode <= (c.n \div 2) + 1 /\ (c.limit # 0 => mode <= c.limit)

Transverse(c) ==
    SelectSeq([i \in 1 .. MeshOf(c) |-> i - 1],
              LAMBDA i : InWindow(c, Least({i, MeshOf(c) - i})))

Longitudinal(c) == {k \in Heights(c) : InWindow(c, k)}

InShell(c, m, shell) == /\ 4 * Squared(m) < c.n * c.n
                        /\ (shell + 1) * (shell + 1) <= Squared(m)
                        /\ Squared(m) < (shell + 2) * (shell + 2)

Multiplicity(c, k) == IF OnConjugatePlane(c, k) THEN 1 ELSE 2

(* The lanes the work is divided into do not depend on the threads.        *)
LaneCount(c) == CeilRoot(Len(Transverse(c)))

LaneRows(c, lane) == {Transverse(c)[s] : s \in {t \in DOMAIN Transverse(c) :
                                                  (t - 1) % LaneCount(c) = lane}}

LaneModes(c, lane) ==
    [shell \in 0 .. ShellCount(c) - 1 |->
       LET modes(k) == Count(LaneRows(c, lane) \X ToSet(Transverse(c)),
                             LAMBDA p : InShell(c, ModeAt(c, p[1], p[2], k), shell))
       IN  MapThenSumSet(LAMBDA k : Multiplicity(c, k) * modes(k), Longitudinal(c))]

NoModes(c) == [shell \in 0 .. ShellCount(c) - 1 |-> 0]

(* The shells that have modes.                                             *)
Evidence(c, lanes) ==
    LET sums == FoldLeft(LAMBDA total, lane : [s \in DOMAIN total |-> total[s] + lane[s]],
                         NoModes(c), lanes)
    IN  {[shell |-> s, modes |-> sums[s]] : s \in {t \in DOMAIN sums : sums[t] > 0}}

-----------------------------------------------------------------------------
(* Products of two fields, along one axis: the sums of two modes that end  *)
(* at an index of the mesh, and what is kept of them.                      *)
SumsAt(c, index) ==
    LET modes == - EffectiveLimit(c) .. EffectiveLimit(c)
    IN  {s \in {p + q : p \in modes, q \in modes} : s % MeshOf(c) = index}

BandLimited(c, sums) ==
    [i \in DOMAIN sums |->
       IF WithinAxisLimit(ModeNumber(i, MeshOf(c)), EffectiveLimit(c)) THEN sums[i] ELSE {}]
=============================================================================
