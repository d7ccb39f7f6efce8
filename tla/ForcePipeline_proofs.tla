------------------------- MODULE ForcePipeline_proofs -------------------------
(***************************************************************************)
(* Two results about a force evaluation, for every number of ranks,        *)
(* particles, threads, chunks per thread, calls and failures.              *)
(*                                                                         *)
(* The chunks of TreePM's short-range walk: WalkOne of two chunks may run  *)
(* at the same time on two threads, and each adds to the acceleration of   *)
(* the particle it has reached; nothing but the arithmetic of              *)
(* contiguous_chunk_bounds keeps them off the same particle.               *)
(*                                                                         *)
(* The collectives: ranks that wait in one wait in the same one.  Along    *)
(* the steps of a call every rank stands at most some local steps before   *)
(* the others, or has not begun the call yet; and what it will make of the *)
(* call when it does depends on three things it keeps from earlier ones,   *)
(* on which the ranks agree however those ended.                           *)
(*                                                                         *)
(* And what every list of a call looks like, from any of its steps on,     *)
(* which is what the contents of the buffers follow from (Planned): the    *)
(* milestones that are left (Due), the gathers to come, and what leads to  *)
(* what while the mesh is at work (Leads).                                 *)
(***************************************************************************)
EXTENDS ForcePipeline, SequenceTheorems, FiniteSetTheorems, WellFoundedInduction,
        TLAPS

(* The particle the walk of a chunk writes after k others.                 *)
Particle(r, c, k) == ChunkStart(r, c) + k + 1

-----------------------------------------------------------------------------
(* Arithmetic.                                                             *)

LEMMA MinOfTwo ==
    ASSUME NEW x \in Int, NEW y \in Int
    PROVE  /\ Min({x, y}) \in {x, y}
           /\ Min({x, y}) <= x /\ Min({x, y}) <= y
 <1>1. \E z \in {x, y} : \A w \in {x, y} : z <= w
  <2>1. CASE x <= y
    BY <2>1
  <2>2. CASE y <= x
    BY <2>2
  <2> QED  BY <2>1, <2>2
 <1> QED  BY <1>1 DEF Min

LEMMA Division ==
    ASSUME NEW x \in Nat, NEW y \in Nat \ {0}
    PROVE  /\ x \div y \in Nat
           /\ x % y \in 0 .. y - 1
           /\ x = y * (x \div y) + (x % y)
  OBVIOUS

LEMMA Ordered ==
    ASSUME NEW x \in Int, NEW y \in Int, NEW z \in Nat \ {0}
    PROVE  (x < y) <=> (z * x < z * y)
  OBVIOUS

-----------------------------------------------------------------------------
(* A rank with particles has at least one chunk and no more than particles.*)
LEMMA ChunkCountType ==
    ASSUME NEW r, Owned[r] \in Nat \ {0}
    PROVE  ChunkCount(r) \in 1 .. Owned[r]
 <1>1. ChunksPerWorker * Workers \in Nat \ {0}
   BY ForcePipelineAssumption
 <1> DEFINE x == Owned[r]
            y == ChunksPerWorker * Workers
 <1>2. Min({x, y}) \in {x, y} /\ Min({x, y}) <= x
  <2> HIDE DEF x, y
  <2>1. x \in Int /\ y \in Int
    BY <1>1 DEF x, y
  <2> QED  BY <2>1, MinOfTwo
 <1>3. ChunkCount(r) = Min({x, y})
   BY DEF ChunkCount
 <1> HIDE DEF y
 <1>4. y \in Nat \ {0}
   BY <1>1 DEF y
 <1> QED  BY <1>2, <1>3, <1>4

(* A chunk starts where those before it end: the first (Owned mod          *)
(* ChunkCount) of them hold one particle more than the others.             *)
LEMMA StartsAt ==
    ASSUME NEW r, Owned[r] \in Nat \ {0}, NEW c \in 1 .. ChunkCount(r) + 1
    PROVE  LET b == Owned[r] \div ChunkCount(r)
               m == Owned[r] % ChunkCount(r)
           IN  /\ b \in Nat \ {0} /\ m \in 0 .. ChunkCount(r) - 1
               /\ Owned[r] = ChunkCount(r) * b + m
               /\ c - 1 <= m => ChunkStart(r, c) = (c - 1) * b + (c - 1)
               /\ c - 1 >= m => ChunkStart(r, c) = (c - 1) * b + m
               /\ ChunkStart(r, c) \in Nat
 <1> DEFINE C == ChunkCount(r)
            b == Owned[r] \div C
            m == Owned[r] % C
 <1>1. C \in Nat \ {0} /\ C <= Owned[r]
   BY ChunkCountType
 <1>2. b \in Nat /\ m \in 0 .. C - 1 /\ Owned[r] = C * b + m
   BY <1>1, Division
 <1>3. b # 0
  <2> SUFFICES ASSUME b = 0  PROVE FALSE
    OBVIOUS
  <2>1. C * b = 0
    BY <1>1
  <2> HIDE DEF C, b, m
  <2> QED  BY <1>1, <1>2, <2>1
 <1>4. c - 1 \in Nat
   BY <1>1
 <1>5. Min({c - 1, m}) = IF c - 1 <= m THEN c - 1 ELSE m
  <2> DEFINE x == c - 1
  <2>1. x \in Int /\ m \in Int
    BY <1>2, <1>4
  <2> HIDE DEF x, m
  <2>2. Min({x, m}) \in {x, m} /\ Min({x, m}) <= x /\ Min({x, m}) <= m
    BY <2>1, MinOfTwo
  <2>3. Min({x, m}) = IF x <= m THEN x ELSE m
    BY <2>1, <2>2
  <2> QED  BY <2>3 DEF x
 <1>6. ChunkStart(r, c) = (c - 1) * b + Min({c - 1, m})
   BY DEF ChunkStart
 <1> HIDE DEF C, b, m
 <1>7. (c - 1) * b \in Nat
   BY <1>2, <1>4
 <1>8. ChunkStart(r, c) \in Nat
   BY <1>2, <1>4, <1>5, <1>6, <1>7
 <1>9. /\ c - 1 <= m => ChunkStart(r, c) = (c - 1) * b + (c - 1)
       /\ c - 1 >= m => ChunkStart(r, c) = (c - 1) * b + m
   BY <1>2, <1>4, <1>5, <1>6
 <1> QED  BY <1>2, <1>3, <1>8, <1>9 DEF C, b, m

(* Every chunk holds b or b + 1 particles, so none is empty.               *)
LEMMA SizeOfChunk ==
    ASSUME NEW r, Owned[r] \in Nat \ {0}, NEW c \in 1 .. ChunkCount(r)
    PROVE  /\ ChunkSize(r, c) \in {Owned[r] \div ChunkCount(r),
                                   Owned[r] \div ChunkCount(r) + 1}
           /\ ChunkSize(r, c) \in Nat \ {0}
           /\ ChunkStart(r, c + 1) = ChunkStart(r, c) + ChunkSize(r, c)
 <1> DEFINE b == Owned[r] \div ChunkCount(r)
            m == Owned[r] % ChunkCount(r)
            s == ChunkStart(r, c)
            t == ChunkStart(r, c + 1)
 <1>1. ChunkCount(r) \in Nat \ {0}
   BY ChunkCountType
 <1>2. c \in 1 .. ChunkCount(r) + 1 /\ c + 1 \in 1 .. ChunkCount(r) + 1
       /\ (c + 1) - 1 = c /\ c \in Int
   BY <1>1
 <1>3. /\ b \in Nat \ {0} /\ m \in Nat
       /\ c - 1 <= m => s = (c - 1) * b + (c - 1)
       /\ c - 1 >= m => s = (c - 1) * b + m
       /\ s \in Nat
   BY <1>1, <1>2, StartsAt
 <1>4. /\ c <= m => t = c * b + c
       /\ c >= m => t = c * b + m
       /\ t \in Nat
   BY <1>1, <1>2, StartsAt
 <1>5. ChunkSize(r, c) = t - s
   BY DEF ChunkSize
 <1> HIDE DEF b, m, s, t
 <1>6. (c - 1) * b = c * b - b
   BY <1>2, <1>3
 <1>7. t - s \in {b, b + 1}
  <2>1. CASE c <= m
    BY <1>2, <1>3, <1>4, <1>6, <2>1
  <2>2. CASE c > m
    BY <1>2, <1>3, <1>4, <1>6, <2>2
  <2> QED  BY <1>2, <1>3, <2>1, <2>2
 <1>8. t - s \in Nat \ {0} /\ t = s + (t - s)
   BY <1>3, <1>4, <1>7
 <1> QED  BY <1>5, <1>7, <1>8 DEF b, s, t

(* A later chunk starts no earlier.                                        *)
LEMMA StartsInOrder ==
    ASSUME NEW r, Owned[r] \in Nat \ {0},
           NEW c \in 1 .. ChunkCount(r) + 1, NEW d \in c .. ChunkCount(r) + 1
    PROVE  ChunkStart(r, c) <= ChunkStart(r, d)
 <1> DEFINE b == Owned[r] \div ChunkCount(r)
            m == Owned[r] % ChunkCount(r)
            s == ChunkStart(r, c)
            t == ChunkStart(r, d)
 <1>1. ChunkCount(r) \in Nat \ {0}
   BY ChunkCountType
 <1>2. c \in Int /\ d \in Int /\ c >= 1 /\ c <= d /\ d \in 1 .. ChunkCount(r) + 1
   BY <1>1
 <1>3. /\ b \in Nat \ {0} /\ m \in Nat
       /\ c - 1 <= m => s = (c - 1) * b + (c - 1)
       /\ c - 1 >= m => s = (c - 1) * b + m
       /\ s \in Nat
   BY <1>1, <1>2, StartsAt
 <1>4. /\ d - 1 <= m => t = (d - 1) * b + (d - 1)
       /\ d - 1 >= m => t = (d - 1) * b + m
       /\ t \in Nat
   BY <1>1, <1>2, StartsAt
 <1> HIDE DEF b, m, s, t
 <1>5. (c - 1) * b <= (d - 1) * b
   BY <1>2, <1>3
 <1>6. s <= t
  <2> DEFINE x == (c - 1) * b
             y == (d - 1) * b
  <2>1. x \in Int /\ y \in Int /\ x <= y
    BY <1>2, <1>3, <1>5
  <2>2. /\ c - 1 <= m => s = x + (c - 1)
        /\ c - 1 >= m => s = x + m
        /\ d - 1 <= m => t = y + (d - 1)
        /\ d - 1 >= m => t = y + m
    BY <1>3, <1>4
  <2> HIDE DEF x, y
  <2> QED  BY <1>2, <1>3, <1>4, <2>1, <2>2
 <1> QED  BY <1>6 DEF s, t

(* The chunk that holds a given particle.                                  *)
LEMMA HeldBySome ==
    ASSUME NEW r, Owned[r] \in Nat \ {0}, NEW p \in 1 .. Owned[r]
    PROVE  \E c \in 1 .. ChunkCount(r) :
              ChunkStart(r, c) < p /\ p <= ChunkStart(r, c + 1)
 <1> DEFINE C == ChunkCount(r)
            b == Owned[r] \div C
            m == Owned[r] % C
            j == p - 1
            long == m * (b + 1)
 <1>1. C \in Nat \ {0}
   BY ChunkCountType
 <1>2. 1 \in 1 .. C + 1
   BY <1>1
 <1>3. b \in Nat \ {0} /\ m \in 0 .. C - 1 /\ Owned[r] = C * b + m
   BY <1>1, <1>2, StartsAt
 <1>4. ASSUME NEW c \in 1 .. C
       PROVE  /\ c - 1 <= m => ChunkStart(r, c) = (c - 1) * b + (c - 1)
              /\ c - 1 >= m => ChunkStart(r, c) = (c - 1) * b + m
              /\ c <= m => ChunkStart(r, c + 1) = c * b + c
              /\ c >= m => ChunkStart(r, c + 1) = c * b + m
  <2>1. c \in 1 .. C + 1 /\ c + 1 \in 1 .. C + 1 /\ (c + 1) - 1 = c
    BY <1>1
  <2> QED  BY <1>1, <2>1, StartsAt
 <1>5. j \in Nat /\ p = j + 1 /\ j < C * b + m
   BY <1>1, <1>3
 <1> HIDE DEF C, b, m, j
 <1>6. long \in Nat /\ long = m * b + m /\ m * b \in Nat
   BY <1>1, <1>3
 <1>7. CASE j < long
  <2> DEFINE i == j \div (b + 1)
  <2>1. i \in Nat /\ j % (b + 1) \in 0 .. b /\ j = (b + 1) * i + (j % (b + 1))
   <3>1. b + 1 \in Nat \ {0} /\ (b + 1) - 1 = b
     BY <1>3
   <3> QED  BY <1>5, <3>1, Division
  <2> DEFINE e == j % (b + 1)
  <2> HIDE DEF i, e, long
  <2>2. e \in 0 .. b /\ j = (b + 1) * i + e
    BY <2>1 DEF e
  <2>3. i < m
   <3>1. (b + 1) * i < (b + 1) * m
    <4>1. (b + 1) * i <= j
      BY <1>3, <2>1, <2>2
    <4>2. (b + 1) * m = long /\ (b + 1) * i \in Int
      BY <1>1, <1>3, <1>6, <2>1 DEF long
    <4> QED  BY <1>5, <1>6, <1>7, <4>1, <4>2
   <3> QED  BY <1>1, <1>3, <2>1, <3>1, Ordered
  <2>4. i + 1 \in 1 .. C /\ (i + 1) - 1 = i /\ i + 1 <= m
    BY <1>1, <1>3, <2>1, <2>3
  <2>5. ChunkStart(r, i + 1) = i * b + i
        /\ ChunkStart(r, (i + 1) + 1) = (i + 1) * b + (i + 1)
    BY <1>1, <1>3, <1>4, <2>1, <2>3, <2>4
  <2>6. (b + 1) * i = i * b + i /\ (i + 1) * b = i * b + b /\ i * b \in Nat
    BY <1>3, <2>1
  <2>7. ChunkStart(r, i + 1) < p /\ p <= ChunkStart(r, (i + 1) + 1)
    BY <1>3, <1>5, <2>1, <2>2, <2>5, <2>6
  <2> QED  BY <2>4, <2>7 DEF C
 <1>8. CASE j >= long
  <2> DEFINE g == j - long
             i == g \div b
             e == g % b
  <2>1. g \in Nat
    BY <1>5, <1>6, <1>8
  <2>2. i \in Nat /\ e \in 0 .. b - 1 /\ g = b * i + e
   <3> HIDE DEF g
   <3> QED  BY <1>3, <2>1, Division
  <2> HIDE DEF i, e, long
  <2>3. i < C - m
   <3>1. g < b * (C - m)
    <4>1. b * (C - m) = C * b - m * b /\ C * b \in Nat
      BY <1>1, <1>3
    <4> QED  BY <1>1, <1>3, <1>5, <1>6, <2>1, <4>1
   <3> HIDE DEF g
   <3>2. b * i < b * (C - m)
    <4>1. b * i <= g /\ b * i \in Int /\ b * (C - m) \in Int
      BY <1>1, <1>3, <2>1, <2>2
    <4> QED  BY <2>1, <3>1, <4>1
   <3>3. C - m \in Int
     BY <1>1, <1>3
   <3> QED  BY <1>3, <2>2, <3>2, <3>3, Ordered
  <2> DEFINE c == m + i + 1
  <2>4. c \in 1 .. C /\ c - 1 = m + i /\ c - 1 >= m /\ c >= m
    BY <1>1, <1>3, <2>2, <2>3
  <2>5. ChunkStart(r, c) = (m + i) * b + m
        /\ ChunkStart(r, c + 1) = c * b + m
    BY <1>4, <2>4
  <2>6. /\ (m + i) * b = m * b + b * i
        /\ c * b = m * b + b * i + b
        /\ b * i \in Nat
    BY <1>3, <2>2
  <2>7. ChunkStart(r, c) < p /\ p <= ChunkStart(r, c + 1)
    BY <1>3, <1>5, <1>6, <2>1, <2>2, <2>5, <2>6
  <2> QED  BY <2>4, <2>7 DEF C
 <1> QED  BY <1>5, <1>6, <1>7, <1>8

-----------------------------------------------------------------------------
(* The chunks of a rank's walk share its particles out: every place of     *)
(* every chunk is an owned particle, two places are never the same one,    *)
(* every particle has its place, and no chunk is empty or more than one    *)
(* particle longer than another.  So no two threads add to one             *)
(* acceleration, and a walk in which no chunk fails leaves none out.       *)
THEOREM ChunksShareOut ==
    ASSUME NEW r, Owned[r] \in Nat \ {0}
    PROVE  /\ \A c \in 1 .. ChunkCount(r) : \A k \in 0 .. ChunkSize(r, c) - 1 :
                 Particle(r, c, k) \in 1 .. Owned[r]
           /\ \A c, d \in 1 .. ChunkCount(r) :
                 \A k \in 0 .. ChunkSize(r, c) - 1, l \in 0 .. ChunkSize(r, d) - 1 :
                    Particle(r, c, k) = Particle(r, d, l) => c = d /\ k = l
           /\ \A p \in 1 .. Owned[r] : \E c \in 1 .. ChunkCount(r) :
                 \E k \in 0 .. ChunkSize(r, c) - 1 : Particle(r, c, k) = p
           /\ \A c, d \in 1 .. ChunkCount(r) :
                 ChunkSize(r, c) > 0 /\ ChunkSize(r, c) <= ChunkSize(r, d) + 1
 <1> DEFINE C == ChunkCount(r)
 <1>1. C \in Nat \ {0}
   BY ChunkCountType
 <1>2. ASSUME NEW c \in 1 .. C
       PROVE  /\ ChunkStart(r, c) \in Nat /\ ChunkStart(r, c + 1) \in Nat
              /\ ChunkSize(r, c) \in Nat \ {0}
              /\ ChunkStart(r, c + 1) = ChunkStart(r, c) + ChunkSize(r, c)
  <2>1. c \in 1 .. C + 1
    BY <1>1
  <2>2. ChunkStart(r, c) \in Nat
    BY <2>1, StartsAt
  <2> QED  BY <2>2, SizeOfChunk
 <1>3. ChunkStart(r, C + 1) = Owned[r]
  <2>1. C + 1 \in 1 .. C + 1 /\ (C + 1) - 1 = C
    BY <1>1
  <2> QED  BY <1>1, <2>1, StartsAt
 <1>4. ASSUME NEW c \in 1 .. C, NEW k \in 0 .. ChunkSize(r, c) - 1
       PROVE  Particle(r, c, k) \in 1 .. Owned[r]
  <2>1. c + 1 \in 1 .. C + 1 /\ C + 1 \in c + 1 .. C + 1
    BY <1>1
  <2>2. ChunkStart(r, c + 1) <= ChunkStart(r, C + 1)
    BY <2>1, StartsInOrder
  <2> QED  BY <1>2, <1>3, <2>2 DEF Particle
 <1>5. ASSUME NEW c \in 1 .. C, NEW d \in 1 .. C, c < d,
              NEW k \in 0 .. ChunkSize(r, c) - 1, NEW l \in 0 .. ChunkSize(r, d) - 1
       PROVE  Particle(r, c, k) # Particle(r, d, l)
  <2>1. c + 1 \in 1 .. C + 1 /\ d \in c + 1 .. C + 1
    BY <1>1, <1>5
  <2>2. ChunkStart(r, c + 1) <= ChunkStart(r, d)
    BY <2>1, StartsInOrder
  <2> QED  BY <1>2, <2>2 DEF Particle
 <1>6. ASSUME NEW c \in 1 .. C, NEW d \in 1 .. C,
              NEW k \in 0 .. ChunkSize(r, c) - 1, NEW l \in 0 .. ChunkSize(r, d) - 1,
              Particle(r, c, k) = Particle(r, d, l)
       PROVE  c = d /\ k = l
  <2>1. ~ (c < d) /\ ~ (d < c)
    BY <1>5, <1>6
  <2>2. c = d
    BY <2>1
  <2>3. k = l
    BY <1>2, <1>6, <2>2 DEF Particle
  <2> QED  BY <2>2, <2>3
 <1>7. ASSUME NEW p \in 1 .. Owned[r]
       PROVE  \E c \in 1 .. C : \E k \in 0 .. ChunkSize(r, c) - 1 :
                 Particle(r, c, k) = p
  <2>1. PICK c \in 1 .. C : ChunkStart(r, c) < p /\ p <= ChunkStart(r, c + 1)
    BY HeldBySome
  <2>2. p - ChunkStart(r, c) - 1 \in 0 .. ChunkSize(r, c) - 1
    BY <1>2, <2>1
  <2>3. Particle(r, c, p - ChunkStart(r, c) - 1) = p
    BY <1>2 DEF Particle
  <2> QED  BY <2>2, <2>3
 <1>8. ASSUME NEW c \in 1 .. C, NEW d \in 1 .. C
       PROVE  ChunkSize(r, c) > 0 /\ ChunkSize(r, c) <= ChunkSize(r, d) + 1
  <2> DEFINE b == Owned[r] \div C
  <2>1. ChunkSize(r, c) \in {b, b + 1} /\ ChunkSize(r, d) \in {b, b + 1}
    BY SizeOfChunk
  <2>2. b \in Nat
    BY <1>1, Division
  <2> HIDE DEF b
  <2> QED  BY <1>2, <2>1, <2>2
 <1> HIDE DEF C
 <1> QED  BY <1>4, <1>6, <1>7, <1>8 DEF C

-----------------------------------------------------------------------------
(* The steps by which the ranks stay together: local ones, which a rank    *)
(* leaves alone, and all others, which it leaves with every rank.          *)
Locals == {"materialize", "set_up", "send_spill", "receive_spill", "send_force_plane",
           "send_potential_plane", "receive_plane", "commit", "tree", "walk", "emit",
           "validate"}

Quiet == Checks \union JointSteps \union
         {"prepare", "migrate", "materialize", "set_up", "publish_layout", "ready",
          "private", "transaction", "deposit", "density_valid", "mass_conserved",
          "impulse", "impulse_conserved", "source", "axis_modes", "axis_gather",
          "send_spill", "receive_spill", "send_force_plane", "send_potential_plane",
          "receive_plane", "halo_request", "halo_response", "gradient_check",
          "gradient", "commit", "weighted_sum", "self_energy", "emit", "validate"}

Steps == Quiet \union {"tree", "walk"}

(* A tree is built to be walked, and a walk is reported.                   *)
Arranged(steps) ==
    /\ steps \in Seq(Steps)
    /\ \A i \in 1 .. Len(steps) :
          /\ steps[i] = "tree" => /\ i + 2 <= Len(steps)
                                  /\ steps[i + 1] = "walk" /\ steps[i + 2] = "complete"
          /\ steps[i] = "walk" => i + 1 <= Len(steps) /\ steps[i + 1] = "complete"

(* What is left of a call of which no rank has done more.                  *)
Path(steps) == /\ Arranged(steps)
               /\ steps # <<>>
               /\ steps[Len(steps)] \notin Locals

LEMMA QuietIsArranged ==
    ASSUME NEW steps \in Seq(Quiet)
    PROVE  Arranged(steps)
 <1>1. steps \in Seq(Steps)
   BY DEF Steps
 <1>2. "tree" \notin Quiet /\ "walk" \notin Quiet
   BY DEF Quiet, Checks, JointSteps
 <1>3. \A i \in 1 .. Len(steps) : steps[i] \in Quiet
   OBVIOUS
 <1> QED  BY <1>1, <1>2, <1>3 DEF Arranged

LEMMA ArrangedTogether ==
    ASSUME NEW a, NEW b, Arranged(a), Arranged(b)
    PROVE  Arranged(a \o b)
 <1> DEFINE c == a \o b
 <1>1. a \in Seq(Steps) /\ b \in Seq(Steps)
   BY DEF Arranged
 <1>2. /\ c \in Seq(Steps) /\ Len(c) = Len(a) + Len(b)
       /\ \A i \in 1 .. Len(c) : c[i] = IF i <= Len(a) THEN a[i] ELSE b[i - Len(a)]
       /\ Len(a) \in Nat /\ Len(b) \in Nat
   BY <1>1
 <1> HIDE DEF c
 <1>3. ASSUME NEW i \in 1 .. Len(c), c[i] = "tree"
       PROVE  i + 2 <= Len(c) /\ c[i + 1] = "walk" /\ c[i + 2] = "complete"
  <2>1. CASE i <= Len(a)
   <3>1. i + 2 <= Len(a) /\ a[i + 1] = "walk" /\ a[i + 2] = "complete"
     BY <1>2, <1>3, <2>1 DEF Arranged
   <3> QED  BY <1>2, <3>1
  <2>2. CASE i > Len(a)
   <3> DEFINE k == i - Len(a)
   <3>1. k \in 1 .. Len(b) /\ b[k] = "tree"
     BY <1>2, <1>3, <2>2
   <3>2. k + 2 <= Len(b) /\ b[k + 1] = "walk" /\ b[k + 2] = "complete"
     BY <3>1 DEF Arranged
   <3>3. /\ i + 2 <= Len(c) /\ (i + 1) - Len(a) = k + 1 /\ (i + 2) - Len(a) = k + 2
         /\ i + 1 \in 1 .. Len(c) /\ i + 2 \in 1 .. Len(c)
     BY <1>2, <2>2, <3>2
   <3> QED  BY <1>2, <2>2, <3>2, <3>3
  <2> QED  BY <1>2, <2>1, <2>2
 <1>4. ASSUME NEW i \in 1 .. Len(c), c[i] = "walk"
       PROVE  i + 1 <= Len(c) /\ c[i + 1] = "complete"
  <2>1. CASE i <= Len(a)
   <3>1. i + 1 <= Len(a) /\ a[i + 1] = "complete"
     BY <1>2, <1>4, <2>1 DEF Arranged
   <3> QED  BY <1>2, <3>1
  <2>2. CASE i > Len(a)
   <3> DEFINE k == i - Len(a)
   <3>1. k \in 1 .. Len(b) /\ b[k] = "walk"
     BY <1>2, <1>4, <2>2
   <3>2. k + 1 <= Len(b) /\ b[k + 1] = "complete"
     BY <3>1 DEF Arranged
   <3>3. /\ i + 1 <= Len(c) /\ (i + 1) - Len(a) = k + 1
         /\ i + 1 \in 1 .. Len(c)
     BY <1>2, <2>2, <3>2
   <3> QED  BY <1>2, <2>2, <3>2, <3>3
  <2> QED  BY <1>2, <2>1, <2>2
 <1> QED  BY <1>2, <1>3, <1>4 DEF Arranged, c

(* What follows on a path is one.                                          *)
LEMMA PathGoesOn ==
    ASSUME NEW steps, Path(steps), NEW k \in 1 .. Len(steps)
    PROVE  Path(SubSeq(steps, k, Len(steps)))
 <1> DEFINE rest == SubSeq(steps, k, Len(steps))
 <1>1. steps \in Seq(Steps) /\ Len(steps) \in Nat
   BY DEF Path, Arranged
 <1>2. /\ rest \in Seq(Steps) /\ Len(rest) = Len(steps) - k + 1
       /\ \A i \in 1 .. Len(rest) : rest[i] = steps[k + i - 1]
   BY <1>1
 <1> HIDE DEF rest
 <1>3. rest # <<>> /\ rest[Len(rest)] \notin Locals
   BY <1>1, <1>2 DEF Path
 <1>4. ASSUME NEW i \in 1 .. Len(rest)
       PROVE  /\ rest[i] = "tree" => /\ i + 2 <= Len(rest)
                                     /\ rest[i + 1] = "walk" /\ rest[i + 2] = "complete"
              /\ rest[i] = "walk" => i + 1 <= Len(rest) /\ rest[i + 1] = "complete"
  <2> DEFINE j == k + i - 1
  <2>1. /\ j \in 1 .. Len(steps) /\ rest[i] = steps[j]
        /\ j + 1 = k + (i + 1) - 1 /\ j + 2 = k + (i + 2) - 1
    BY <1>1, <1>2
  <2>2. /\ steps[j] = "tree" => /\ j + 2 <= Len(steps)
                                /\ steps[j + 1] = "walk" /\ steps[j + 2] = "complete"
        /\ steps[j] = "walk" => j + 1 <= Len(steps) /\ steps[j + 1] = "complete"
    BY <2>1 DEF Path, Arranged
  <2>3. /\ j + 1 <= Len(steps) => i + 1 \in 1 .. Len(rest)
        /\ j + 2 <= Len(steps) => i + 2 \in 1 .. Len(rest)
    BY <1>1, <1>2
  <2>4. /\ j + 1 <= Len(steps) => rest[i + 1] = steps[j + 1]
        /\ j + 2 <= Len(steps) => rest[i + 2] = steps[j + 2]
    BY <1>2, <2>1, <2>3
  <2>5. /\ j + 1 <= Len(steps) => i + 1 <= Len(rest)
        /\ j + 2 <= Len(steps) => i + 2 <= Len(rest)
    BY <1>1, <1>2
  <2> HIDE DEF j
  <2>6. CASE rest[i] = "tree"
    BY <2>1, <2>2, <2>4, <2>5, <2>6
  <2>7. CASE rest[i] = "walk"
    BY <2>1, <2>2, <2>4, <2>5, <2>7
  <2> QED  BY <2>6, <2>7
 <1>5. Arranged(rest)
   BY <1>2, <1>4 DEF Arranged
 <1> QED  BY <1>3, <1>5 DEF Path, rest

LEMMA PathEnds ==
    ASSUME NEW steps, Arranged(steps), NEW s \in Quiet \ Locals
    PROVE  Path(steps \o <<s>>)
 <1>1. <<s>> \in Seq(Quiet)
   OBVIOUS
 <1>2. Arranged(steps \o <<s>>)
   BY <1>1, QuietIsArranged, ArrangedTogether
 <1>3. steps \in Seq(Steps) /\ s \in Steps
   BY DEF Arranged, Steps
 <1>4. /\ steps \o <<s>> # <<>> /\ (steps \o <<s>>)[Len(steps \o <<s>>)] = s
  <2>1. Len(steps \o <<s>>) = Len(steps) + 1 /\ Len(steps) \in Nat
    BY <1>3
  <2>2. (steps \o <<s>>)[Len(steps) + 1] = s
    BY <1>3
  <2> QED  BY <2>1, <2>2
 <1> QED  BY <1>2, <1>4 DEF Path

-----------------------------------------------------------------------------
(* Every call is a path.                                                   *)
LEMMA QuietTogether ==
    ASSUME NEW a \in Seq(Quiet), NEW b \in Seq(Quiet)
    PROVE  a \o b \in Seq(Quiet)
  OBVIOUS

LEMMA QuietPieces ==
    ASSUME NEW r
    PROVE  /\ Lookup(r) \in Seq(Quiet)
           /\ Creation(r) \in Seq(Quiet)
           /\ Spill \in Seq(Quiet)
           /\ Ghost("force") \in Seq(Quiet) /\ Ghost("potential") \in Seq(Quiet)
           /\ HaloSteps \in Seq(Quiet)
           /\ LayoutQuery \in Seq(Quiet)
           /\ Plans \in Seq(Quiet) /\ PlanRecord \in Seq(Quiet)
           /\ Report \in Seq(Quiet) /\ Balance \in Seq(Quiet)
 <1>1. Spill \in Seq(Quiet)
  <2>1. <<>> \in Seq(Quiet)
    OBVIOUS
  <2>2. <<"spill_mass", "send_spill", "receive_spill", "spilled_mass">> \in Seq(Quiet)
    BY DEF Quiet, Checks
  <2> QED  BY <2>1, <2>2 DEF Spill
 <1>2. Ghost("force") \in Seq(Quiet) /\ Ghost("potential") \in Seq(Quiet)
  <2>1. "send_force_plane" \in Quiet /\ "send_potential_plane" \in Quiet
        /\ "receive_plane" \in Quiet
    BY DEF Quiet
  <2> QED  BY <2>1 DEF Ghost
 <1>3. HaloSteps \in Seq(Quiet)
  <2>1. /\ "halo_request" \in Quiet /\ "halo_counts" \in Quiet /\ "halo_buffers" \in Quiet
        /\ "halo_planes" \in Quiet /\ "halo_response" \in Quiet /\ "halo_values" \in Quiet
        /\ "halo_unpack" \in Quiet
    BY DEF Quiet, Checks, JointSteps
  <2> QED  BY <2>1 DEF HaloSteps
 <1>4. Report \in Seq(Quiet) /\ Balance \in Seq(Quiet)
  <2>1. /\ "report" \in Quiet /\ "report_metrics" \in Quiet /\ "report_storage" \in Quiet
        /\ "report_gather" \in Quiet /\ "emit" \in Quiet /\ "balance" \in Quiet
    BY DEF Quiet, Checks
  <2> QED  BY <2>1 DEF Report, Balance
 <1>5. LayoutQuery \in Seq(Quiet)
  <2>1. /\ "agree_grid" \in Quiet /\ "planner" \in Quiet /\ "slab" \in Quiet
        /\ "slab_valid" \in Quiet /\ "gather_storage" \in Quiet /\ "construct" \in Quiet
    BY DEF Quiet, Checks
  <2>2. SlabQuery \in Seq(Quiet) /\ <<"gather_storage", "construct">> \in Seq(Quiet)
    BY <2>1 DEF SlabQuery
  <2> QED  BY <2>2, QuietTogether DEF LayoutQuery
 <1>6. Lookup(r) \in Seq(Quiet)
  <2>1. "prequery" \in Quiet /\ "publish_layout" \in Quiet
    BY DEF Quiet, Checks
  <2>2. <<"prequery">> \in Seq(Quiet) /\ <<"publish_layout">> \in Seq(Quiet)
        /\ <<>> \in Seq(Quiet)
    BY <2>1
  <2>3. <<"prequery">> \o LayoutQuery \o <<"publish_layout">> \in Seq(Quiet)
    BY <1>5, <2>2, QuietTogether
  <2> QED  BY <2>2, <2>3 DEF Lookup
 <1>7. Creation(r) \in Seq(Quiet) /\ Plans \in Seq(Quiet) /\ PlanRecord \in Seq(Quiet)
  <2>1. /\ "parameters" \in Quiet /\ "agree_parameters" \in Quiet /\ "layout" \in Quiet
        /\ "allocate" \in Quiet /\ "planner_again" \in Quiet /\ "plan_storage" \in Quiet
        /\ "forward_plan" \in Quiet /\ "inverse_plan" \in Quiet
        /\ "plan_identity" \in Quiet /\ "plan_record" \in Quiet /\ "post_plan" \in Quiet
    BY DEF Quiet, Checks
  <2>2. /\ <<"parameters", "agree_parameters">> \in Seq(Quiet)
        /\ <<"layout", "allocate">> \in Seq(Quiet)
        /\ Plans \in Seq(Quiet) /\ PlanRecord \in Seq(Quiet)
        /\ <<"post_plan">> \in Seq(Quiet) /\ <<>> \in Seq(Quiet)
    BY <2>1 DEF Plans, PlanRecord
  <2> DEFINE a == <<"parameters", "agree_parameters">> \o Lookup(r)
             b == a \o <<"layout", "allocate">>
             c == b \o Plans
             d == c \o PlanRecord
             e == d \o <<"post_plan">>
  <2>3. a \in Seq(Quiet)
    BY <1>6, <2>2, QuietTogether
  <2>4. b \in Seq(Quiet)
    BY <2>2, <2>3, QuietTogether
  <2>5. c \in Seq(Quiet)
    BY <2>2, <2>4, QuietTogether
  <2>6. d \in Seq(Quiet)
    BY <2>2, <2>5, QuietTogether
  <2>7. e \in Seq(Quiet)
    BY <2>2, <2>6, QuietTogether
  <2>8. Creation(r) = IF mem[r].workspace THEN <<>> ELSE e
    BY DEF Creation
  <2> HIDE DEF e
  <2> QED  BY <2>2, <2>7, <2>8
 <1> QED  BY <1>1, <1>2, <1>3, <1>4, <1>5, <1>6, <1>7

LEMMA EnergyIsQuiet ==
    ASSUME NEW r
    PROVE  Energy(r) \in Seq(Quiet)
 <1>1. /\ "origin" \in Quiet /\ "impulse" \in Quiet /\ "impulse_conserved" \in Quiet
       /\ "normalize" \in Quiet /\ "source" \in Quiet /\ "forward" \in Quiet
       /\ "inverse" \in Quiet /\ "potential_finite" \in Quiet /\ "lag_kernel" \in Quiet
       /\ "weighted_sum" \in Quiet /\ "rank_sum" \in Quiet /\ "self_energy" \in Quiet
   BY DEF Quiet, Checks, JointSteps
 <1>2. Kernel(r) \in Seq(Quiet)
  <2> DEFINE a == <<"origin", "impulse">>
             b == <<"impulse_conserved", "normalize", "source", "forward",
                    "inverse", "potential_finite", "lag_kernel">>
  <2>1. a \in Seq(Quiet)
    BY <1>1
  <2>2. b \in Seq(Quiet)
    BY <1>1
  <2>3. Kernel(r) = IF mem[r].kernel THEN <<>> ELSE (a \o Spill) \o b
    BY DEF Kernel
  <2> HIDE DEF a, b
  <2>4. Spill \in Seq(Quiet)
    BY QuietPieces
  <2>5. a \o Spill \in Seq(Quiet)
    BY <2>1, <2>4, QuietTogether
  <2>6. (a \o Spill) \o b \in Seq(Quiet)
    BY <2>2, <2>5, QuietTogether
  <2>7. <<>> \in Seq(Quiet)
    OBVIOUS
  <2> QED  BY <2>3, <2>6, <2>7
 <1> DEFINE a == IF Tree THEN <<"inverse">> ELSE <<>>
            b == a \o <<"potential_finite">>
            c == b \o Ghost("potential")
            d == c \o <<"weighted_sum", "rank_sum">>
            e == d \o Kernel(r)
            f == e \o <<"self_energy">>
 <1>3. /\ <<"inverse">> \in Seq(Quiet) /\ <<>> \in Seq(Quiet)
       /\ <<"potential_finite">> \in Seq(Quiet) /\ <<"weighted_sum", "rank_sum">> \in Seq(Quiet)
       /\ <<"self_energy">> \in Seq(Quiet) /\ Ghost("potential") \in Seq(Quiet)
   BY <1>1, QuietPieces
 <1>4. a \in Seq(Quiet)
   BY <1>3
 <1>5. b \in Seq(Quiet)
   BY <1>3, <1>4, QuietTogether
 <1>6. c \in Seq(Quiet)
   BY <1>3, <1>5, QuietTogether
 <1>7. d \in Seq(Quiet)
   BY <1>3, <1>6, QuietTogether
 <1>8. e \in Seq(Quiet)
   BY <1>2, <1>7, QuietTogether
 <1>9. f \in Seq(Quiet)
   BY <1>3, <1>8, QuietTogether
 <1> QED  BY <1>9 DEF Energy

LEMMA MeshIsQuiet ==
    ASSUME NEW r
    PROVE  MeshSolve(r) \in Seq(Quiet)
 <1>1. /\ "sizes" \in Quiet /\ "input_mass" \in Quiet /\ "deposit" \in Quiet
       /\ "density_valid" \in Quiet /\ "mass_conserved" \in Quiet
       /\ "normalize" \in Quiet /\ "source" \in Quiet /\ "forward" \in Quiet
       /\ "modes_finite" \in Quiet /\ "axis_modes" \in Quiet /\ "axis_inverse" \in Quiet
       /\ "axis_prepared" \in Quiet /\ "axis_gather" \in Quiet /\ "axis_finite" \in Quiet
       /\ "inverse" \in Quiet /\ "potential_finite" \in Quiet /\ "halo_plan" \in Quiet
       /\ "gradient_check" \in Quiet /\ "gradient" \in Quiet
   BY DEF Quiet, Checks, JointSteps
 <1>2. /\ <<"sizes", "input_mass", "deposit">> \in Seq(Quiet)
       /\ <<"density_valid", "mass_conserved", "normalize", "source",
            "forward", "modes_finite">> \in Seq(Quiet)
       /\ <<"axis_modes", "axis_inverse">> \in Seq(Quiet)
       /\ <<"axis_prepared">> \in Seq(Quiet)
       /\ <<"axis_gather", "axis_finite">> \in Seq(Quiet)
       /\ <<"inverse", "potential_finite">> \in Seq(Quiet)
       /\ <<"halo_plan">> \in Seq(Quiet) /\ <<"gradient_check">> \in Seq(Quiet)
       /\ <<"gradient">> \in Seq(Quiet) /\ <<>> \in Seq(Quiet)
   BY <1>1
 <1>3. Axis \in Seq(Quiet)
  <2>1. <<"axis_prepared">> \o Ghost("force") \in Seq(Quiet)
    BY <1>2, QuietPieces, QuietTogether
  <2>2. Interpolation \in Seq(Quiet)
    BY <1>2, <2>1, QuietTogether DEF Interpolation
  <2> QED  BY <1>2, <2>2, QuietTogether DEF Axis
 <1>4. GradientSteps \in Seq(Quiet)
  <2> DEFINE h == <<"halo_plan">> \o HaloSteps
             i == h \o <<"gradient_check">>
             j == IF Size = 1 THEN <<>> ELSE i
             k == <<"inverse", "potential_finite">> \o j
  <2>1. h \in Seq(Quiet)
    BY <1>2, QuietPieces, QuietTogether
  <2>2. i \in Seq(Quiet)
    BY <1>2, <2>1, QuietTogether
  <2>3. j \in Seq(Quiet)
    BY <1>2, <2>2
  <2>4. k \in Seq(Quiet)
    BY <1>2, <2>3, QuietTogether
  <2>5. k \o <<"gradient">> \in Seq(Quiet)
    BY <1>2, <2>4, QuietTogether
  <2> QED  BY <2>5 DEF GradientSteps
 <1>5. Axis \o Axis \o Axis \in Seq(Quiet)
   BY <1>3, QuietTogether
 <1> DEFINE a == <<"sizes", "input_mass", "deposit">> \o Spill
            b == a \o <<"density_valid", "mass_conserved", "normalize", "source",
                        "forward", "modes_finite">>
            c == IF Tree THEN Axis \o Axis \o Axis ELSE GradientSteps
            d == b \o c
            e == IF Tree /\ setup.collect THEN Energy(r) ELSE <<>>
 <1>6. a \in Seq(Quiet)
   BY <1>2, QuietPieces, QuietTogether
 <1>7. b \in Seq(Quiet)
   BY <1>2, <1>6, QuietTogether
 <1>8. c \in Seq(Quiet)
   BY <1>4, <1>5
 <1>9. d \in Seq(Quiet)
   BY <1>7, <1>8, QuietTogether
 <1>10. e \in Seq(Quiet)
   BY <1>2, EnergyIsQuiet
 <1>11. d \o e \in Seq(Quiet)
   BY <1>9, <1>10, QuietTogether
 <1> QED  BY <1>11 DEF MeshSolve

LEMMA SolveIsPath ==
    ASSUME NEW r
    PROVE  Path(Solve(r))
 <1>1. /\ "prepare" \in Quiet /\ "migrate" \in Quiet /\ "materialize" \in Quiet
       /\ "set_up" \in Quiet /\ "ready" \in Quiet /\ "private" \in Quiet
       /\ "validate" \in Quiet /\ "preflight" \in Quiet /\ "transaction" \in Quiet
       /\ "commit_check" \in Quiet /\ "commit" \in Quiet /\ "callback" \in Quiet
       /\ "complete" \in Quiet
   BY DEF Quiet, Checks, JointSteps
 <1>2. /\ <<"prepare", "migrate", "materialize">> \in Seq(Quiet)
       /\ <<"set_up">> \in Seq(Quiet) /\ <<"ready", "private">> \in Seq(Quiet)
       /\ <<"validate">> \in Seq(Quiet)
       /\ <<"preflight", "transaction">> \in Seq(Quiet)
       /\ <<"private">> \in Seq(Quiet)
       /\ <<"commit_check", "commit">> \in Seq(Quiet)
   BY <1>1
 <1> DEFINE w == <<"tree", "walk", "complete">>
 <1>3. Arranged(w)
  <2>1. w \in Seq(Steps)
   <3>1. "tree" \in Steps /\ "walk" \in Steps /\ "complete" \in Steps
     BY <1>1 DEF Steps
   <3> QED  BY <3>1
  <2>2. Len(w) = 3 /\ w[1] = "tree" /\ w[2] = "walk" /\ w[3] = "complete"
    OBVIOUS
  <2> HIDE DEF w
  <2>3. ASSUME NEW i \in 1 .. Len(w)
        PROVE  /\ w[i] = "tree" => i + 2 <= Len(w) /\ w[i + 1] = "walk" /\ w[i + 2] = "complete"
               /\ w[i] = "walk" => i + 1 <= Len(w) /\ w[i + 1] = "complete"
   <3>1. i = 1 \/ i = 2 \/ i = 3
     BY <2>2
   <3> QED  BY <2>2, <3>1
  <2> QED  BY <2>1, <2>3 DEF Arranged
 <1> HIDE DEF w
 <1> DEFINE a1 == <<"set_up">> \o Creation(r)
            a2 == a1 \o <<"ready", "private">>
            a3 == a2 \o MeshSolve(r)
            a4 == a3 \o w
            a5 == a4 \o Report
            a6 == a5 \o <<"validate">>
            b1 == <<"preflight", "transaction">> \o Creation(r)
            b2 == b1 \o <<"private">>
            b3 == b2 \o MeshSolve(r)
            b4 == b3 \o <<"commit_check", "commit">>
            c1 == IF Tree THEN a6 ELSE b4
            c2 == <<"prepare", "migrate", "materialize">> \o c1
            c3 == c2 \o Balance
 <1>4. Arranged(a6)
  <2>1. a1 \in Seq(Quiet)
    BY <1>2, QuietPieces, QuietTogether
  <2>2. a2 \in Seq(Quiet)
    BY <1>2, <2>1, QuietTogether
  <2>3. a3 \in Seq(Quiet)
    BY <2>2, MeshIsQuiet, QuietTogether
  <2> HIDE DEF a3
  <2>4. Arranged(a4)
    BY <1>3, <2>3, QuietIsArranged, ArrangedTogether
  <2> HIDE DEF a4
  <2>5. Arranged(a5)
    BY <2>4, QuietPieces, QuietIsArranged, ArrangedTogether
  <2> HIDE DEF a5
  <2> QED  BY <1>2, <2>5, QuietIsArranged, ArrangedTogether
 <1>5. Arranged(b4)
  <2>1. b1 \in Seq(Quiet)
    BY <1>2, QuietPieces, QuietTogether
  <2>2. b2 \in Seq(Quiet)
    BY <1>2, <2>1, QuietTogether
  <2>3. b3 \in Seq(Quiet)
    BY <2>2, MeshIsQuiet, QuietTogether
  <2>4. b4 \in Seq(Quiet)
    BY <1>2, <2>3, QuietTogether
  <2> QED  BY <2>4, QuietIsArranged
 <1>6. Solve(r) = c3 \o <<"callback">>
   BY DEF Solve, w
 <1> HIDE DEF a6, b4
 <1>7. Arranged(c1)
   BY <1>4, <1>5
 <1> HIDE DEF c1
 <1>8. Arranged(c2)
   BY <1>2, <1>7, QuietIsArranged, ArrangedTogether
 <1> HIDE DEF c2
 <1>9. Arranged(c3)
   BY <1>8, QuietPieces, QuietIsArranged, ArrangedTogether
 <1> HIDE DEF c3
 <1>10. "callback" \in Quiet \ Locals
   BY <1>1 DEF Locals
 <1> QED  BY <1>6, <1>9, <1>10, PathEnds

LEMMA MeasureIsPath ==
    ASSUME NEW r
    PROVE  Path(Measure(r))
 <1>1. "measure" \in Quiet /\ "measure_input" \in Quiet /\ "self_direction" \in Quiet
   BY DEF Quiet, Checks
 <1> DEFINE a == <<"measure", "measure_input">> \o Energy(r)
 <1>2. <<"measure", "measure_input">> \in Seq(Quiet)
   BY <1>1
 <1>3. a \in Seq(Quiet)
   BY <1>2, EnergyIsQuiet, QuietTogether
 <1>4. Measure(r) = a \o <<"self_direction">>
   BY DEF Measure
 <1> HIDE DEF a
 <1>5. "self_direction" \in Quiet \ Locals
   BY <1>1 DEF Locals
 <1> QED  BY <1>3, <1>4, <1>5, QuietIsArranged, PathEnds

-----------------------------------------------------------------------------
(* What a step of a rank is to the others.                                 *)
Keeping == {"ready", "private"}
Agreed == Locals \union Keeping \union {"publish_layout"}

PipelineTypes ==
    /\ setup \in Setups
    /\ calls \in [Ranks -> Seq({"solve", "measure"})]
    /\ DOMAIN todo = Ranks /\ DOMAIN ended = Ranks /\ DOMAIN mem = Ranks
    /\ waiting \in [Ranks -> BOOLEAN] /\ error \in [Ranks -> BOOLEAN]
    /\ cached \in [Ranks -> BOOLEAN]
    /\ \A r \in Ranks : {"workspace", "kernel"} \subseteq DOMAIN mem[r]

SameProgram == setup' = setup /\ calls' = calls /\ ended' = ended

SameSolverOf(q) == /\ {"workspace", "kernel"} \subseteq DOMAIN mem'[q]
                   /\ mem'[q].workspace = mem[q].workspace
                   /\ mem'[q].kernel = mem[q].kernel
SameSolver == DOMAIN mem' = DOMAIN mem /\ \A q \in Ranks : SameSolverOf(q)

Standing(r) == ~ waiting[r] /\ todo[r] # <<>>

(* It enters the collective of its step.                                   *)
EntersAlike(r) ==
    /\ Standing(r) /\ Head(todo[r]) \notin Locals
    /\ SameProgram
    /\ Enter(r, TRUE) \/ Enter(r, FALSE)

Enters(r) ==
    /\ EntersAlike(r)
    /\ \/ Head(todo[r]) \notin Agreed /\ cached' = cached /\ SameSolver
       \/ /\ Head(todo[r]) = "publish_layout" /\ SameSolver
          /\ \/ Enter(r, FALSE) /\ cached' = [cached EXCEPT ![r] = TRUE]
             \/ Enter(r, TRUE) /\ cached' = cached
       \/ /\ Head(todo[r]) \in Keeping /\ cached' = cached /\ Enter(r, FALSE)
          /\ DOMAIN mem' = DOMAIN mem
          /\ \A q \in Ranks \ {r} : SameSolverOf(q)
          /\ {"workspace", "kernel"} \subseteq DOMAIN mem'[r]
          /\ mem'[r].workspace = TRUE /\ mem'[r].kernel = mem[r].kernel

(* It goes on alone, throws alone, or does not move.                       *)
Continues(r) ==
    /\ Standing(r) /\ Head(todo[r]) \in Locals
    /\ SameProgram /\ cached' = cached /\ SameSolver
    /\ todo' = [todo EXCEPT ![r] = Tail(@)] /\ waiting' = waiting /\ error' = error

Throws(r) ==
    /\ Standing(r) /\ Head(todo[r]) \in {"tree", "walk"}
    /\ SameProgram /\ cached' = cached /\ SameSolver
    /\ Throw(r)

Stands == /\ SameProgram /\ cached' = cached /\ mem' = mem
          /\ todo' = todo /\ waiting' = waiting /\ error' = error

Moves(r) == Enters(r) \/ Continues(r) \/ Throws(r) \/ Stands

LEMMA Untouched ==
    ASSUME PipelineTypes, NEW r \in Ranks, NEW buffers, Keep(r, buffers),
           "workspace" \notin DOMAIN buffers, "kernel" \notin DOMAIN buffers
    PROVE  SameSolver
 <1>1. DOMAIN mem' = DOMAIN mem /\ r \in DOMAIN mem
   BY DEF Keep, PipelineTypes
 <1>2. ASSUME NEW q \in Ranks, q # r
       PROVE  SameSolverOf(q)
  <2>1. mem'[q] = mem[q]
    BY <1>2 DEF Keep, PipelineTypes
  <2> QED  BY <1>2, <2>1 DEF SameSolverOf, PipelineTypes
 <1>3. SameSolverOf(r)
  <2>1. mem'[r] = Over(buffers, mem[r])
    BY <1>1 DEF Keep
  <2>2. "workspace" \in DOMAIN mem[r] /\ "kernel" \in DOMAIN mem[r]
    BY DEF PipelineTypes
  <2> QED  BY <2>1, <2>2 DEF Over, SameSolverOf
 <1> QED  BY <1>1, <1>2, <1>3 DEF SameSolver

LEMMA MemoryStays ==
    ASSUME PipelineTypes, mem' = mem
    PROVE  SameSolver
  BY DEF SameSolver, SameSolverOf, PipelineTypes

LEMMA StageEnters ==
    ASSUME PipelineTypes, NEW r \in Ranks, NEW s, NEW buffers, Stage(r, s, buffers),
           s \notin Agreed,
           "workspace" \notin DOMAIN buffers, "kernel" \notin DOMAIN buffers
    PROVE  Moves(r)
 <1>1. DOMAIN Spoil(buffers) = DOMAIN buffers
   BY DEF Spoil
 <1>2. SameSolver
  <2>1. Keep(r, buffers) \/ Keep(r, Spoil(buffers))
    BY DEF Stage
  <2>2. CASE Keep(r, buffers)
    BY <2>2, Untouched
  <2>3. CASE Keep(r, Spoil(buffers))
   <3> DEFINE spoiled == Spoil(buffers)
   <3>1. "workspace" \notin DOMAIN spoiled /\ "kernel" \notin DOMAIN spoiled
     BY <1>1
   <3>2. Keep(r, spoiled)
     BY <2>3
   <3> HIDE DEF spoiled
   <3> QED  BY <3>1, <3>2, Untouched
  <2> QED  BY <2>1, <2>2, <2>3
 <1>3. Standing(r) /\ Head(todo[r]) = s
   BY DEF Stage, At, Standing
 <1>4. SameProgram /\ cached' = cached
   BY DEF Stage, SameProgram
 <1>5. Enter(r, TRUE) \/ Enter(r, FALSE)
   BY DEF Stage
 <1>6. s \notin Locals
   BY DEF Agreed
 <1> QED  BY <1>2, <1>3, <1>4, <1>5, <1>6 DEF Moves, Enters, EntersAlike

LEMMA ExamineEnters ==
    ASSUME PipelineTypes, NEW r \in Ranks, NEW s, NEW buffers, NEW good,
           Examine(r, s, good, buffers),
           s \notin Agreed,
           "workspace" \notin DOMAIN buffers, "kernel" \notin DOMAIN buffers
    PROVE  Moves(r)
 <1>1. SameSolver
   BY Untouched DEF Examine
 <1>2. Standing(r) /\ Head(todo[r]) = s
   BY DEF Examine, At, Standing
 <1>3. SameProgram /\ cached' = cached
   BY DEF Examine, SameProgram
 <1>4. Enter(r, TRUE) \/ Enter(r, FALSE)
  <2>1. Enter(r, ~ good)
    BY DEF Examine
  <2>2. CASE good
    BY <2>1, <2>2 DEF Enter
  <2>3. CASE ~ good
    BY <2>1, <2>3 DEF Enter
  <2> QED  BY <2>2, <2>3
 <1>5. s \notin Locals
   BY DEF Agreed
 <1> QED  BY <1>1, <1>2, <1>3, <1>4, <1>5 DEF Moves, Enters, EntersAlike

LEMMA CheckEnters ==
    ASSUME PipelineTypes, NEW r \in Ranks, NEW s, At(r, s), s \notin Agreed,
           Enter(r, TRUE) \/ Enter(r, FALSE),
           SameProgram, cached' = cached, mem' = mem
    PROVE  Moves(r)
 <1>1. SameSolver
   BY MemoryStays
 <1>2. Standing(r) /\ Head(todo[r]) = s
   BY DEF At, Standing
 <1>3. s \notin Locals
   BY DEF Agreed
 <1> QED  BY <1>1, <1>2, <1>3 DEF Moves, Enters, EntersAlike

LEMMA LocalContinues ==
    ASSUME PipelineTypes, NEW r \in Ranks, NEW s \in Locals, At(r, s), Continue(r),
           SameProgram, cached' = cached, SameSolver
    PROVE  Moves(r)
 <1>1. Standing(r) /\ Head(todo[r]) \in Locals
   BY DEF At, Standing
 <1>2. todo' = [todo EXCEPT ![r] = Tail(@)] /\ waiting' = waiting /\ error' = error
   BY DEF Continue
 <1> QED  BY <1>1, <1>2 DEF Moves, Continues

LEMMA ProcessSteps ==
    ASSUME PipelineTypes, Unprotected = {}, NEW r \in Ranks,
           \/ Check(r) \/ Arrive(r) \/ Prepare(r) \/ Migrate(r)
           \/ Materialize(r) \/ SetUp(r) \/ PublishLayout(r) \/ KeepWorkspace(r)
    PROVE  Moves(r)
 <1>1. CASE Check(r)
  <2>1. PICK s \in Checks : At(r, s)
    BY <1>1 DEF Check
  <2>2. Enter(r, TRUE) \/ Enter(r, FALSE)
    BY <1>1 DEF Check
  <2>3. SameProgram /\ cached' = cached /\ mem' = mem
    BY <1>1 DEF Check, SameProgram
  <2>4. s \notin Agreed
    BY DEF Checks, Agreed, Locals, Keeping
  <2> QED  BY <2>1, <2>2, <2>3, <2>4, CheckEnters
 <1>2. CASE Arrive(r)
  <2>1. PICK s \in {"axis_inverse", "halo_planes", "halo_values", "lag_kernel"} : At(r, s)
    BY <1>2 DEF Arrive
  <2>2. Enter(r, TRUE) \/ Enter(r, FALSE)
    BY <1>2 DEF Arrive
  <2>3. SameProgram /\ cached' = cached /\ mem' = mem
    BY <1>2 DEF Arrive, SameProgram
  <2>4. s \notin Agreed
    BY DEF Agreed, Locals, Keeping
  <2> QED  BY <2>1, <2>2, <2>3, <2>4, CheckEnters
 <1>3. CASE Prepare(r)
  <2>1. At(r, "prepare") /\ (Enter(r, TRUE) \/ Enter(r, FALSE))
    BY <1>3 DEF Prepare
  <2>2. SameProgram /\ cached' = cached /\ mem' = mem
    BY <1>3 DEF Prepare, SameProgram
  <2>3. "prepare" \notin Agreed
    BY DEF Agreed, Locals, Keeping
  <2> QED  BY <2>1, <2>2, <2>3, CheckEnters
 <1>4. CASE Migrate(r)
  <2>1. At(r, "migrate") /\ (Enter(r, TRUE) \/ Enter(r, FALSE))
    BY <1>4 DEF Migrate
  <2>2. SameProgram /\ cached' = cached /\ mem' = mem
    BY <1>4 DEF Migrate, SameProgram
  <2>3. "migrate" \notin Agreed
    BY DEF Agreed, Locals, Keeping
  <2> QED  BY <2>1, <2>2, <2>3, CheckEnters
 <1>5. CASE Materialize(r)
  <2>1. At(r, "materialize") /\ Continue(r)
    BY <1>5 DEF Materialize
  <2>2. SameProgram /\ cached' = cached /\ SameSolver
    BY <1>5, MemoryStays DEF Materialize, SameProgram
  <2>3. "materialize" \in Locals
    BY DEF Locals
  <2> QED  BY <2>1, <2>2, <2>3, LocalContinues
 <1>6. CASE SetUp(r)
  <2>1. At(r, "set_up") /\ Continue(r)
    BY <1>6 DEF SetUp
  <2>2. SameProgram /\ cached' = cached /\ SameSolver
    BY <1>6, MemoryStays DEF SetUp, SameProgram
  <2>3. "set_up" \in Locals
    BY DEF Locals
  <2> QED  BY <2>1, <2>2, <2>3, LocalContinues
 <1>7. CASE PublishLayout(r)
  <2>1. Standing(r) /\ Head(todo[r]) = "publish_layout"
    BY <1>7 DEF PublishLayout, At, Standing
  <2>2. SameProgram /\ SameSolver
    BY <1>7, MemoryStays DEF PublishLayout, SameProgram
  <2>3. \/ Enter(r, FALSE) /\ cached' = [cached EXCEPT ![r] = TRUE]
        \/ Enter(r, TRUE) /\ cached' = cached
    BY <1>7 DEF PublishLayout
  <2>4. "publish_layout" \notin Locals
    BY DEF Locals
  <2> QED  BY <2>1, <2>2, <2>3, <2>4 DEF Moves, Enters, EntersAlike
 <1>8. CASE KeepWorkspace(r)
  <2> DEFINE kept == [workspace |-> TRUE]
  <2>1. PICK s \in Keeping : Examine(r, s, TRUE, kept)
    BY <1>8 DEF KeepWorkspace, Keeping
  <2>2. DOMAIN kept = {"workspace"} /\ kept["workspace"] = TRUE
    OBVIOUS
  <2> HIDE DEF kept
  <2>3. Standing(r) /\ Head(todo[r]) = s
    BY <2>1 DEF Examine, At, Standing
  <2>4. SameProgram /\ cached' = cached /\ Enter(r, FALSE)
    BY <2>1 DEF Examine, SameProgram
  <2>5. mem' = [mem EXCEPT ![r] = Over(kept, mem[r])]
    BY <2>1 DEF Examine, Keep
  <2>6. DOMAIN mem' = DOMAIN mem
    BY <2>5
  <2>7. ASSUME NEW q \in Ranks \ {r}
        PROVE  SameSolverOf(q)
   <3>1. mem'[q] = mem[q]
     BY <2>5 DEF PipelineTypes
   <3> QED  BY <3>1 DEF SameSolverOf, PipelineTypes
  <2>8. /\ {"workspace", "kernel"} \subseteq DOMAIN mem'[r]
        /\ mem'[r].workspace = TRUE /\ mem'[r].kernel = mem[r].kernel
   <3>1. mem'[r] = Over(kept, mem[r])
     BY <2>5 DEF PipelineTypes
   <3>2. "workspace" \in DOMAIN mem[r] /\ "kernel" \in DOMAIN mem[r]
     BY DEF PipelineTypes
   <3> QED  BY <2>2, <3>1, <3>2 DEF Over
  <2>9. s \notin Locals
    BY DEF Keeping, Locals
  <2> QED  BY <2>3, <2>4, <2>6, <2>7, <2>8, <2>9 DEF Moves, Enters, EntersAlike
 <1> QED  BY <1>1, <1>2, <1>3, <1>4, <1>5, <1>6, <1>7, <1>8

LEMMA MeshSteps ==
    ASSUME PipelineTypes, NEW r \in Ranks, MeshStep(r)
    PROVE  Moves(r)
 <1>0. /\ "transaction" \notin Agreed /\ "deposit" \notin Agreed /\ "impulse" \notin Agreed
       /\ "density_valid" \notin Agreed /\ "mass_conserved" \notin Agreed
       /\ "impulse_conserved" \notin Agreed /\ "source" \notin Agreed
       /\ "forward" \notin Agreed /\ "axis_modes" \notin Agreed
       /\ "axis_gather" \notin Agreed /\ "halo_request" \notin Agreed
       /\ "halo_response" \notin Agreed /\ "gradient_check" \notin Agreed
       /\ "gradient" \notin Agreed /\ "weighted_sum" \notin Agreed
       /\ "self_energy" \notin Agreed
   BY DEF Agreed, Locals, Keeping
 <1>1. CASE Transaction(r)
  <2> DEFINE b == [built |-> <<>>]
  <2>1. Stage(r, "transaction", b)
    BY <1>1 DEF Transaction
  <2>2. DOMAIN b = {"built"}
    OBVIOUS
  <2> HIDE DEF b
  <2> QED  BY <1>0, <2>1, <2>2, StageEnters
 <1>2. CASE DepositMass(r)
  <2> DEFINE b == [density |-> <<"mass", "own", solve[r]>>,
                   out |-> <<"mass", "spill", solve[r], r>>, axis |-> 0]
  <2>1. Stage(r, "deposit", b)
    BY <1>2 DEF DepositMass, Deposit
  <2>2. DOMAIN b = {"density", "out", "axis"}
    OBVIOUS
  <2> HIDE DEF b
  <2> QED  BY <1>0, <2>1, <2>2, StageEnters
 <1>3. CASE DepositImpulse(r)
  <2> DEFINE b == [density |-> <<"impulse", "own", solve[r]>>,
                   out |-> <<"impulse", "spill", solve[r], r>>, axis |-> 0]
  <2>1. Stage(r, "impulse", b)
    BY <1>3 DEF DepositImpulse, Deposit
  <2>2. DOMAIN b = {"density", "out", "axis"}
    OBVIOUS
  <2> HIDE DEF b
  <2> QED  BY <1>0, <2>1, <2>2, StageEnters
 <1>4. CASE SendSpill(r)
  <2>1. At(r, "send_spill") /\ Continue(r)
    BY <1>4 DEF SendSpill
  <2>2. SameProgram /\ cached' = cached /\ SameSolver
    BY <1>4, MemoryStays DEF SendSpill, SameProgram
  <2>3. "send_spill" \in Locals
    BY DEF Locals
  <2> QED  BY <2>1, <2>2, <2>3, LocalContinues
 <1>5. CASE ReceiveSpill(r)
  <2> DEFINE b == [density |-> IF /\ Is(mem[r].density, "own")
                                  /\ Head(spills[r]) = Append(As(mem[r].density, "spill"), Left(r))
                               THEN As(mem[r].density, "whole") ELSE Torn]
  <2>1. Keep(r, b)
    BY <1>5 DEF ReceiveSpill
  <2>2. DOMAIN b = {"density"}
    OBVIOUS
  <2> HIDE DEF b
  <2>3. SameSolver
    BY <2>1, <2>2, Untouched
  <2>4. At(r, "receive_spill") /\ Continue(r) /\ SameProgram /\ cached' = cached
    BY <1>5 DEF ReceiveSpill, SameProgram
  <2>5. "receive_spill" \in Locals
    BY DEF Locals
  <2> QED  BY <2>3, <2>4, <2>5, LocalContinues
 <1>6. CASE DensityValid(r)
  <2> DEFINE b == [ready |-> TRUE]
  <2>1. Examine(r, "density_valid", TRUE, b)
    BY <1>6 DEF DensityValid
  <2>2. DOMAIN b = {"ready"}
    OBVIOUS
  <2> HIDE DEF b
  <2> QED  BY <1>0, <2>1, <2>2, ExamineEnters
 <1>7. CASE MassConserved(r)
  <2>1. Examine(r, "mass_conserved", Whole(r), Nothing)
    BY <1>7 DEF MassConserved
  <2>2. DOMAIN Nothing = {}
    BY DEF Nothing
  <2> QED  BY <1>0, <2>1, <2>2, ExamineEnters
 <1>8. CASE ImpulseConserved(r)
  <2> DEFINE b == [ready |-> TRUE]
  <2>1. Examine(r, "impulse_conserved", Whole(r), b)
    BY <1>8 DEF ImpulseConserved
  <2>2. DOMAIN b = {"ready"}
    OBVIOUS
  <2> HIDE DEF b
  <2> QED  BY <1>0, <2>1, <2>2, ExamineEnters
 <1>9. CASE Source(r)
  <2> DEFINE b == [density |-> IF Whole(r) THEN As(mem[r].density, "source") ELSE Torn]
  <2>1. Stage(r, "source", b)
    BY <1>9 DEF Source
  <2>2. DOMAIN b = {"density"}
    OBVIOUS
  <2> HIDE DEF b
  <2> QED  BY <1>0, <2>1, <2>2, StageEnters
 <1>10. CASE Forward(r)
  <2>1. Examine(r, "forward", mem[r].ready, Nothing)
    BY <1>10 DEF Forward
  <2>2. DOMAIN Nothing = {}
    BY DEF Nothing
  <2> QED  BY <1>0, <2>1, <2>2, ExamineEnters
 <1>11. CASE AxisModes(r)
  <2> DEFINE b == [modes |-> IF Is(mem[r].phi, "phi")
                             THEN Append(As(mem[r].phi, "axis"), mem[r].axis + 1) ELSE Torn,
                   axis |-> mem[r].axis + 1]
  <2>1. Stage(r, "axis_modes", b)
    BY <1>11 DEF AxisModes
  <2>2. DOMAIN b = {"modes", "axis"}
    OBVIOUS
  <2> HIDE DEF b
  <2> QED  BY <1>0, <2>1, <2>2, StageEnters
 <1>12. CASE SendPlane(r)
  <2> DEFINE field == IF At(r, "send_force_plane") THEN "force" ELSE "density"
             b == [out |-> Append(mem[r][field], r)]
  <2>1. Keep(r, b)
    BY <1>12 DEF SendPlane
  <2>2. DOMAIN b = {"out"}
    OBVIOUS
  <2> HIDE DEF b
  <2>3. SameSolver
    BY <2>1, <2>2, Untouched
  <2>4. /\ At(r, "send_force_plane") \/ At(r, "send_potential_plane")
        /\ Continue(r) /\ SameProgram /\ cached' = cached
    BY <1>12 DEF SendPlane, SameProgram
  <2>5. "send_force_plane" \in Locals /\ "send_potential_plane" \in Locals
    BY DEF Locals
  <2> QED  BY <2>3, <2>4, <2>5, LocalContinues
 <1>13. CASE ReceivePlane(r)
  <2> DEFINE b == [right |-> Head(planes[r])]
  <2>1. Keep(r, b)
    BY <1>13 DEF ReceivePlane
  <2>2. DOMAIN b = {"right"}
    OBVIOUS
  <2> HIDE DEF b
  <2>3. SameSolver
    BY <2>1, <2>2, Untouched
  <2>4. At(r, "receive_plane") /\ Continue(r) /\ SameProgram /\ cached' = cached
    BY <1>13 DEF ReceivePlane, SameProgram
  <2>5. "receive_plane" \in Locals
    BY DEF Locals
  <2> QED  BY <2>3, <2>4, <2>5, LocalContinues
 <1>14. CASE AxisGather(r)
  <2>1. At(r, "axis_gather") /\ (Enter(r, TRUE) \/ Enter(r, FALSE))
    BY <1>14 DEF AxisGather
  <2>2. SameProgram /\ cached' = cached /\ mem' = mem
    BY <1>14 DEF AxisGather, SameProgram
  <2> QED  BY <1>0, <2>1, <2>2, CheckEnters
 <1>15. CASE HaloRequest(r)
  <2> DEFINE b == [halo |-> [p \in HaloPlan(r) \intersect SlabPlanes(r) |-> mem[r].density],
                   needs |-> HaloPlan(r) \ SlabPlanes(r)]
  <2>1. Stage(r, "halo_request", b)
    BY <1>15 DEF HaloRequest
  <2>2. DOMAIN b = {"halo", "needs"}
    OBVIOUS
  <2> HIDE DEF b
  <2> QED  BY <1>0, <2>1, <2>2, StageEnters
 <1>16. CASE HaloResponse(r)
  <2> DEFINE b == [reply |-> mem[r].density]
             good == \A x \in mem[r].asked : x[2] \in SlabPlanes(r)
  <2>1. Examine(r, "halo_response", good, b)
    BY <1>16 DEF HaloResponse
  <2>2. DOMAIN b = {"reply"}
    OBVIOUS
  <2> HIDE DEF b, good
  <2> QED  BY <1>0, <2>1, <2>2, ExamineEnters
 <1>17. CASE GradientCheck(r)
  <2> DEFINE good == Support(r) \subseteq SlabPlanes(r) \union DOMAIN mem[r].halo
  <2>1. Examine(r, "gradient_check", good, Nothing)
    BY <1>17 DEF GradientCheck
  <2>2. DOMAIN Nothing = {}
    BY DEF Nothing
  <2> HIDE DEF good
  <2> QED  BY <1>0, <2>1, <2>2, ExamineEnters
 <1>18. CASE Gradient(r)
  <2> DEFINE b == [built |-> mem[r].built \o Gradients(r)]
  <2>1. Stage(r, "gradient", b)
    BY <1>18 DEF Gradient
  <2>2. DOMAIN b = {"built"}
    OBVIOUS
  <2> HIDE DEF b
  <2> QED  BY <1>0, <2>1, <2>2, StageEnters
 <1>19. CASE Commit(r)
  <2>1. At(r, "commit") /\ Continue(r)
    BY <1>19 DEF Commit
  <2>2. SameProgram /\ cached' = cached /\ SameSolver
    BY <1>19, MemoryStays DEF Commit, SameProgram
  <2>3. "commit" \in Locals
    BY DEF Locals
  <2> QED  BY <2>1, <2>2, <2>3, LocalContinues
 <1>20. CASE WeightedSum(r)
  <2> DEFINE b == [energy |-> Seen(r, "density")]
  <2>1. Stage(r, "weighted_sum", b)
    BY <1>20 DEF WeightedSum
  <2>2. DOMAIN b = {"energy"}
    OBVIOUS
  <2> HIDE DEF b
  <2> QED  BY <1>0, <2>1, <2>2, StageEnters
 <1>21. CASE SelfEnergy(r)
  <2> DEFINE b == [self |-> mem[r].lags]
  <2>1. Stage(r, "self_energy", b)
    BY <1>21 DEF SelfEnergy
  <2>2. DOMAIN b = {"self"}
    OBVIOUS
  <2> HIDE DEF b
  <2> QED  BY <1>0, <2>1, <2>2, StageEnters
 <1> QED  BY <1>1, <1>2, <1>3, <1>4, <1>5, <1>6, <1>7, <1>8, <1>9, <1>10, <1>11,
             <1>12, <1>13, <1>14, <1>15, <1>16, <1>17, <1>18, <1>19, <1>20, <1>21
          DEF MeshStep

(* The tree: a walk that ends with an exception is the one thing a rank    *)
(* throws outside a stage.                                                 *)
LEMMA TreeSteps ==
    ASSUME PipelineTypes, Unprotected = {}, NEW r \in Ranks,
           \/ BuildTree(r) \/ Join(r) \/ Emit(r) \/ Validate(r)
           \/ \E c \in DOMAIN chunk[r] : WalkStep(r, c)
    PROVE  Moves(r)
 <1>1. CASE BuildTree(r)
  <2>1. At(r, "tree") /\ SameProgram /\ cached' = cached /\ SameSolver
    BY <1>1, MemoryStays DEF BuildTree, SameProgram
  <2>2. CASE Continue(r)
   <3>1. "tree" \in Locals
     BY DEF Locals
   <3> QED  BY <2>1, <2>2, <3>1, LocalContinues
  <2>3. CASE Throw(r)
   <3>1. Standing(r) /\ Head(todo[r]) \in {"tree", "walk"}
     BY <2>1 DEF At, Standing
   <3> QED  BY <2>1, <2>3, <3>1 DEF Moves, Throws
  <2> QED  BY <1>1, <2>2, <2>3 DEF BuildTree
 <1>2. CASE Join(r)
  <2>1. At(r, "walk") /\ SameProgram /\ cached' = cached /\ SameSolver
    BY <1>2, MemoryStays DEF Join, SameProgram
  <2>2. CASE Continue(r)
   <3>1. "walk" \in Locals
     BY DEF Locals
   <3> QED  BY <2>1, <2>2, <3>1, LocalContinues
  <2>3. CASE Throw(r)
   <3>1. Standing(r) /\ Head(todo[r]) \in {"tree", "walk"}
     BY <2>1 DEF At, Standing
   <3> QED  BY <2>1, <2>3, <3>1 DEF Moves, Throws
  <2> QED  BY <1>2, <2>2, <2>3 DEF Join
 <1>3. CASE Emit(r)
  <2>1. At(r, "emit") /\ Continue(r)
    BY <1>3 DEF Emit
  <2>2. SameProgram /\ cached' = cached /\ SameSolver
    BY <1>3, MemoryStays DEF Emit, SameProgram
  <2>3. "emit" \in Locals
    BY DEF Locals
  <2> QED  BY <2>1, <2>2, <2>3, LocalContinues
 <1>4. CASE Validate(r)
  <2>1. At(r, "validate") /\ Continue(r)
    BY <1>4 DEF Validate
  <2>2. SameProgram /\ cached' = cached /\ SameSolver
    BY <1>4, MemoryStays DEF Validate, SameProgram
  <2>3. "validate" \in Locals
    BY DEF Locals
  <2> QED  BY <2>1, <2>2, <2>3, LocalContinues
 <1>5. ASSUME NEW c \in DOMAIN chunk[r], WalkStep(r, c)
       PROVE  Moves(r)
  <2>1. WalkOnly
    BY <1>5 DEF WalkStep, TakeChunk, SkipChunk, WalkOne, FinishChunk, RaiseFlag,
                StoreException
  <2>2. Stands
    BY <2>1 DEF WalkOnly, Stands, SameProgram
  <2> QED  BY <2>2 DEF Moves
 <1> QED  BY <1>1, <1>2, <1>3, <1>4, <1>5

LEMMA StepsMove ==
    ASSUME PipelineTypes, Unprotected = {}, NEW r \in Ranks, RankStep(r)
    PROVE  Call(r) \/ Moves(r)
  BY ProcessSteps, MeshSteps, TreeSteps DEF RankStep

-----------------------------------------------------------------------------
(* What a collective is to all of them.                                    *)
Meets ==
    /\ Proceed
    /\ cached' = KeptLayouts
    /\ DOMAIN mem' = Ranks
    /\ \A q \in Ranks : /\ {"workspace", "kernel"} \subseteq DOMAIN mem'[q]
                        /\ mem'[q].workspace = mem[q].workspace
    /\ \/ \A q \in Ranks : mem'[q].kernel = mem[q].kernel
       \/ \A q \in Ranks : mem'[q].kernel = TRUE

LEMMA EverywhereTouches ==
    ASSUME PipelineTypes, NEW buffers, Everywhere(buffers), "workspace" \notin DOMAIN buffers
    PROVE  /\ DOMAIN mem' = Ranks
           /\ \A q \in Ranks : /\ {"workspace", "kernel"} \subseteq DOMAIN mem'[q]
                               /\ mem'[q].workspace = mem[q].workspace
                               /\ mem'[q].kernel = IF "kernel" \in DOMAIN buffers
                                                   THEN buffers["kernel"] ELSE mem[q].kernel
 <1>1. DOMAIN mem' = Ranks /\ \A q \in Ranks : mem'[q] = Over(buffers, mem[q])
   BY DEF Everywhere
 <1>2. ASSUME NEW q \in Ranks
       PROVE  /\ {"workspace", "kernel"} \subseteq DOMAIN mem'[q]
              /\ mem'[q].workspace = mem[q].workspace
              /\ mem'[q].kernel = IF "kernel" \in DOMAIN buffers
                                  THEN buffers["kernel"] ELSE mem[q].kernel
  <2>1. "workspace" \in DOMAIN mem[q] /\ "kernel" \in DOMAIN mem[q]
    BY DEF PipelineTypes
  <2>2. mem'[q] = Over(buffers, mem[q])
    BY <1>1
  <2>3. DOMAIN mem'[q] = DOMAIN buffers \union DOMAIN mem[q]
    BY <2>2 DEF Over
  <2>4. mem'[q].workspace = mem[q].workspace
    BY <2>1, <2>2 DEF Over
  <2>5. CASE "kernel" \in DOMAIN buffers
    BY <2>1, <2>2, <2>3, <2>4, <2>5 DEF Over
  <2>6. CASE "kernel" \notin DOMAIN buffers
    BY <2>1, <2>2, <2>3, <2>4, <2>6 DEF Over
  <2> QED  BY <2>5, <2>6
 <1> QED  BY <1>1, <1>2

LEMMA TransformMeets ==
    ASSUME PipelineTypes, NEW buffers, Proceed, Everywhere(buffers), cached' = KeptLayouts,
           "workspace" \notin DOMAIN buffers, "kernel" \notin DOMAIN buffers
    PROVE  Meets
  BY EverywhereTouches DEF Meets

(* Only a collective that failed loses a layout.                           *)
LEMMA LayoutsStay ==
    ASSUME PipelineTypes, NEW s, Joint(s), cached' = cached
    PROVE  cached' = KeptLayouts
  BY DEF PipelineTypes, Joint, KeptLayouts

LEMMA MeetingsMeet ==
    ASSUME PipelineTypes, Meeting
    PROVE  Meets
 <1>1. CASE Agree
   BY <1>1 DEF Agree, Meets, PipelineTypes
 <1>2. CASE ForwardTransform
  <2> DEFINE b == [phi |-> Transformed("density", "source", "phi"),
                   density |-> Torn, ready |-> FALSE]
  <2>1. Joint("forward") /\ Proceed /\ Everywhere(b) /\ cached' = cached
    BY <1>2 DEF ForwardTransform
  <2>2. DOMAIN b = {"phi", "density", "ready"}
    OBVIOUS
  <2> HIDE DEF b
  <2> QED  BY <2>1, <2>2, LayoutsStay, TransformMeets
 <1>3. CASE InverseTransform
  <2> DEFINE b == [density |-> Transformed("phi", "phi", "potential"), ready |-> TRUE]
  <2>1. Joint("inverse") /\ Proceed /\ Everywhere(b) /\ cached' = cached
    BY <1>3 DEF InverseTransform
  <2>2. DOMAIN b = {"density", "ready"}
    OBVIOUS
  <2> HIDE DEF b
  <2> QED  BY <2>1, <2>2, LayoutsStay, TransformMeets
 <1>4. CASE AxisTransform
  <2> DEFINE b == [force |-> Transformed("modes", "axis", "force"), modes |-> Torn,
                   density |-> Torn, ready |-> FALSE]
  <2>1. Joint("axis_inverse") /\ Proceed /\ Everywhere(b) /\ cached' = cached
    BY <1>4 DEF AxisTransform
  <2>2. DOMAIN b = {"force", "modes", "density", "ready"}
    OBVIOUS
  <2> HIDE DEF b
  <2> QED  BY <2>1, <2>2, LayoutsStay, TransformMeets
 <1>5. CASE ExchangeRequests
  <2>1. Joint("halo_planes") /\ Proceed /\ cached' = cached
    BY <1>5 DEF ExchangeRequests
  <2>2. DOMAIN mem' = Ranks
    BY <1>5 DEF ExchangeRequests
  <2>3. ASSUME NEW q \in Ranks
        PROVE  /\ {"workspace", "kernel"} \subseteq DOMAIN mem'[q]
               /\ mem'[q].workspace = mem[q].workspace
               /\ mem'[q].kernel = mem[q].kernel
   <3> DEFINE new == {ask \in Ranks \X (0 .. Mesh - 1) :
                         /\ ask[2] \in mem[ask[1]].needs
                         /\ OwnerOf(ask[2]) = q}
   <3>1. mem'[q] = [mem[q] EXCEPT !.asked = new]
     BY <1>5 DEF ExchangeRequests
   <3> HIDE DEF new
   <3>2. "workspace" \in DOMAIN mem[q] /\ "kernel" \in DOMAIN mem[q]
     BY DEF PipelineTypes
   <3> QED  BY <3>1, <3>2
  <2>4. cached' = KeptLayouts
    BY <2>1, LayoutsStay
  <2> QED  BY <2>1, <2>2, <2>3, <2>4 DEF Meets
 <1>6. CASE ExchangeValues
  <2>1. Joint("halo_values") /\ Proceed /\ cached' = cached
    BY <1>6 DEF ExchangeValues
  <2>2. DOMAIN mem' = Ranks
    BY <1>6 DEF ExchangeValues
  <2>3. ASSUME NEW q \in Ranks
        PROVE  /\ {"workspace", "kernel"} \subseteq DOMAIN mem'[q]
               /\ mem'[q].workspace = mem[q].workspace
               /\ mem'[q].kernel = mem[q].kernel
   <3> DEFINE new == Over([p \in mem[q].needs |-> Reply(q, p)], mem[q].halo)
   <3>1. mem'[q] = [mem[q] EXCEPT !.halo = new]
     BY <1>6 DEF ExchangeValues
   <3> HIDE DEF new
   <3>2. "workspace" \in DOMAIN mem[q] /\ "kernel" \in DOMAIN mem[q]
     BY DEF PipelineTypes
   <3> QED  BY <3>1, <3>2
  <2>4. cached' = KeptLayouts
    BY <2>1, LayoutsStay
  <2> QED  BY <2>1, <2>2, <2>3, <2>4 DEF Meets
 <1>7. CASE LagKernel
  <2> DEFINE lag == IF \A r \in Ranks : mem[r].density = <<"impulse", "potential", solve[r]>>
                    THEN <<"impulse">> ELSE Torn
             b == [kernel |-> TRUE, lags |-> lag]
  <2>1. Joint("lag_kernel") /\ Proceed /\ Everywhere(b) /\ cached' = cached
    BY <1>7 DEF LagKernel
  <2>2. DOMAIN b = {"kernel", "lags"} /\ b["kernel"] = TRUE
    OBVIOUS
  <2> HIDE DEF b
  <2>3. cached' = KeptLayouts
    BY <2>1, LayoutsStay
  <2> QED  BY <2>1, <2>2, <2>3, EverywhereTouches DEF Meets
 <1>8. CASE Publish
  <2>1. Joint("callback") /\ Proceed /\ cached' = cached /\ mem' = mem
    BY <1>8 DEF Publish
  <2>2. cached' = KeptLayouts
    BY <2>1, LayoutsStay
  <2> QED  BY <2>1, <2>2 DEF Meets, PipelineTypes
 <1> QED  BY <1>1, <1>2, <1>3, <1>4, <1>5, <1>6, <1>7, <1>8 DEF Meeting

-----------------------------------------------------------------------------
(* Where the ranks are.  Either no rank is in a call, and those that have  *)
(* made fewer calls than others have only calls to skip up to there; or    *)
(* all are at one call: a rank inside it has left of it what follows some  *)
(* of its local steps, and to a rank before it, it is the same call.       *)
Made(r) == Len(setup.calls) - Len(calls[r])
Skipped(r, j) == setup.calls[j] # "solve" /\ ended[r] # "returned"
Fresh(r, j) == IF setup.calls[j] = "solve" THEN Solve(r) ELSE Measure(r)

OnPath(left, steps) ==
    \E k \in 1 .. Len(steps) : /\ left = SubSeq(steps, k, Len(steps))
                               /\ \A i \in 1 .. k - 1 : steps[i] \in Locals

Inside(r, n, steps) == todo[r] # <<>> /\ Made(r) = n /\ OnPath(todo[r], steps)
Before(r, n, steps) == /\ todo[r] = <<>> /\ Made(r) < n
                       /\ \A j \in Made(r) + 1 .. n - 1 : Skipped(r, j)
                       /\ ~ Skipped(r, n)
                       /\ steps = Fresh(r, n)

AtRest(b) == \A r \in Ranks : /\ todo[r] = <<>> /\ b <= Made(r)
                              /\ \A j \in b + 1 .. Made(r) : Skipped(r, j)
InCall(n, steps) == /\ Path(steps)
                    /\ \A r \in Ranks : Inside(r, n, steps) \/ Before(r, n, steps)

SameCall == \/ \E b \in 0 .. Len(setup.calls) : AtRest(b)
            \/ \E n \in 1 .. Len(setup.calls), steps \in Seq(Steps) : InCall(n, steps)

CallsInOrder ==
    \A r \in Ranks : /\ Made(r) \in 0 .. Len(setup.calls)
                     /\ calls[r] = SubSeq(setup.calls, Made(r) + 1, Len(setup.calls))

WaitsForAll == \A r \in Ranks : waiting[r] => todo[r] # <<>> /\ Head(todo[r]) \notin Locals

(* What the next call is made of is the same for all ranks: that they have *)
(* a kernel, the layout, and a workspace.  Ranks may differ only within    *)
(* the steps that publish it.                                              *)
StepOf(r) == IF todo[r] = <<>> THEN "nothing" ELSE Head(todo[r])

SameEnd == \A q, r \in Ranks : mem[q].kernel = mem[r].kernel /\ ended[q] = ended[r]

SameLayout ==
    /\ \A q, r \in Ranks : StepOf(q) # "publish_layout" /\ StepOf(r) # "publish_layout"
                              => cached[q] = cached[r]
    /\ \A r \in Ranks : waiting[r] /\ StepOf(r) = "publish_layout" /\ ~ error[r]
                              => cached[r] = TRUE

FailedTogether(r) == \A q \in Ranks : /\ waiting[q] /\ error[q] /\ StepOf(q) = StepOf(r)
                                      /\ mem[q].workspace = mem[r].workspace

SameWorkspace ==
    /\ \A q, r \in Ranks : StepOf(q) \notin Keeping /\ StepOf(r) \notin Keeping
                              => mem[q].workspace = mem[r].workspace
    /\ \A r \in Ranks : waiting[r] /\ StepOf(r) \in Keeping
                              => \/ error[r] /\ FailedTogether(r)
                                 \/ ~ error[r] /\ mem[r].workspace = TRUE

PipelineInv == /\ PipelineTypes /\ CallsInOrder /\ SameCall /\ WaitsForAll
               /\ SameEnd /\ SameLayout /\ SameWorkspace

-----------------------------------------------------------------------------
LEMMA RankZero ==
    ASSUME PipelineTypes
    PROVE  0 \in Ranks /\ setup.calls \in Seq({"solve", "measure"})
 <1>1. setup.size \in Nat \ {0} /\ setup.calls \in Seq({"solve", "measure"})
   BY ForcePipelineAssumption DEF PipelineTypes
 <1> QED  BY <1>1 DEF Ranks, Size

LEMMA MinIsLeast ==
    ASSUME NEW S \in SUBSET Nat, S # {}
    PROVE  Min(S) \in S /\ \A y \in S : Min(S) <= y
 <1>1. PICK x \in S : \A y \in S : ~ (<<y, x>> \in OpToRel(<, Nat))
   BY NatLessThanWellFounded, WFMin
 <1>2. ASSUME NEW y \in S  PROVE x <= y
  <2>1. <<y, x>> \notin {ss \in Nat \X Nat : ss[1] < ss[2]}
    BY <1>1 DEF OpToRel
  <2> QED  BY <2>1
 <1> QED  BY <1>1, <1>2 DEF Min

LEMMA FromIsRest ==
    ASSUME NEW steps \in Seq(Steps), NEW s
    PROVE  \/ From(steps, s) = <<>> /\ \A j \in 1 .. Len(steps) : steps[j] # s
           \/ \E i \in 1 .. Len(steps) :
                 /\ steps[i] = s /\ \A j \in 1 .. i - 1 : steps[j] # s
                 /\ From(steps, s) = SubSeq(steps, i, Len(steps))
 <1> DEFINE I == {i \in 1 .. Len(steps) : steps[i] = s}
            m == IF I # {} THEN Min(I) ELSE 0
 <1>1. From(steps, s) = IF m = 0 THEN <<>> ELSE SubSeq(steps, m, Len(steps))
   BY DEF From, SelectInSeq
 <1>2. CASE I = {}
   BY <1>1, <1>2
 <1>3. CASE I # {}
  <2>2. I \in SUBSET Nat
    OBVIOUS
  <2> HIDE DEF I
  <2>3. Min(I) \in I /\ \A y \in I : Min(I) <= y
    BY <1>3, <2>2, MinIsLeast
  <2>4. m = Min(I)
    BY <1>3
  <2>5. m \in 1 .. Len(steps) /\ steps[m] = s
    BY <2>3, <2>4 DEF I
  <2>6. ASSUME NEW j \in 1 .. m - 1, steps[j] = s
        PROVE  FALSE
   <3>1. j \in I
     BY <2>5, <2>6 DEF I
   <3> QED  BY <2>3, <2>4, <2>5, <3>1
  <2> HIDE DEF m
  <2> QED  BY <1>1, <2>5, <2>6
 <1> QED  BY <1>2, <1>3

(* An exception goes on in a collective of the path, if anywhere.          *)
LEMMA CatcherIsMet ==
    ASSUME NEW s
    PROVE  Catcher(s) \notin Locals
 <1>1. Catcher(s) \in {"layout", "ready", "private", "complete", "nowhere", "callback"}
   BY DEF Catcher
 <1> QED  BY <1>1 DEF Locals

LEMMA PathLeft ==
    ASSUME NEW r, Path(todo[r])
    PROVE  /\ Tail(todo[r]) \in Seq(Steps)
           /\ Tail(todo[r]) = <<>> \/ Path(Tail(todo[r]))
           /\ Unwound(r) = <<>> \/ (Path(Unwound(r)) /\ Head(Unwound(r)) \notin Locals)
 <1> DEFINE t == todo[r]
            s == Catcher(Head(todo[r]))
 <1>1. t \in Seq(Steps) /\ t # <<>> /\ Len(t) \in Nat \ {0}
   BY DEF Path, Arranged
 <1>2. Tail(t) \in Seq(Steps) /\ Len(Tail(t)) = Len(t) - 1
   BY <1>1
 <1>3. Tail(t) = <<>> \/ Path(Tail(t))
  <2>1. Path(t)
    OBVIOUS
  <2> HIDE DEF t
  <2>2. Tail(t) = SubSeq(t, 2, Len(t))
    BY <1>1, TailIsSubSeq
  <2>3. CASE Len(t) = 1
   <3>1. Len(Tail(t)) = 0
     BY <1>2, <2>3
   <3> QED  BY <1>2, <3>1, EmptySeq
  <2>4. CASE Len(t) # 1
   <3>1. 2 \in 1 .. Len(t)
    <4> DEFINE l == Len(t)
    <4>1. l \in Nat \ {0} /\ l # 1
      BY <1>1, <2>4
    <4> HIDE DEF l
    <4>2. 2 \in 1 .. l
      BY <4>1
    <4> QED  BY <4>2 DEF l
   <3>2. Path(SubSeq(t, 2, Len(t)))
     BY <2>1, <3>1, PathGoesOn
   <3> QED  BY <2>2, <3>2, Zenon
  <2> QED  BY <2>3, <2>4
 <1>4. Unwound(r) = From(Tail(t), s)
   BY DEF Unwound
 <1>5. s \notin Locals
   BY CatcherIsMet
 <1> HIDE DEF t, s
 <1>6. CASE From(Tail(t), s) # <<>>
  <2> DEFINE u == Tail(t)
  <2>1. u \in Seq(Steps)
    BY <1>2
  <2>2. PICK i \in 1 .. Len(u) : u[i] = s /\ From(u, s) = SubSeq(u, i, Len(u))
   <3> HIDE DEF u
   <3>1. From(u, s) # <<>>
     BY <1>6 DEF u
   <3> QED  BY <2>1, <3>1, FromIsRest
  <2>3. u # <<>>
    BY <1>2, <2>2
  <2>4. Path(u)
    BY <1>3, <2>3
  <2> HIDE DEF u
  <2>5. Path(From(u, s))
    BY <2>2, <2>4, PathGoesOn
  <2>6. Head(From(u, s)) = s
    BY <2>1, <2>2
  <2> QED  BY <1>2, <1>3, <1>4, <1>5, <2>5, <2>6 DEF t, u
 <1> QED  BY <1>2, <1>3, <1>4, <1>6 DEF t

(* Ranks that wait have the same left to do.                               *)
LEMMA InsideMeet ==
    ASSUME NEW q, NEW r, NEW n, NEW steps, Path(steps),
           Inside(q, n, steps), Inside(r, n, steps),
           Head(todo[q]) \notin Locals, Head(todo[r]) \notin Locals
    PROVE  todo[q] = todo[r]
 <1>1. steps \in Seq(Steps)
   BY DEF Path, Arranged
 <1>2. PICK k \in 1 .. Len(steps) : /\ todo[q] = SubSeq(steps, k, Len(steps))
                                    /\ \A i \in 1 .. k - 1 : steps[i] \in Locals
   BY DEF Inside, OnPath
 <1>3. PICK l \in 1 .. Len(steps) : /\ todo[r] = SubSeq(steps, l, Len(steps))
                                    /\ \A i \in 1 .. l - 1 : steps[i] \in Locals
   BY DEF Inside, OnPath
 <1>4. steps[k] \notin Locals
  <2>1. Head(SubSeq(steps, k, Len(steps))) = steps[k]
    BY <1>1
  <2> QED  BY <1>2, <2>1
 <1>5. steps[l] \notin Locals
  <2>1. Head(SubSeq(steps, l, Len(steps))) = steps[l]
    BY <1>1
  <2> QED  BY <1>3, <2>1
 <1>6. ~ (k < l) /\ ~ (l < k)
   BY <1>2, <1>3, <1>4, <1>5
 <1>7. k = l
   BY <1>6
 <1> QED  BY <1>2, <1>3, <1>7

LEMMA WaitingMeet ==
    ASSUME PipelineTypes, SameCall, WaitsForAll, NEW r \in Ranks, waiting[r]
    PROVE  \E n \in 1 .. Len(setup.calls), steps \in Seq(Steps) :
              /\ InCall(n, steps) /\ Inside(r, n, steps)
              /\ \A q \in Ranks : waiting[q] => Inside(q, n, steps) /\ todo[q] = todo[r]
 <1>1. todo[r] # <<>> /\ Head(todo[r]) \notin Locals
   BY DEF WaitsForAll
 <1>2. PICK n \in 1 .. Len(setup.calls), steps \in Seq(Steps) : InCall(n, steps)
   BY <1>1 DEF SameCall, AtRest
 <1>3. ASSUME NEW q \in Ranks, waiting[q]
       PROVE  Inside(q, n, steps) /\ Head(todo[q]) \notin Locals
  <2>1. todo[q] # <<>> /\ Head(todo[q]) \notin Locals
    BY <1>3 DEF WaitsForAll
  <2> QED  BY <1>2, <2>1 DEF InCall, Before
 <1>4. Path(steps)
   BY <1>2 DEF InCall
 <1>5. Inside(r, n, steps)
   BY <1>3
 <1>6. ASSUME NEW q \in Ranks, waiting[q]
       PROVE  Inside(q, n, steps) /\ todo[q] = todo[r]
  <2>1. Inside(q, n, steps) /\ Head(todo[q]) \notin Locals
    BY <1>3, <1>6
  <2> QED  BY <1>1, <1>4, <1>5, <2>1, InsideMeet
 <1> QED  BY <1>2, <1>5, <1>6

LEMMA InvariantMeets ==
    ASSUME PipelineInv
    PROVE  CollectivesMeet
  BY WaitingMeet DEF PipelineInv, CollectivesMeet

-----------------------------------------------------------------------------
(* What a new call is made of depends on little.                           *)
LEMMA FreshStays ==
    ASSUME NEW q, NEW n, setup' = setup, cached'[q] = cached[q],
           mem'[q].workspace = mem[q].workspace, mem'[q].kernel = mem[q].kernel
    PROVE  Fresh(q, n)' = Fresh(q, n)
 <1>1. Size' = Size /\ Tree' = Tree
   BY DEF Size, Tree
 <1>2. /\ Spill' = Spill /\ Report' = Report /\ Balance' = Balance
       /\ Ghost("force")' = Ghost("force") /\ Ghost("potential")' = Ghost("potential")
   BY <1>1 DEF Spill, Report, Balance, Ghost
 <1>3. Lookup(q)' = Lookup(q)
   BY DEF Lookup
 <1>4. Creation(q)' = Creation(q)
   BY <1>3 DEF Creation
 <1>5. Kernel(q)' = Kernel(q)
   BY <1>2 DEF Kernel
 <1>6. Energy(q)' = Energy(q)
   BY <1>1, <1>2, <1>5 DEF Energy
 <1>7. Axis' = Axis /\ GradientSteps' = GradientSteps
   BY <1>1, <1>2 DEF Axis, Interpolation, GradientSteps
 <1>8. MeshSolve(q)' = MeshSolve(q)
   BY <1>1, <1>2, <1>6, <1>7 DEF MeshSolve
 <1>9. Solve(q)' = Solve(q)
   BY <1>1, <1>2, <1>4, <1>8 DEF Solve
 <1>10. Measure(q)' = Measure(q)
   BY <1>6 DEF Measure
 <1> QED  BY <1>9, <1>10 DEF Fresh

LEMMA FreshAlike ==
    ASSUME NEW q, NEW r, NEW n, cached[q] = cached[r],
           mem[q].workspace = mem[r].workspace, mem[q].kernel = mem[r].kernel
    PROVE  Fresh(q, n) = Fresh(r, n)
 <1>1. Lookup(q) = Lookup(r)
   BY DEF Lookup
 <1>2. Creation(q) = Creation(r)
   BY <1>1 DEF Creation
 <1>3. Kernel(q) = Kernel(r)
   BY DEF Kernel
 <1>4. Energy(q) = Energy(r)
   BY <1>3 DEF Energy
 <1>5. MeshSolve(q) = MeshSolve(r)
   BY <1>4 DEF MeshSolve
 <1>6. Solve(q) = Solve(r)
   BY <1>2, <1>5 DEF Solve
 <1>7. Measure(q) = Measure(r)
   BY <1>4 DEF Measure
 <1> QED  BY <1>6, <1>7 DEF Fresh

LEMMA FreshIsPath ==
    ASSUME NEW r, NEW n
    PROVE  /\ Path(Fresh(r, n)) /\ Fresh(r, n) \in Seq(Steps)
           /\ Fresh(r, n) # <<>>
 <1>1. Path(Fresh(r, n))
   BY SolveIsPath, MeasureIsPath DEF Fresh
 <1> QED  BY <1>1 DEF Path, Arranged

(* The whole of a path is on it, a local step leads on along it, and an    *)
(* exception of the tree or the walk leads to their report.                *)
LEMMA StartsOnPath ==
    ASSUME NEW steps, Path(steps)
    PROVE  OnPath(steps, steps)
 <1>1. steps \in Seq(Steps) /\ steps # <<>>
   BY DEF Path, Arranged
 <1>2. 1 \in 1 .. Len(steps) /\ SubSeq(steps, 1, Len(steps)) = steps
   BY <1>1, EmptySeq, SubSeqFull
 <1> QED  BY <1>2 DEF OnPath

LEMMA LocalOnPath ==
    ASSUME NEW steps, Path(steps), NEW left, OnPath(left, steps), Head(left) \in Locals
    PROVE  OnPath(Tail(left), steps) /\ Tail(left) # <<>>
 <1>1. steps \in Seq(Steps) /\ Len(steps) \in Nat /\ steps[Len(steps)] \notin Locals
   BY DEF Path, Arranged
 <1>2. PICK k \in 1 .. Len(steps) : /\ left = SubSeq(steps, k, Len(steps))
                                    /\ \A i \in 1 .. k - 1 : steps[i] \in Locals
   BY DEF OnPath
 <1>3. steps[k] \in Locals
  <2>1. Head(SubSeq(steps, k, Len(steps))) = steps[k]
    BY <1>1
  <2> QED  BY <1>2, <2>1
 <1>4. k # Len(steps)
   BY <1>1, <1>3
 <1>5. k + 1 \in 1 .. Len(steps)
   BY <1>1, <1>4
 <1>6. Tail(left) = SubSeq(steps, k + 1, Len(steps))
  <2>1. Len(steps) \in k .. Len(steps)
    BY <1>1
  <2> QED  BY <1>1, <1>2, <2>1, HeadTailOfSubSeq
 <1>7. \A i \in 1 .. (k + 1) - 1 : steps[i] \in Locals
   BY <1>2, <1>3
 <1>8. Tail(left) # <<>>
  <2>1. Len(SubSeq(steps, k + 1, Len(steps))) = Len(steps) - k
    BY <1>1, <1>5
  <2>2. Len(SubSeq(steps, k + 1, Len(steps))) # 0
    BY <1>1, <1>4, <2>1
  <2>3. SubSeq(steps, k + 1, Len(steps)) # <<>>
    BY <2>2, EmptySeq
  <2> QED  BY <1>6, <2>3
 <1> QED  BY <1>5, <1>6, <1>7, <1>8 DEF OnPath

LEMMA TreeIsCaught == Catcher("tree") = "complete" /\ Catcher("walk") = "complete"
 <1>1. /\ LayoutQuery \in Seq(Quiet)
       /\ Plans \in Seq(Quiet) /\ PlanRecord \in Seq(Quiet)
   BY QuietPieces
 <1>2. "tree" \notin Quiet /\ "walk" \notin Quiet
   BY DEF Quiet, Checks, JointSteps
 <1>3. /\ "tree" \notin ToSet(LayoutQuery) /\ "walk" \notin ToSet(LayoutQuery)
       /\ "tree" \notin ToSet(Plans) /\ "walk" \notin ToSet(Plans)
       /\ "tree" \notin ToSet(PlanRecord) /\ "walk" \notin ToSet(PlanRecord)
   BY <1>1, <1>2 DEF ToSet
 <1>4. "tree" \notin LookupSteps /\ "walk" \notin LookupSteps
   BY <1>3 DEF LookupSteps
 <1>5. "tree" \notin CreateSteps /\ "walk" \notin CreateSteps
   BY <1>3 DEF CreateSteps
 <1> QED  BY <1>4, <1>5 DEF Catcher

LEMMA ThrownOnPath ==
    ASSUME NEW steps, Path(steps), NEW r, OnPath(todo[r], steps),
           Head(todo[r]) \in {"tree", "walk"}
    PROVE  /\ OnPath(Unwound(r), steps) /\ Unwound(r) # <<>>
           /\ Head(Unwound(r)) = "complete"
 <1> DEFINE u == Tail(todo[r])
 <1>1. Head(todo[r]) \in Locals
   BY DEF Locals
 <1>2. OnPath(u, steps) /\ u # <<>>
   BY <1>1, LocalOnPath
 <1>3. steps \in Seq(Steps) /\ Len(steps) \in Nat
   BY DEF Path, Arranged
 <1>4. PICK k \in 1 .. Len(steps) : /\ todo[r] = SubSeq(steps, k, Len(steps))
                                    /\ \A i \in 1 .. k - 1 : steps[i] \in Locals
   BY DEF OnPath
 <1>5. Head(todo[r]) = steps[k]
  <2>1. Head(SubSeq(steps, k, Len(steps))) = steps[k]
    BY <1>3
  <2> QED  BY <1>4, <2>1
 <1>6. Unwound(r) = From(u, "complete")
   BY TreeIsCaught DEF Unwound
 <1>7. \/ steps[k] = "tree" /\ k + 2 <= Len(steps)
          /\ steps[k + 1] = "walk" /\ steps[k + 2] = "complete"
       \/ steps[k] = "walk" /\ k + 1 <= Len(steps) /\ steps[k + 1] = "complete"
   BY <1>5 DEF Path, Arranged
 <1>8. /\ u \in Seq(Steps) /\ Len(u) = Len(steps) - k
       /\ \A i \in 1 .. Len(u) : u[i] = steps[k + i]
  <2>1. Len(steps) \in k .. Len(steps)
    BY <1>3
  <2>2. u = SubSeq(steps, k + 1, Len(steps))
    BY <1>3, <1>4, <2>1, HeadTailOfSubSeq
  <2>3. k + 1 \in 1 .. Len(steps)
    BY <1>3, <1>7
  <2> HIDE DEF u
  <2> QED  BY <1>3, <2>2, <2>3
 <1> HIDE DEF u
 <1>9. \E m \in {k + 1, k + 2} : /\ From(u, "complete") = SubSeq(steps, m, Len(steps))
                                /\ m <= Len(steps) /\ steps[m] = "complete"
                                /\ \A i \in 1 .. m - 1 : steps[i] \in Locals
  <2>1. "walk" \in Locals /\ steps[k] \in Locals
    BY <1>1, <1>5 DEF Locals
  <2>2. PICK i \in 1 .. Len(u) :
           /\ u[i] = "complete" /\ \A j \in 1 .. i - 1 : u[j] # "complete"
           /\ From(u, "complete") = SubSeq(u, i, Len(u))
   <3>1. \E j \in 1 .. Len(u) : u[j] = "complete"
    <4>1. CASE steps[k] = "tree"
     <5>1. 2 \in 1 .. Len(u) /\ u[2] = "complete"
       BY <1>3, <1>7, <1>8, <4>1
     <5> QED  BY <5>1
    <4>2. CASE steps[k] = "walk"
     <5>1. 1 \in 1 .. Len(u) /\ u[1] = "complete"
       BY <1>3, <1>7, <1>8, <4>2
     <5> QED  BY <5>1
    <4> QED  BY <1>7, <4>1, <4>2
   <3> QED  BY <1>8, <3>1, FromIsRest
  <2>3. i = 1 \/ (i = 2 /\ steps[k] = "tree")
   <3>1. CASE steps[k] = "tree"
    <4>1. 2 \in 1 .. Len(u) /\ u[2] = "complete"
      BY <1>3, <1>7, <1>8, <3>1
    <4>2. ~ (2 \in 1 .. i - 1)
      BY <2>2, <4>1
    <4> QED  BY <2>2, <3>1, <4>2
   <3>2. CASE steps[k] = "walk"
    <4>1. 1 \in 1 .. Len(u) /\ u[1] = "complete"
      BY <1>3, <1>7, <1>8, <3>2
    <4>2. ~ (1 \in 1 .. i - 1)
      BY <2>2, <4>1
    <4> QED  BY <2>2, <4>2
   <3> QED  BY <1>7, <3>1, <3>2
  <2> DEFINE m == k + i
  <2>4. m \in {k + 1, k + 2} /\ m <= Len(steps) /\ steps[m] = "complete"
    BY <1>3, <1>8, <2>2, <2>3
  <2>5. SubSeq(u, i, Len(u)) = SubSeq(steps, m, Len(steps))
   <3> DEFINE a == SubSeq(u, i, Len(u))
              b == SubSeq(steps, m, Len(steps))
   <3>1. /\ a \in Seq(Steps) /\ Len(a) = Len(u) - i + 1
         /\ \A j \in 1 .. Len(a) : a[j] = u[i + j - 1]
     BY <1>8
   <3>2. /\ b \in Seq(Steps) /\ Len(b) = Len(steps) - m + 1
         /\ \A j \in 1 .. Len(b) : b[j] = steps[m + j - 1]
     BY <1>3, <2>4
   <3> HIDE DEF a, b
   <3>3. Len(a) = Len(b)
     BY <1>3, <1>8, <2>2, <3>1, <3>2
   <3>4. ASSUME NEW j \in 1 .. Len(b)
         PROVE  a[j] = b[j]
    <4>1. i + j - 1 \in 1 .. Len(u) /\ k + (i + j - 1) = m + j - 1
      BY <1>3, <1>8, <2>2, <3>1, <3>2, <3>3
    <4> QED  BY <1>8, <3>1, <3>2, <3>3, <4>1
   <3>5. a = b
     BY <3>1, <3>2, <3>3, <3>4, SeqEqual
   <3> QED  BY <3>5 DEF a, b
  <2>6. ASSUME NEW j \in 1 .. m - 1
        PROVE  steps[j] \in Locals
   <3>1. j \in 1 .. k - 1 \/ j = k \/ (j = k + 1 /\ i = 2)
     BY <2>3
   <3> QED  BY <1>4, <1>7, <2>1, <2>3, <3>1
  <2> HIDE DEF m
  <2> QED  BY <2>2, <2>4, <2>5, <2>6
 <1>10. PICK m \in {k + 1, k + 2} :
           /\ From(u, "complete") = SubSeq(steps, m, Len(steps))
           /\ m <= Len(steps) /\ steps[m] = "complete"
           /\ \A i \in 1 .. m - 1 : steps[i] \in Locals
   BY <1>9
 <1>11. m \in 1 .. Len(steps)
   BY <1>3, <1>10
 <1>12. /\ SubSeq(steps, m, Len(steps)) # <<>>
        /\ Head(SubSeq(steps, m, Len(steps))) = "complete"
  <2> DEFINE v == SubSeq(steps, m, Len(steps))
  <2>1. v \in Seq(Steps) /\ Len(v) = Len(steps) - m + 1
    BY <1>3, <1>11
  <2>2. Len(v) # 0
    BY <1>3, <1>11, <2>1
  <2>3. v # <<>>
    BY <2>1, <2>2, EmptySeq
  <2>4. Head(v) = steps[m]
    BY <1>3, <1>11
  <2> QED  BY <1>10, <2>3, <2>4
 <1> QED  BY <1>6, <1>10, <1>11, <1>12 DEF OnPath

-----------------------------------------------------------------------------
(* A step of a rank leaves the others as they are.                         *)
SameRank(q) == /\ todo'[q] = todo[q] /\ waiting'[q] = waiting[q]
               /\ error'[q] = error[q] /\ cached'[q] = cached[q]
               /\ SameSolverOf(q)

LEMMA MovesAlone ==
    ASSUME PipelineTypes, NEW r \in Ranks, Moves(r)
    PROVE  /\ PipelineTypes' /\ SameProgram
           /\ \A q \in Ranks \ {r} : SameRank(q)
           /\ mem'[r].kernel = mem[r].kernel
 <1>1. SameProgram
   BY DEF Moves, Enters, EntersAlike, Continues, Throws, Stands
 <1>2. Ranks' = Ranks
   BY <1>1 DEF SameProgram, Ranks, Size
 <1>3. /\ DOMAIN todo' = Ranks
       /\ waiting' \in [Ranks -> BOOLEAN] /\ error' \in [Ranks -> BOOLEAN]
       /\ \A q \in Ranks \ {r} : /\ todo'[q] = todo[q] /\ waiting'[q] = waiting[q]
                                 /\ error'[q] = error[q]
  <2>1. CASE Enters(r)
    BY <2>1 DEF Enters, EntersAlike, Enter, PipelineTypes
  <2>2. CASE Continues(r)
    BY <2>2 DEF Continues, PipelineTypes
  <2>3. CASE Throws(r)
    BY <2>3 DEF Throws, Throw, PipelineTypes
  <2>4. CASE Stands
    BY <2>4 DEF Stands, PipelineTypes
  <2> QED  BY <2>1, <2>2, <2>3, <2>4 DEF Moves
 <1>4. /\ cached' \in [Ranks -> BOOLEAN]
       /\ \A q \in Ranks \ {r} : cached'[q] = cached[q]
  <2>1. cached' = cached \/ cached' = [cached EXCEPT ![r] = TRUE]
    BY DEF Moves, Enters, Continues, Throws, Stands
  <2> QED  BY <2>1 DEF PipelineTypes
 <1>5. /\ DOMAIN mem' = Ranks
       /\ \A q \in Ranks \ {r} : SameSolverOf(q)
       /\ {"workspace", "kernel"} \subseteq DOMAIN mem'[r]
       /\ mem'[r].kernel = mem[r].kernel
  <2>1. CASE SameSolver
    BY <2>1 DEF SameSolver, SameSolverOf, PipelineTypes
  <2>2. CASE mem' = mem
    BY <2>2, MemoryStays DEF SameSolver, SameSolverOf, PipelineTypes
  <2>3. CASE Enters(r) /\ ~ SameSolver
    BY <2>3 DEF Enters, PipelineTypes
  <2> QED  BY <2>1, <2>2, <2>3 DEF Moves, Continues, Throws, Stands
 <1>6. \A q \in Ranks \ {r} : SameRank(q)
   BY <1>3, <1>4, <1>5 DEF SameRank
 <1>7. PipelineTypes'
  <2>1. setup' \in Setups /\ calls' \in [Ranks -> Seq({"solve", "measure"})]
        /\ DOMAIN ended' = Ranks
    BY <1>1 DEF SameProgram, PipelineTypes
  <2>2. \A q \in Ranks : {"workspace", "kernel"} \subseteq DOMAIN mem'[q]
    BY <1>5 DEF SameSolverOf
  <2> QED  BY <1>2, <1>3, <1>4, <1>5, <2>1, <2>2 DEF PipelineTypes
 <1> QED  BY <1>1, <1>5, <1>6, <1>7

(* A rank that is before a call stays before it while others move.         *)
LEMMA BeforeStays ==
    ASSUME NEW q, NEW n, NEW steps, Before(q, n, steps),
           SameProgram, todo'[q] = todo[q], cached'[q] = cached[q], SameSolverOf(q)
    PROVE  Before(q, n, steps)'
 <1>1. Made(q)' = Made(q)
   BY DEF Made, SameProgram
 <1>2. \A j : Skipped(q, j)' <=> Skipped(q, j)
   BY DEF Skipped, SameProgram
 <1>3. Fresh(q, n)' = Fresh(q, n)
   BY FreshStays DEF SameProgram, SameSolverOf
 <1> QED  BY <1>1, <1>2, <1>3 DEF Before

LEMMA MoverIsInside ==
    ASSUME PipelineTypes, SameCall, NEW r \in Ranks, todo[r] # <<>>
    PROVE  \E n \in 1 .. Len(setup.calls), steps \in Seq(Steps) :
              InCall(n, steps) /\ Inside(r, n, steps)
 <1>1. PICK n \in 1 .. Len(setup.calls), steps \in Seq(Steps) : InCall(n, steps)
   BY DEF SameCall, AtRest
 <1> QED  BY <1>1 DEF InCall, Before

LEMMA MovesInCall ==
    ASSUME PipelineTypes, SameCall, NEW r \in Ranks, Moves(r)
    PROVE  SameCall'
 <1>1. /\ PipelineTypes' /\ SameProgram
       /\ \A q \in Ranks \ {r} : SameRank(q)
   BY MovesAlone
 <1>2. Ranks' = Ranks /\ Len(setup.calls)' = Len(setup.calls)
   BY <1>1 DEF SameProgram, Ranks, Size
 <1>3. \A q : Made(q)' = Made(q) /\ \A j : Skipped(q, j)' <=> Skipped(q, j)
   BY <1>1 DEF Made, Skipped, SameProgram
 <1>4. CASE Stands
  <2>1. ASSUME NEW q \in Ranks
        PROVE  SameSolverOf(q) /\ todo'[q] = todo[q] /\ cached'[q] = cached[q]
    BY <1>4, MemoryStays DEF Stands, SameSolver
  <2>2. CASE \E b \in 0 .. Len(setup.calls) : AtRest(b)
   <3>1. PICK b \in 0 .. Len(setup.calls) : AtRest(b)
     BY <2>2
   <3>2. AtRest(b)'
     BY <1>2, <1>3, <2>1, <3>1 DEF AtRest
   <3> QED  BY <1>2, <3>2 DEF SameCall
  <2>3. ASSUME NEW n \in 1 .. Len(setup.calls), NEW steps \in Seq(Steps), InCall(n, steps)
        PROVE  SameCall'
   <3>1. ASSUME NEW q \in Ranks
         PROVE  Inside(q, n, steps)' \/ Before(q, n, steps)'
    <4>1. CASE Inside(q, n, steps)
      BY <1>3, <2>1, <4>1 DEF Inside
    <4>2. CASE Before(q, n, steps)
      BY <1>1, <2>1, <4>2, BeforeStays
    <4> QED  BY <2>3, <4>1, <4>2 DEF InCall
   <3>2. InCall(n, steps)'
     BY <1>2, <2>3, <3>1 DEF InCall
   <3> QED  BY <1>2, <3>2 DEF SameCall
  <2> QED  BY <2>2, <2>3 DEF SameCall
 <1>5. CASE Enters(r) \/ Continues(r) \/ Throws(r)
  <2>1. todo[r] # <<>>
    BY <1>5 DEF Enters, EntersAlike, Continues, Throws, Standing
  <2>2. PICK n \in 1 .. Len(setup.calls), steps \in Seq(Steps) :
           InCall(n, steps) /\ Inside(r, n, steps)
    BY <2>1, MoverIsInside
  <2>3. Path(steps) /\ OnPath(todo[r], steps)
    BY <2>2 DEF InCall, Inside
  <2>4. todo'[r] # <<>> /\ OnPath(todo'[r], steps)
   <3>1. CASE Enters(r)
    <4>1. todo' = todo
      BY <3>1 DEF Enters, EntersAlike, Enter
    <4> QED  BY <2>1, <2>3, <4>1
   <3>2. CASE Continues(r)
    <4>1. todo'[r] = Tail(todo[r]) /\ Head(todo[r]) \in Locals
      BY <3>2 DEF Continues, PipelineTypes
    <4> QED  BY <2>3, <4>1, LocalOnPath
   <3>3. CASE Throws(r)
    <4>1. todo'[r] = Unwound(r) /\ Head(todo[r]) \in {"tree", "walk"}
      BY <3>3 DEF Throws, Throw, PipelineTypes
    <4> QED  BY <2>3, <4>1, ThrownOnPath
   <3> QED  BY <1>5, <3>1, <3>2, <3>3
  <2>5. Inside(r, n, steps)'
    BY <1>3, <2>2, <2>4 DEF Inside
  <2>6. ASSUME NEW q \in Ranks \ {r}
        PROVE  Inside(q, n, steps)' \/ Before(q, n, steps)'
   <3>1. todo'[q] = todo[q] /\ cached'[q] = cached[q] /\ SameSolverOf(q)
     BY <1>1 DEF SameRank
   <3>2. CASE Inside(q, n, steps)
     BY <1>3, <3>1, <3>2 DEF Inside
   <3>3. CASE Before(q, n, steps)
     BY <1>1, <3>1, <3>3, BeforeStays
   <3> QED  BY <2>2, <3>2, <3>3 DEF InCall
  <2>7. InCall(n, steps)'
    BY <1>2, <2>3, <2>5, <2>6 DEF InCall
  <2> QED  BY <1>2, <2>7 DEF SameCall
 <1> QED  BY <1>4, <1>5 DEF Moves

LEMMA MovesKeepOrder ==
    ASSUME PipelineTypes, CallsInOrder, SameEnd, NEW r \in Ranks, Moves(r)
    PROVE  CallsInOrder' /\ SameEnd'
 <1>1. /\ SameProgram /\ mem'[r].kernel = mem[r].kernel
       /\ \A q \in Ranks \ {r} : SameRank(q)
   BY MovesAlone
 <1>2. Ranks' = Ranks
   BY <1>1 DEF SameProgram, Ranks, Size
 <1>3. CallsInOrder'
   BY <1>1, <1>2 DEF CallsInOrder, Made, SameProgram
 <1>4. \A q \in Ranks : mem'[q].kernel = mem[q].kernel
   BY <1>1 DEF SameRank, SameSolverOf
 <1>5. SameEnd'
  <2>1. ASSUME NEW q \in Ranks, NEW p \in Ranks
        PROVE  mem'[q].kernel = mem'[p].kernel /\ ended'[q] = ended'[p]
    BY <1>1, <1>4 DEF SameEnd, SameProgram
  <2> QED  BY <1>2, <2>1 DEF SameEnd
 <1> QED  BY <1>3, <1>5

LEMMA MovesWait ==
    ASSUME PipelineTypes, SameCall, WaitsForAll, NEW r \in Ranks, Moves(r)
    PROVE  WaitsForAll'
 <1>1. SameProgram /\ \A q \in Ranks \ {r} : SameRank(q)
   BY MovesAlone
 <1>2. Ranks' = Ranks
   BY <1>1 DEF SameProgram, Ranks, Size
 <1>3. ASSUME waiting'[r]
       PROVE  todo'[r] # <<>> /\ Head(todo'[r]) \notin Locals
  <2>1. CASE Enters(r)
    BY <2>1 DEF Enters, EntersAlike, Enter, Standing
  <2>2. CASE Continues(r)
    BY <1>3, <2>2 DEF Continues, Standing
  <2>3. CASE Throws(r)
   <3>1. Standing(r) /\ Head(todo[r]) \in {"tree", "walk"} /\ todo'[r] = Unwound(r)
     BY <2>3 DEF Throws, Throw, PipelineTypes
   <3>2. PICK n \in 1 .. Len(setup.calls), steps \in Seq(Steps) :
            InCall(n, steps) /\ Inside(r, n, steps)
     BY <3>1, MoverIsInside DEF Standing
   <3>3. Unwound(r) # <<>> /\ Head(Unwound(r)) = "complete"
     BY <3>1, <3>2, ThrownOnPath DEF InCall, Inside
   <3>4. "complete" \notin Locals
     BY DEF Locals
   <3> QED  BY <3>1, <3>3, <3>4
  <2>4. CASE Stands
    BY <1>3, <2>4 DEF Stands, WaitsForAll
  <2> QED  BY <2>1, <2>2, <2>3, <2>4 DEF Moves
 <1>4. ASSUME NEW q \in Ranks, waiting'[q]
       PROVE  todo'[q] # <<>> /\ Head(todo'[q]) \notin Locals
  <2>1. CASE q = r
    BY <1>3, <1>4, <2>1
  <2>2. CASE q # r
    BY <1>1, <1>4, <2>2 DEF SameRank, WaitsForAll
  <2> QED  BY <2>1, <2>2
 <1> QED  BY <1>2, <1>4 DEF WaitsForAll

(* Where a rank stands that leaves a local step, or enters a collective.   *)
LEMMA WhereItMoves ==
    ASSUME PipelineTypes, SameCall, NEW r \in Ranks, Moves(r), ~ Stands
    PROVE  /\ ~ waiting[r]
           /\ \/ /\ Enters(r) /\ StepOf(r)' = StepOf(r)
                 /\ StepOf(r) = Head(todo[r]) /\ waiting'[r] = TRUE
              \/ /\ StepOf(r) \notin Keeping \union {"publish_layout"}
                 /\ cached' = cached /\ SameSolver
                 /\ waiting'[r] => StepOf(r)' \notin Keeping \union {"publish_layout"}
 <1>1. CASE Enters(r)
   BY <1>1 DEF Enters, EntersAlike, Enter, Standing, StepOf, PipelineTypes
 <1>2. CASE Continues(r)
  <2>1. Head(todo[r]) \notin Keeping \union {"publish_layout"}
    BY <1>2 DEF Continues, Locals, Keeping
  <2> QED  BY <1>2, <2>1 DEF Continues, Standing, StepOf
 <1>3. CASE Throws(r)
  <2>1. Standing(r) /\ Head(todo[r]) \in {"tree", "walk"} /\ todo'[r] = Unwound(r)
    BY <1>3 DEF Throws, Throw, PipelineTypes
  <2>2. PICK n \in 1 .. Len(setup.calls), steps \in Seq(Steps) :
           InCall(n, steps) /\ Inside(r, n, steps)
    BY <2>1, MoverIsInside DEF Standing
  <2>3. Unwound(r) # <<>> /\ Head(Unwound(r)) = "complete"
    BY <2>1, <2>2, ThrownOnPath DEF InCall, Inside
  <2>4. StepOf(r)' = "complete"
    BY <2>1, <2>3 DEF StepOf
  <2>5. StepOf(r) \in {"tree", "walk"}
    BY <2>1 DEF StepOf, Standing
  <2> QED  BY <1>3, <2>1, <2>4, <2>5 DEF Throws, Standing, Keeping
 <1> QED  BY <1>1, <1>2, <1>3 DEF Moves

LEMMA MovesKeepLayout ==
    ASSUME PipelineTypes, SameCall, SameLayout, NEW r \in Ranks, Moves(r)
    PROVE  SameLayout'
 <1>1. SameProgram /\ \A q \in Ranks \ {r} : SameRank(q)
   BY MovesAlone
 <1>2. Ranks' = Ranks
   BY <1>1 DEF SameProgram, Ranks, Size
 <1>3. CASE Stands
   BY <1>2, <1>3 DEF Stands, SameLayout, StepOf
 <1>4. CASE ~ Stands
  <2>1. \A q \in Ranks \ {r} : /\ StepOf(q)' = StepOf(q) /\ cached'[q] = cached[q]
                               /\ waiting'[q] = waiting[q] /\ error'[q] = error[q]
    BY <1>1 DEF SameRank, StepOf
  <2>2. StepOf(r)' # "publish_layout" =>
           StepOf(r) # "publish_layout" /\ cached'[r] = cached[r]
   <3>1. CASE Enters(r) /\ StepOf(r)' = StepOf(r) /\ StepOf(r) = Head(todo[r])
     BY <3>1 DEF Enters
   <3> QED  BY <1>4, <3>1, WhereItMoves
  <2>3. waiting'[r] /\ StepOf(r)' = "publish_layout" /\ ~ error'[r] => cached'[r] = TRUE
   <3>1. CASE Enters(r) /\ StepOf(r)' = StepOf(r) /\ StepOf(r) = Head(todo[r])
    <4>1. ASSUME Head(todo[r]) = "publish_layout", ~ error'[r]
          PROVE  cached'[r] = TRUE
     <5>1. "publish_layout" \in Agreed /\ "publish_layout" \notin Keeping
       BY DEF Agreed, Keeping
     <5>2. \/ Enter(r, FALSE) /\ cached' = [cached EXCEPT ![r] = TRUE]
           \/ Enter(r, TRUE) /\ cached' = cached
       BY <3>1, <4>1, <5>1 DEF Enters
     <5> QED  BY <4>1, <5>2 DEF Enter, PipelineTypes
    <4> QED  BY <3>1, <4>1
   <3> QED  BY <1>4, <3>1, WhereItMoves
  <2>4. ASSUME NEW q \in Ranks, NEW p \in Ranks,
               StepOf(q)' # "publish_layout", StepOf(p)' # "publish_layout"
        PROVE  cached'[q] = cached'[p]
   <3>1. ASSUME NEW s \in Ranks, StepOf(s)' # "publish_layout"
         PROVE  StepOf(s) # "publish_layout" /\ cached'[s] = cached[s]
     BY <2>1, <2>2, <3>1
   <3> QED  BY <2>4, <3>1 DEF SameLayout
  <2>5. ASSUME NEW q \in Ranks, waiting'[q], StepOf(q)' = "publish_layout", ~ error'[q]
        PROVE  cached'[q] = TRUE
   <3>1. CASE q = r
     BY <2>3, <2>5, <3>1
   <3>2. CASE q # r
     BY <2>1, <2>5, <3>2 DEF SameLayout
   <3> QED  BY <3>1, <3>2
  <2> QED  BY <1>2, <2>4, <2>5 DEF SameLayout
 <1> QED  BY <1>3, <1>4

LEMMA MovesKeepWorkspace ==
    ASSUME PipelineTypes, SameCall, SameWorkspace, NEW r \in Ranks, Moves(r)
    PROVE  SameWorkspace'
 <1>1. SameProgram /\ \A q \in Ranks \ {r} : SameRank(q)
   BY MovesAlone
 <1>2. Ranks' = Ranks
   BY <1>1 DEF SameProgram, Ranks, Size
 <1>3. CASE Stands
   BY <1>2, <1>3 DEF Stands, SameWorkspace, FailedTogether, StepOf
 <1>4. CASE ~ Stands
  <2>1. \A q \in Ranks \ {r} : /\ StepOf(q)' = StepOf(q)
                               /\ mem'[q].workspace = mem[q].workspace
                               /\ waiting'[q] = waiting[q] /\ error'[q] = error[q]
    BY <1>1 DEF SameRank, StepOf, SameSolverOf
  <2>2. ~ waiting[r]
    BY <1>4, WhereItMoves
  <2>3. StepOf(r)' \notin Keeping =>
           StepOf(r) \notin Keeping /\ mem'[r].workspace = mem[r].workspace
   <3>1. CASE Enters(r) /\ StepOf(r)' = StepOf(r) /\ StepOf(r) = Head(todo[r])
     BY <3>1 DEF Enters, SameSolver, SameSolverOf
   <3>2. CASE StepOf(r) \notin Keeping /\ SameSolver
     BY <3>2 DEF SameSolver, SameSolverOf
   <3> QED  BY <1>4, <3>1, <3>2, WhereItMoves
  <2>4. waiting'[r] /\ StepOf(r)' \in Keeping =>
           ~ error'[r] /\ mem'[r].workspace = TRUE
   <3>1. CASE Enters(r) /\ StepOf(r)' = StepOf(r) /\ StepOf(r) = Head(todo[r])
    <4>1. ASSUME Head(todo[r]) \in Keeping
          PROVE  ~ error'[r] /\ mem'[r].workspace = TRUE
     <5>1. Head(todo[r]) \in Agreed /\ Head(todo[r]) # "publish_layout"
       BY <4>1 DEF Agreed, Keeping
     <5>2. Enter(r, FALSE) /\ mem'[r].workspace = TRUE
       BY <3>1, <5>1 DEF Enters
     <5> QED  BY <5>2 DEF Enter, PipelineTypes
    <4> QED  BY <3>1, <4>1
   <3> QED  BY <1>4, <3>1, WhereItMoves
  <2>5. ASSUME NEW q \in Ranks, NEW p \in Ranks,
               StepOf(q)' \notin Keeping, StepOf(p)' \notin Keeping
        PROVE  mem'[q].workspace = mem'[p].workspace
   <3>1. ASSUME NEW s \in Ranks, StepOf(s)' \notin Keeping
         PROVE  StepOf(s) \notin Keeping /\ mem'[s].workspace = mem[s].workspace
     BY <2>1, <2>3, <3>1
   <3>2. StepOf(q) \notin Keeping /\ mem'[q].workspace = mem[q].workspace
     BY <2>5, <3>1
   <3>3. StepOf(p) \notin Keeping /\ mem'[p].workspace = mem[p].workspace
     BY <2>5, <3>1
   <3> QED  BY <3>2, <3>3 DEF SameWorkspace
  <2>6. ASSUME NEW q \in Ranks, waiting'[q], StepOf(q)' \in Keeping
        PROVE  ~ error'[q] /\ mem'[q].workspace = TRUE
   <3>1. CASE q = r
     BY <2>4, <2>6, <3>1
   <3>2. CASE q # r
    <4>1. waiting[q] /\ StepOf(q) \in Keeping
      BY <2>1, <2>6, <3>2
    <4>2. ~ FailedTogether(q)
      BY <2>2 DEF FailedTogether
    <4>3. ~ error[q] /\ mem[q].workspace = TRUE
      BY <4>1, <4>2 DEF SameWorkspace
    <4> QED  BY <2>1, <3>2, <4>3
   <3> QED  BY <3>1, <3>2
  <2> QED  BY <1>2, <2>5, <2>6 DEF SameWorkspace
 <1> QED  BY <1>3, <1>4

-----------------------------------------------------------------------------
(* A rank makes its next call: one it skips, or the call others are in, or *)
(* one that none of them has made.                                         *)
LEMMA CallAlone ==
    ASSUME PipelineTypes, CallsInOrder, WaitsForAll, NEW r \in Ranks, Call(r)
    PROVE  /\ PipelineTypes' /\ CallsInOrder' /\ Ranks' = Ranks /\ setup' = setup
           /\ ended' = ended /\ waiting' = waiting /\ error' = error /\ cached' = cached
           /\ SameSolver /\ ~ waiting[r]
           /\ \A q \in Ranks \ {r} : todo'[q] = todo[q] /\ Made(q)' = Made(q)
           /\ todo[r] = <<>> /\ Made(r)' = Made(r) + 1
           /\ Made(r) + 1 \in 1 .. Len(setup.calls)
           /\ todo'[r] = IF Skipped(r, Made(r) + 1) THEN <<>> ELSE Fresh(r, Made(r) + 1)
 <1>1. /\ setup' = setup /\ ended' = ended /\ waiting' = waiting /\ error' = error
       /\ cached' = cached
       /\ todo[r] = <<>> /\ calls[r] # <<>> /\ calls' = [calls EXCEPT ![r] = Tail(@)]
   BY DEF Call
 <1>2. Ranks' = Ranks
   BY <1>1 DEF Ranks, Size
 <1>3. SameSolver
  <2> DEFINE b == [energy |-> <<>>, self |-> <<>>]
  <2>1. Keep(r, b) \/ mem' = mem
    BY DEF Call
  <2>2. DOMAIN b = {"energy", "self"}
    OBVIOUS
  <2> HIDE DEF b
  <2> QED  BY <2>1, <2>2, Untouched, MemoryStays
 <1>4. ~ waiting[r]
   BY <1>1 DEF WaitsForAll
 <1> DEFINE N == Len(setup.calls)
            m == Made(r)
            c == calls[r]
 <1>5. setup.calls \in Seq({"solve", "measure"}) /\ N \in Nat
   BY RankZero
 <1>6. m \in 0 .. N /\ c = SubSeq(setup.calls, m + 1, N)
   BY DEF CallsInOrder
 <1>7. c \in Seq({"solve", "measure"}) /\ Len(c) = N - m
   BY <1>5, <1>6 DEF PipelineTypes, Made
 <1>8. m + 1 \in 1 .. N
  <2>1. Len(c) # 0
    BY <1>1, <1>7, EmptySeq
  <2> QED  BY <1>5, <1>6, <1>7, <2>1
 <1>9. Head(c) = setup.calls[m + 1]
  <2> HIDE DEF c, m, N
  <2>1. Head(SubSeq(setup.calls, m + 1, N)) = setup.calls[m + 1]
    BY <1>5, <1>8 DEF N
  <2> QED  BY <1>6, <2>1
 <1>10. calls' \in [Ranks -> Seq({"solve", "measure"})] /\ calls'[r] = Tail(c)
  <2>1. Tail(c) \in Seq({"solve", "measure"})
    BY <1>1, <1>7
  <2> QED  BY <1>1, <2>1 DEF PipelineTypes
 <1>11. Made(r)' = m + 1
  <2>1. Len(Tail(c)) = N - m - 1
    BY <1>1, <1>7
  <2> QED  BY <1>1, <1>5, <1>6, <1>10, <2>1 DEF Made
 <1>12. ASSUME NEW q \in Ranks \ {r}
        PROVE  todo'[q] = todo[q] /\ Made(q)' = Made(q) /\ calls'[q] = calls[q]
  <2>1. calls'[q] = calls[q]
    BY <1>1 DEF PipelineTypes
  <2>2. todo'[q] = todo[q]
    BY DEF Call, PipelineTypes
  <2> QED  BY <1>1, <2>1, <2>2 DEF Made
 <1>13. DOMAIN todo' = Ranks
   BY DEF Call, PipelineTypes
 <1>14. todo'[r] = IF Skipped(r, m + 1) THEN <<>> ELSE Fresh(r, m + 1)
  <2>1. CASE Head(c) = "solve"
   <3>1. todo'[r] = Solve(r)
     BY <2>1 DEF Call, PipelineTypes
   <3> QED  BY <1>9, <2>1, <3>1 DEF Skipped, Fresh
  <2>2. CASE Head(c) # "solve"
   <3>1. todo'[r] = IF ended[r] = "returned" THEN Measure(r) ELSE <<>>
     BY <2>2 DEF Call, PipelineTypes
   <3> QED  BY <1>9, <2>2, <3>1 DEF Skipped, Fresh
  <2> QED  BY <2>1, <2>2
 <1>15. CallsInOrder'
  <2>1. calls'[r] = SubSeq(setup.calls, (m + 1) + 1, N)
   <3>1. N \in m + 1 .. N
     BY <1>5, <1>8
   <3> HIDE DEF c, m
   <3>2. Tail(SubSeq(setup.calls, m + 1, N)) = SubSeq(setup.calls, (m + 1) + 1, N)
     BY <1>5, <1>8, <3>1, HeadTailOfSubSeq
   <3> QED  BY <1>6, <1>10, <3>2
  <2>2. ASSUME NEW q \in Ranks
        PROVE  /\ Made(q)' \in 0 .. N
               /\ calls'[q] = SubSeq(setup.calls, Made(q)' + 1, N)
   <3>1. CASE q = r
     BY <1>8, <1>11, <2>1, <3>1
   <3>2. CASE q # r
     BY <1>12, <3>2 DEF CallsInOrder
   <3> QED  BY <3>1, <3>2
  <2> QED  BY <1>1, <1>2, <2>2 DEF CallsInOrder
 <1>16. PipelineTypes'
  <2>1. DOMAIN mem' = Ranks /\ \A q \in Ranks : {"workspace", "kernel"} \subseteq DOMAIN mem'[q]
    BY <1>3 DEF SameSolver, SameSolverOf, PipelineTypes
  <2> QED  BY <1>1, <1>2, <1>10, <1>13, <2>1 DEF PipelineTypes
 <1> QED  BY <1>1, <1>2, <1>3, <1>4, <1>8, <1>11, <1>12, <1>14, <1>15, <1>16

LEMMA CallInCall ==
    ASSUME PipelineInv, NEW r \in Ranks, Call(r)
    PROVE  SameCall'
 <1> DEFINE N == Len(setup.calls)
            j == Made(r) + 1
 <1>1. /\ PipelineTypes /\ CallsInOrder /\ SameCall /\ WaitsForAll /\ SameEnd
       /\ SameLayout /\ SameWorkspace
   BY DEF PipelineInv
 <1>2. /\ PipelineTypes' /\ Ranks' = Ranks /\ setup' = setup /\ ended' = ended
       /\ cached' = cached /\ SameSolver
       /\ todo[r] = <<>> /\ Made(r)' = j /\ j \in 1 .. N
       /\ todo'[r] = IF Skipped(r, j) THEN <<>> ELSE Fresh(r, j)
       /\ \A q \in Ranks \ {r} : todo'[q] = todo[q] /\ Made(q)' = Made(q)
   BY <1>1, CallAlone
 <1>3. /\ \A q \in Ranks : Made(q) \in 0 .. N
       /\ N \in Nat
   BY <1>1, RankZero DEF CallsInOrder
 <1>4. \A q, i : Skipped(q, i)' <=> Skipped(q, i)
   BY <1>2 DEF Skipped
 <1>5. ASSUME NEW q \in Ranks, NEW i
       PROVE  Fresh(q, i)' = Fresh(q, i)
   BY <1>2, FreshStays DEF SameSolver, SameSolverOf
 <1>6. ASSUME NEW q \in Ranks, NEW i
       PROVE  Skipped(q, i) <=> Skipped(r, i)
   BY <1>1 DEF SameEnd, Skipped
 <1>7. ASSUME NEW q \in Ranks, NEW i, todo[q] = <<>>
       PROVE  Fresh(q, i) = Fresh(r, i)
  <2>1. StepOf(q) = "nothing" /\ StepOf(r) = "nothing"
    BY <1>2, <1>7 DEF StepOf
  <2>2. "nothing" \notin Keeping /\ "nothing" # "publish_layout"
    BY DEF Keeping
  <2>3. cached[q] = cached[r] /\ mem[q].workspace = mem[r].workspace
    BY <1>1, <2>1, <2>2 DEF SameLayout, SameWorkspace
  <2>4. mem[q].kernel = mem[r].kernel
    BY <1>1 DEF SameEnd
  <2> QED  BY <2>3, <2>4, FreshAlike
 <1>8. Path(Fresh(r, j)) /\ Fresh(r, j) \in Seq(Steps) /\ Fresh(r, j) # <<>>
       /\ OnPath(Fresh(r, j), Fresh(r, j))
   BY FreshIsPath, StartsOnPath
 <1>9. ASSUME NEW b \in 0 .. N, AtRest(b), Skipped(r, j)
       PROVE  SameCall'
  <2>1. ASSUME NEW q \in Ranks
        PROVE  /\ todo'[q] = <<>> /\ b <= Made(q)'
               /\ \A i \in b + 1 .. Made(q)' : Skipped(q, i)
   <3>1. todo[q] = <<>> /\ b <= Made(q) /\ \A i \in b + 1 .. Made(q) : Skipped(q, i)
     BY <1>9 DEF AtRest
   <3>2. CASE q = r
    <4>1. todo'[q] = <<>> /\ b <= Made(q)'
      BY <1>2, <1>3, <1>9, <3>1, <3>2
    <4>2. ASSUME NEW i \in b + 1 .. Made(q)'
          PROVE  Skipped(q, i)
     <5>1. i \in b + 1 .. Made(q) \/ i = j
       BY <1>2, <1>3, <3>2
     <5> QED  BY <1>9, <3>1, <3>2, <5>1
    <4> QED  BY <4>1, <4>2
   <3>3. CASE q # r
     BY <1>2, <3>1, <3>3
   <3> QED  BY <3>2, <3>3
  <2>2. AtRest(b)'
    BY <1>2, <1>4, <2>1 DEF AtRest
  <2> QED  BY <1>2, <2>2 DEF SameCall
 <1>10. ASSUME NEW b \in 0 .. N, AtRest(b), ~ Skipped(r, j)
        PROVE  SameCall'
  <2>0. PICK n \in 1 .. N, L \in Seq(Steps) : n = j /\ L = Fresh(r, j)
    BY <1>2, <1>8
  <2>1. Inside(r, n, L)'
    BY <1>2, <1>8, <1>10, <2>0 DEF Inside
  <2>2. ASSUME NEW q \in Ranks \ {r}
        PROVE  Before(q, n, L)'
   <3>1. todo[q] = <<>> /\ b <= Made(q) /\ \A i \in b + 1 .. Made(q) : Skipped(q, i)
     BY <1>10 DEF AtRest
   <3>2. b <= Made(r) /\ \A i \in b + 1 .. Made(r) : Skipped(r, i)
     BY <1>10 DEF AtRest
   <3>3. ~ Skipped(q, n)
     BY <1>6, <1>10, <2>0
   <3>4. Made(q) < n
    <4>1. ~ (n \in b + 1 .. Made(q))
      BY <3>1, <3>3
    <4> QED  BY <1>2, <1>3, <2>0, <3>2, <4>1
   <3>5. ASSUME NEW i \in Made(q) + 1 .. n - 1
         PROVE  Skipped(q, i)
    <4>1. i \in b + 1 .. Made(r)
      BY <1>3, <2>0, <3>1
    <4> QED  BY <1>6, <3>2, <4>1
   <3>6. L = Fresh(q, n)'
     BY <1>5, <1>7, <2>0, <3>1
   <3> QED  BY <1>2, <1>4, <3>1, <3>3, <3>4, <3>5, <3>6 DEF Before
  <2>3. InCall(n, L)'
    BY <1>2, <1>8, <2>0, <2>1, <2>2 DEF InCall
  <2> QED  BY <1>2, <2>3 DEF SameCall
 <1>11. ASSUME NEW n \in 1 .. N, NEW steps \in Seq(Steps), InCall(n, steps)
        PROVE  SameCall'
  <2>1. Before(r, n, steps)
    BY <1>2, <1>11 DEF InCall, Inside
  <2>2. j <= n
    BY <1>3, <2>1 DEF Before
  <2>3. Inside(r, n, steps)' \/ Before(r, n, steps)'
   <3>1. CASE j = n
    <4>1. ~ Skipped(r, j) /\ steps = Fresh(r, j)
      BY <2>1, <3>1 DEF Before
    <4> QED  BY <1>2, <1>8, <3>1, <4>1 DEF Inside
   <3>2. CASE j # n
    <4>1. j \in Made(r) + 1 .. n - 1
      BY <1>3, <2>2, <3>2
    <4>2. Skipped(r, j)
      BY <2>1, <4>1 DEF Before
    <4>3. \A i \in j + 1 .. n - 1 : Skipped(r, i)
      BY <1>3, <2>1 DEF Before
    <4>4. ~ Skipped(r, n) /\ steps = Fresh(r, n)'
      BY <1>5, <2>1 DEF Before
    <4>5. j < n
      BY <1>2, <2>2, <3>2
    <4> QED  BY <1>2, <1>4, <4>2, <4>3, <4>4, <4>5 DEF Before
   <3> QED  BY <3>1, <3>2
  <2>4. ASSUME NEW q \in Ranks \ {r}
        PROVE  Inside(q, n, steps)' \/ Before(q, n, steps)'
   <3>1. CASE Inside(q, n, steps)
     BY <1>2, <3>1 DEF Inside
   <3>2. CASE Before(q, n, steps)
     BY <1>2, <1>4, <1>5, <3>2 DEF Before
   <3> QED  BY <1>11, <3>1, <3>2 DEF InCall
  <2>5. InCall(n, steps)'
    BY <1>2, <1>11, <2>3, <2>4 DEF InCall
  <2> QED  BY <1>2, <2>5 DEF SameCall
 <1> QED  BY <1>1, <1>9, <1>10, <1>11 DEF SameCall

LEMMA CallKeeps ==
    ASSUME PipelineInv, NEW r \in Ranks, Call(r)
    PROVE  PipelineInv'
 <1>1. /\ PipelineTypes /\ CallsInOrder /\ SameCall /\ WaitsForAll /\ SameEnd
       /\ SameLayout /\ SameWorkspace
   BY DEF PipelineInv
 <1>2. /\ PipelineTypes' /\ CallsInOrder' /\ Ranks' = Ranks
       /\ ended' = ended /\ waiting' = waiting /\ error' = error /\ cached' = cached
       /\ SameSolver /\ ~ waiting[r] /\ todo[r] = <<>>
       /\ \A q \in Ranks \ {r} : todo'[q] = todo[q]
   BY <1>1, CallAlone
 <1>3. SameCall'
   BY CallInCall
 <1>4. /\ StepOf(r) \notin Keeping \union {"publish_layout"}
       /\ \A q \in Ranks \ {r} : StepOf(q)' = StepOf(q)
   BY <1>2 DEF StepOf, Keeping
 <1>5. \A q \in Ranks : /\ mem'[q].workspace = mem[q].workspace
                        /\ mem'[q].kernel = mem[q].kernel
   BY <1>2 DEF SameSolver, SameSolverOf
 <1>6. WaitsForAll'
  <2>1. ASSUME NEW q \in Ranks, waiting'[q]
        PROVE  todo'[q] # <<>> /\ Head(todo'[q]) \notin Locals
    BY <1>1, <1>2, <2>1 DEF WaitsForAll
  <2> QED  BY <1>2, <2>1 DEF WaitsForAll
 <1>7. SameEnd'
  <2>1. ASSUME NEW q \in Ranks, NEW p \in Ranks
        PROVE  mem'[q].kernel = mem'[p].kernel /\ ended'[q] = ended'[p]
    BY <1>1, <1>2, <1>5 DEF SameEnd
  <2> QED  BY <1>2, <2>1 DEF SameEnd
 <1>8. SameLayout'
  <2>1. ASSUME NEW q \in Ranks, NEW p \in Ranks,
               StepOf(q)' # "publish_layout", StepOf(p)' # "publish_layout"
        PROVE  cached'[q] = cached'[p]
    BY <1>1, <1>2, <1>4, <2>1 DEF SameLayout
  <2>2. ASSUME NEW q \in Ranks, waiting'[q], StepOf(q)' = "publish_layout", ~ error'[q]
        PROVE  cached'[q] = TRUE
    BY <1>1, <1>2, <1>4, <2>2 DEF SameLayout
  <2> QED  BY <1>2, <2>1, <2>2 DEF SameLayout
 <1>9. SameWorkspace'
  <2>1. ASSUME NEW q \in Ranks, NEW p \in Ranks,
               StepOf(q)' \notin Keeping, StepOf(p)' \notin Keeping
        PROVE  mem'[q].workspace = mem'[p].workspace
   <3>1. ASSUME NEW s \in Ranks, StepOf(s)' \notin Keeping
         PROVE  StepOf(s) \notin Keeping
     BY <1>4, <3>1
   <3>2. StepOf(q) \notin Keeping /\ StepOf(p) \notin Keeping
     BY <2>1, <3>1
   <3>3. mem[q].workspace = mem[p].workspace
     BY <1>1, <3>2 DEF SameWorkspace
   <3> QED  BY <1>5, <3>3
  <2>2. ASSUME NEW q \in Ranks, waiting'[q], StepOf(q)' \in Keeping
        PROVE  ~ error'[q] /\ mem'[q].workspace = TRUE
   <3>1. q # r /\ waiting[q]
     BY <1>2, <2>2
   <3>2. StepOf(q) \in Keeping
     BY <1>4, <2>2, <3>1
   <3>3. ~ FailedTogether(q)
     BY <1>2 DEF FailedTogether
   <3> QED  BY <1>1, <1>2, <1>5, <3>1, <3>2, <3>3 DEF SameWorkspace
  <2> QED  BY <1>2, <2>1, <2>2 DEF SameWorkspace
 <1> QED  BY <1>2, <1>3, <1>6, <1>7, <1>8, <1>9 DEF PipelineInv

-----------------------------------------------------------------------------
(* All ranks leave a collective together.                                  *)
LEMMA MeetsTogether ==
    ASSUME PipelineInv, Meets
    PROVE  /\ \E n \in 1 .. Len(setup.calls) : \A q \in Ranks : Made(q) = n
           /\ \A q, r \in Ranks : todo[q] = todo[r] /\ Rest(q) = Rest(r)
           /\ \A r \in Ranks : /\ todo[r] # <<>> /\ Path(todo[r])
                               /\ Rest(r) = <<>> \/ Path(Rest(r))
                               /\ Failed /\ Rest(r) # <<>> => Head(Rest(r)) \notin Locals
 <1>1. PipelineTypes /\ SameCall /\ WaitsForAll /\ \A r \in Ranks : waiting[r]
   BY DEF PipelineInv, Meets, Proceed, AllWait
 <1>2. PICK n \in 1 .. Len(setup.calls), steps \in Seq(Steps) :
          /\ InCall(n, steps)
          /\ \A q \in Ranks : Inside(q, n, steps) /\ todo[q] = todo[0]
  <2>1. 0 \in Ranks
    BY <1>1, RankZero
  <2> QED  BY <1>1, <2>1, WaitingMeet
 <1>3. \A q \in Ranks : Made(q) = n
   BY <1>2 DEF Inside
 <1>4. ASSUME NEW r \in Ranks
       PROVE  todo[r] # <<>> /\ Path(todo[r])
  <2>1. Path(steps) /\ OnPath(todo[r], steps) /\ todo[r] # <<>>
    BY <1>2 DEF InCall, Inside
  <2> QED  BY <2>1, PathGoesOn DEF OnPath
 <1>5. ASSUME NEW r \in Ranks
       PROVE  /\ Rest(r) = <<>> \/ Path(Rest(r))
              /\ Failed /\ Rest(r) # <<>> => Head(Rest(r)) \notin Locals
   BY <1>4, PathLeft DEF Rest
 <1>6. ASSUME NEW q \in Ranks, NEW r \in Ranks
       PROVE  todo[q] = todo[r] /\ Rest(q) = Rest(r)
   BY <1>2 DEF Rest, Unwound
 <1> QED  BY <1>3, <1>4, <1>5, <1>6

LEMMA MeetsKeepTypes ==
    ASSUME PipelineTypes, Meets
    PROVE  PipelineTypes' /\ Ranks' = Ranks
 <1>1. /\ setup' = setup /\ calls' = calls
       /\ todo' = [r \in Ranks |-> Rest(r)]
       /\ waiting' = [r \in Ranks |-> Failed /\ Rest(r) # <<>>]
       /\ error' = [r \in Ranks |-> Failed /\ Rest(r) # <<>>]
       /\ DOMAIN ended' = Ranks
   BY DEF Meets, Proceed
 <1>2. Ranks' = Ranks
   BY <1>1 DEF Ranks, Size
 <1>3. DOMAIN todo' = Ranks
   BY <1>1
 <1>4. waiting' \in [Ranks -> BOOLEAN] /\ error' \in [Ranks -> BOOLEAN]
   BY <1>1
 <1>5. cached' \in [Ranks -> BOOLEAN]
   BY DEF Meets, KeptLayouts
 <1>6. DOMAIN mem' = Ranks /\ \A q \in Ranks : {"workspace", "kernel"} \subseteq DOMAIN mem'[q]
   BY DEF Meets
 <1> QED  BY <1>1, <1>2, <1>3, <1>4, <1>5, <1>6 DEF PipelineTypes

LEMMA MeetsKeep ==
    ASSUME PipelineInv, Meets
    PROVE  PipelineInv'
 <1>1. /\ PipelineTypes /\ CallsInOrder /\ SameCall /\ WaitsForAll /\ SameEnd
       /\ SameLayout /\ SameWorkspace
   BY DEF PipelineInv
 <1>2. PipelineTypes' /\ Ranks' = Ranks
   BY <1>1, MeetsKeepTypes
 <1>3. /\ setup' = setup /\ calls' = calls
       /\ \A r \in Ranks : /\ waiting[r] /\ todo'[r] = Rest(r)
                           /\ waiting'[r] = (Failed /\ Rest(r) # <<>>)
                           /\ error'[r] = (Failed /\ Rest(r) # <<>>)
                           /\ ended'[r] = IF Rest(r) # <<>> THEN "running"
                                          ELSE IF Failed THEN "threw" ELSE "returned"
   BY DEF Meets, Proceed, AllWait
 <1>4. PICK n \in 1 .. Len(setup.calls) : \A q \in Ranks : Made(q) = n
   BY MeetsTogether
 <1>5. 0 \in Ranks
   BY <1>1, RankZero
 <1>6. PICK rest : rest = Rest(0)
   OBVIOUS
 <1>7. /\ \A r \in Ranks : Rest(r) = rest /\ todo'[r] = rest
       /\ rest = <<>> \/ Path(rest)
       /\ Failed /\ rest # <<>> => Head(rest) \notin Locals
   BY <1>3, <1>5, <1>6, MeetsTogether
 <1>8. \A q \in Ranks : Made(q)' = n
   BY <1>3, <1>4 DEF Made
 <1>9. CallsInOrder'
   BY <1>1, <1>2, <1>3 DEF CallsInOrder, Made
 <1>10. SameCall'
  <2>1. CASE rest = <<>>
   <3>1. n \in 0 .. Len(setup.calls) /\ n + 1 > n
     OBVIOUS
   <3>2. AtRest(n)'
     BY <1>2, <1>7, <1>8, <2>1, <3>1 DEF AtRest
   <3> QED  BY <1>3, <3>1, <3>2 DEF SameCall
  <2>2. CASE rest # <<>>
   <3>1. Path(rest) /\ rest \in Seq(Steps) /\ OnPath(rest, rest)
     BY <1>7, <2>2, StartsOnPath DEF Path, Arranged
   <3>2. \A q \in Ranks : Inside(q, n, rest)'
     BY <1>7, <1>8, <2>2, <3>1 DEF Inside
   <3>3. InCall(n, rest)'
     BY <1>2, <3>1, <3>2 DEF InCall
   <3> QED  BY <1>3, <3>1, <3>3 DEF SameCall
  <2> QED  BY <2>1, <2>2
 <1>11. WaitsForAll'
  <2>1. ASSUME NEW q \in Ranks, waiting'[q]
        PROVE  todo'[q] # <<>> /\ Head(todo'[q]) \notin Locals
    BY <1>3, <1>7, <2>1
  <2> QED  BY <1>2, <2>1 DEF WaitsForAll
 <1>12. SameEnd'
  <2>1. ASSUME NEW q \in Ranks, NEW p \in Ranks
        PROVE  mem'[q].kernel = mem'[p].kernel
    BY <1>1 DEF Meets, SameEnd
  <2>2. ASSUME NEW q \in Ranks, NEW p \in Ranks
        PROVE  ended'[q] = ended'[p]
    BY <1>3, <1>7
  <2> QED  BY <1>2, <2>1, <2>2 DEF SameEnd
 <1>13. \A q, r \in Ranks : StepOf(q) = StepOf(r) /\ StepOf(q)' = StepOf(r)'
                            /\ StepOf(q) = Head(todo[q])
   BY <1>7, MeetsTogether DEF StepOf
 <1>14. \A r \in Ranks : waiting'[r] => error'[r]
   BY <1>3
 <1>15. SameLayout'
  <2>1. ASSUME NEW q \in Ranks, NEW p \in Ranks
        PROVE  cached'[q] = cached'[p]
   <3>1. /\ cached'[q] = (cached[q] /\ ~ (Failed /\ StepOf(q) = "publish_layout"))
         /\ cached'[p] = (cached[p] /\ ~ (Failed /\ StepOf(p) = "publish_layout"))
     BY <1>13 DEF Meets, KeptLayouts
   <3>2. cached[q] \in BOOLEAN /\ cached[p] \in BOOLEAN /\ StepOf(q) = StepOf(p)
     BY <1>1, <1>13 DEF PipelineTypes
   <3>3. CASE StepOf(q) # "publish_layout"
    <4>1. cached[q] = cached[p]
      BY <1>1, <3>2, <3>3 DEF SameLayout
    <4> QED  BY <3>1, <3>2, <4>1
   <3>4. CASE StepOf(q) = "publish_layout" /\ Failed
     BY <3>1, <3>2, <3>4
   <3>5. CASE StepOf(q) = "publish_layout" /\ ~ Failed
    <4>1. cached[q] = TRUE /\ cached[p] = TRUE
      BY <1>1, <1>3, <3>2, <3>5 DEF SameLayout, Failed
    <4> QED  BY <3>1, <3>2, <4>1
   <3> QED  BY <3>3, <3>4, <3>5
  <2> QED  BY <1>2, <1>14, <2>1 DEF SameLayout
 <1>16. SameWorkspace'
  <2>1. ASSUME NEW q \in Ranks, NEW p \in Ranks
        PROVE  mem'[q].workspace = mem'[p].workspace
   <3>1. mem'[q].workspace = mem[q].workspace /\ mem'[p].workspace = mem[p].workspace
     BY DEF Meets
   <3>2. StepOf(q) = StepOf(p)
     BY <1>13
   <3>3. CASE StepOf(q) \notin Keeping
     BY <1>1, <3>1, <3>2, <3>3 DEF SameWorkspace
   <3>4. CASE StepOf(q) \in Keeping
    <4>1. /\ FailedTogether(q) \/ mem[q].workspace = TRUE
          /\ FailedTogether(p) \/ mem[p].workspace = TRUE
      BY <1>1, <1>3, <3>2, <3>4 DEF SameWorkspace
    <4>2. CASE FailedTogether(q)
      BY <3>1, <4>2 DEF FailedTogether
    <4>3. CASE FailedTogether(p)
      BY <3>1, <4>3 DEF FailedTogether
    <4> QED  BY <3>1, <4>1, <4>2, <4>3
   <3> QED  BY <3>3, <3>4
  <2>2. ASSUME NEW r \in Ranks, waiting'[r]
        PROVE  error'[r] /\ FailedTogether(r)'
   <3>1. Failed /\ rest # <<>>
     BY <1>3, <1>7, <2>2
   <3>2. \A q \in Ranks : waiting'[q] /\ error'[q]
     BY <1>3, <1>7, <3>1
   <3>3. \A q \in Ranks : StepOf(q)' = StepOf(r)' /\ mem'[q].workspace = mem'[r].workspace
     BY <1>13, <2>1
   <3> QED  BY <1>2, <3>2, <3>3 DEF FailedTogether
  <2> QED  BY <1>2, <2>1, <2>2 DEF SameWorkspace
 <1> QED  BY <1>2, <1>9, <1>10, <1>11, <1>12, <1>15, <1>16 DEF PipelineInv

-----------------------------------------------------------------------------
LEMMA StartsTogether ==
    ASSUME Init
    PROVE  PipelineInv
 <1>1. setup \in Setups /\ setup.calls \in Seq({"solve", "measure"})
       /\ Len(setup.calls) \in Nat
   BY ForcePipelineAssumption DEF Init
 <1>2. PipelineTypes
  <2>1. "workspace" \in DOMAIN EmptyMemory /\ "kernel" \in DOMAIN EmptyMemory
    BY DEF EmptyMemory
  <2> HIDE DEF EmptyMemory
  <2>2. calls \in [Ranks -> Seq({"solve", "measure"})]
    BY <1>1 DEF Init
  <2>3. /\ DOMAIN todo = Ranks /\ DOMAIN ended = Ranks /\ DOMAIN mem = Ranks
        /\ waiting \in [Ranks -> BOOLEAN] /\ error \in [Ranks -> BOOLEAN]
        /\ cached \in [Ranks -> BOOLEAN]
    BY DEF Init
  <2>4. \A r \in Ranks : {"workspace", "kernel"} \subseteq DOMAIN mem[r]
    BY <2>1 DEF Init
  <2> QED  BY <1>1, <2>2, <2>3, <2>4 DEF PipelineTypes
 <1>3. \A r \in Ranks : /\ calls[r] = setup.calls /\ todo[r] = <<>> /\ ~ waiting[r]
                        /\ mem[r] = EmptyMemory /\ ended[r] = "returned"
                        /\ cached[r] = FALSE
   BY DEF Init
 <1>4. \A r \in Ranks : Made(r) = 0
   BY <1>1, <1>3 DEF Made
 <1>5. CallsInOrder
  <2>1. SubSeq(setup.calls, 0 + 1, Len(setup.calls)) = setup.calls
    BY <1>1, SubSeqFull
  <2> QED  BY <1>1, <1>3, <1>4, <2>1 DEF CallsInOrder
 <1>6. SameCall
  <2>1. AtRest(0)
    BY <1>3, <1>4 DEF AtRest
  <2> QED  BY <1>1, <2>1 DEF SameCall
 <1> QED  BY <1>2, <1>3, <1>5, <1>6
          DEF PipelineInv, WaitsForAll, SameEnd, SameLayout, SameWorkspace

LEMMA StepsKeepTogether ==
    ASSUME Unprotected = {}, PipelineInv, [Next]_vars
    PROVE  PipelineInv'
 <1>1. PipelineTypes
   BY DEF PipelineInv
 <1>2. ASSUME NEW r \in Ranks, Moves(r)
       PROVE  PipelineInv'
   BY <1>2, MovesAlone, MovesInCall, MovesKeepOrder, MovesWait, MovesKeepLayout,
      MovesKeepWorkspace DEF PipelineInv
 <1>3. ASSUME NEW r \in Ranks, RankStep(r)
       PROVE  PipelineInv'
   BY <1>1, <1>2, <1>3, StepsMove, CallKeeps
 <1>4. CASE Meeting
   BY <1>1, <1>4, MeetingsMeet, MeetsKeep
 <1>5. CASE UNCHANGED vars
  <2>1. 0 \in Ranks
    BY <1>1, RankZero
  <2>2. Stands
    BY <1>5 DEF vars, Stands, SameProgram
  <2> QED  BY <1>2, <2>1, <2>2 DEF Moves
 <1> QED  BY <1>3, <1>4, <1>5 DEF Next, Done

(* "Callbacks that perform collectives must synchronize their own internal *)
(* stages": if nothing is thrown outside a stage, two ranks inside a       *)
(* collective are inside the same one, whatever fails where, with any      *)
(* number of ranks, calls, threads and failures.                           *)
THEOREM ForceCollectivesMeet ==
    ASSUME Unprotected = {}
    PROVE  Spec => []CollectivesMeet
 <1>1. Init => PipelineInv
   BY StartsTogether
 <1>2. PipelineInv /\ [Next]_vars => PipelineInv'
   BY StepsKeepTogether
 <1>3. PipelineInv => CollectivesMeet
   BY InvariantMeets
 <1> QED  BY <1>1, <1>2, <1>3, PTL DEF Spec
-----------------------------------------------------------------------------
(* The milestones of a solve, and what of them is left behind each.        *)
Milestones == {"prepare", "migrate", "materialize", "set_up", "transaction", "axis_gather",
               "gradient", "tree", "walk", "commit", "validate", "callback"}

Later(s) ==
    CASE s = "callback" -> {}
      [] s = "validate" \/ s = "commit" -> {"callback"}
      [] s = "walk" -> {"validate", "callback"}
      [] s = "tree" -> {"walk", "validate", "callback"}
      [] s = "axis_gather" -> {"tree", "walk", "validate", "callback"}
      [] s = "set_up" -> {"axis_gather", "tree", "walk", "validate", "callback"}
      [] s = "gradient" -> {"commit", "callback"}
      [] s = "transaction" -> {"gradient", "commit", "callback"}
      [] s = "materialize" ->
            IF Tree THEN {"set_up", "axis_gather", "tree", "walk", "validate", "callback"}
                    ELSE {"transaction", "gradient", "commit", "callback"}
      [] s = "migrate" ->
            IF Tree THEN {"materialize", "set_up", "axis_gather", "tree", "walk", "validate",
                          "callback"}
                    ELSE {"materialize", "transaction", "gradient", "commit", "callback"}
      [] OTHER ->
            IF Tree THEN {"migrate", "materialize", "set_up", "axis_gather", "tree", "walk",
                          "validate", "callback"}
                    ELSE {"migrate", "materialize", "transaction", "gradient", "commit",
                          "callback"}

Due(steps) == {steps[i] : i \in 1 .. Len(steps)} \intersect Milestones
Gathers(steps) == Cardinality({i \in 1 .. Len(steps) : steps[i] = "axis_gather"})

(* The mesh is not done with while a gather or the gradient is ahead; then *)
(* its steps come in one order only.                                       *)
Needed(steps) == "axis_gather" \in Due(steps) \/ "gradient" \in Due(steps)

Raw == {"spill_mass", "send_spill", "receive_spill", "spilled_mass", "density_valid",
        "mass_conserved"}
Massed == {"normalize", "source"}
Forced == {"axis_prepared", "send_force_plane", "receive_plane", "axis_gather"}
Between == {"axis_modes", "axis_finite"}
Asking == {"halo_counts", "halo_buffers", "halo_planes"}
Answering == {"halo_response", "halo_values"}
Answered == {"halo_unpack", "gradient_check", "gradient"}
Known == {"potential_finite", "halo_plan", "halo_request"} \union Asking \union Answering
         \union Answered
Region == Raw \union Massed \union Forced \union Between \union Known
          \union {"forward", "modes_finite", "axis_inverse", "inverse"}

Leads(s) ==
    CASE s = "deposit" -> IF Size = 1 THEN {"density_valid"} ELSE {"spill_mass"}
      [] s = "spill_mass" -> {"send_spill"}
      [] s = "send_spill" -> {"receive_spill"}
      [] s = "receive_spill" -> {"spilled_mass"}
      [] s = "spilled_mass" -> {"density_valid"}
      [] s = "density_valid" -> {"mass_conserved"}
      [] s = "mass_conserved" -> {"normalize"}
      [] s = "normalize" -> {"source"}
      [] s = "source" -> {"forward"}
      [] s = "forward" -> {"modes_finite"}
      [] s = "modes_finite" -> IF Tree THEN {"axis_modes"} ELSE {"inverse"}
      [] s = "axis_modes" -> {"axis_inverse"}
      [] s = "axis_inverse" -> {"axis_prepared"}
      [] s = "axis_prepared" -> IF Size = 1 THEN {"axis_gather"} ELSE {"send_force_plane"}
      [] s = "send_force_plane" -> {"receive_plane"}
      [] s = "receive_plane" -> {"axis_gather"}
      [] s = "axis_gather" -> {"axis_finite"}
      [] s = "axis_finite" -> {"axis_modes"}
      [] s = "inverse" -> {"potential_finite"}
      [] s = "potential_finite" -> IF Size = 1 THEN {"gradient"} ELSE {"halo_plan"}
      [] s = "halo_plan" -> {"halo_request"}
      [] s = "halo_request" -> {"halo_counts"}
      [] s = "halo_counts" -> {"halo_buffers"}
      [] s = "halo_buffers" -> {"halo_planes"}
      [] s = "halo_planes" -> {"halo_response"}
      [] s = "halo_response" -> {"halo_values"}
      [] s = "halo_values" -> {"halo_unpack"}
      [] s = "halo_unpack" -> {"gradient_check"}
      [] s = "gradient_check" -> {"gradient"}
      [] OTHER -> Steps \ Region

Sends == {"send_force_plane", "send_potential_plane"}
Taker(s) == IF s = "send_force_plane" THEN "axis_gather" ELSE "weighted_sum"
Mine == {"prepare"} \union Later("prepare")

Fits(h, u) ==
    /\ h \in Milestones => /\ h \in Mine
                           /\ \/ Due(u) = Later(h)
                              \/ h = "axis_gather" /\ Due(u) = Later(h) \union {h}
    /\ Needed(u) => Head(u) \in Leads(h)
    /\ h = "callback" => u = <<>>
    /\ h \in {"set_up", "deposit"} /\ "axis_gather" \in Due(u) => Gathers(u) = 3
    /\ "prepare" \notin Due(u)
    /\ h \in Sends => /\ u # <<>> /\ Head(u) = "receive_plane"
                      /\ Tail(u) # <<>> /\ Head(Tail(u)) = Taker(h)
    /\ u # <<>> => /\ Head(u) = "receive_plane" => h \in Sends
                   /\ Head(u) \in Sends => h \notin Locals

(* What is behind the i-th step.                                           *)
Rear(steps, i) == SubSeq(steps, i + 1, Len(steps))

Planned(steps) ==
    /\ steps \in Seq(Steps)
    /\ \A i \in 1 .. Len(steps) : Fits(steps[i], Rear(steps, i))

(* A walk comes after its tree only.                                       *)
Rooted(steps) == \A i \in 1 .. Len(steps) - 1 : steps[i + 1] = "walk" => steps[i] = "tree"

-----------------------------------------------------------------------------
(* Lists of steps, from their end.                                         *)
LEMMA RearOf ==
    ASSUME NEW steps \in Seq(Steps), NEW i \in 0 .. Len(steps)
    PROVE  /\ Rear(steps, i) \in Seq(Steps) /\ Len(Rear(steps, i)) = Len(steps) - i
           /\ \A j \in 1 .. Len(steps) - i : Rear(steps, i)[j] = steps[i + j]
 <1> DEFINE N == Len(steps)
            m == i + 1
 <1>1. N \in Nat /\ m \in Int /\ i \in Int /\ 1 <= m /\ N \in Int /\ N - m + 1 = N - i
   OBVIOUS
 <1>2. \A j \in m .. N : steps[j] \in Steps
  <2>1. \A j \in m .. N : j \in 1 .. N
    BY <1>1
  <2> QED  BY <2>1
 <1>3. /\ SubSeq(steps, m, N) \in Seq(Steps)
       /\ Len(SubSeq(steps, m, N)) = IF m <= N THEN N - m + 1 ELSE 0
       /\ \A j \in 1 .. N - m + 1 : SubSeq(steps, m, N)[j] = steps[m + j - 1]
  <2> HIDE DEF m, N
  <2> QED  BY <1>1, <1>2, SubSeqProperties
 <1>4. Rear(steps, i) = SubSeq(steps, m, N)
   BY DEF Rear
 <1> DEFINE u == SubSeq(steps, m, N)
 <1>5. Len(u) = N - i
  <2>1. Len(u) = IF m <= N THEN N - m + 1 ELSE 0
    BY <1>3
  <2> HIDE DEF u
  <2>2. m = i + 1 /\ i <= N /\ i >= 0
    OBVIOUS
  <2> HIDE DEF m, N
  <2> QED  BY <1>1, <2>1, <2>2
 <1>6. ASSUME NEW j \in 1 .. N - i
       PROVE  u[j] = steps[i + j]
  <2>1. j \in 1 .. N - m + 1 /\ m + j - 1 = i + j
    BY <1>1
  <2>2. u[j] = steps[m + j - 1]
    BY <1>3, <2>1
  <2> QED  BY <2>1, <2>2
 <1> HIDE DEF u
 <1> QED  BY <1>3, <1>4, <1>5, <1>6 DEF u

LEMMA RearIs ==
    ASSUME NEW steps \in Seq(Steps), NEW i \in 0 .. Len(steps), NEW u \in Seq(Steps),
           Len(u) = Len(steps) - i, \A j \in 1 .. Len(steps) - i : u[j] = steps[i + j]
    PROVE  u = Rear(steps, i)
 <1> DEFINE v == Rear(steps, i)
 <1>1. v \in Seq(Steps) /\ Len(v) = Len(steps) - i
       /\ \A j \in 1 .. Len(steps) - i : v[j] = steps[i + j]
   BY RearOf
 <1> HIDE DEF v
 <1>2. \A j \in 1 .. Len(u) : u[j] = v[j]
   BY <1>1
 <1>3. u = v
   BY <1>1, <1>2, SeqEqual
 <1> QED  BY <1>3 DEF v

LEMMA TailIsRear ==
    ASSUME NEW steps \in Seq(Steps), steps # <<>>
    PROVE  /\ Tail(steps) = Rear(steps, 1) /\ Head(steps) = steps[1]
           /\ Head(steps) \in Steps /\ Tail(steps) \in Seq(Steps)
           /\ Len(steps) \in Nat \ {0} /\ Len(Tail(steps)) = Len(steps) - 1
           /\ \A j \in 1 .. Len(Tail(steps)) : Tail(steps)[j] = steps[1 + j]
 <1>1. Len(steps) \in Nat \ {0} /\ 1 \in 0 .. Len(steps) /\ 1 \in 1 .. Len(steps)
   OBVIOUS
 <1>2. Tail(steps) \in Seq(Steps) /\ Len(Tail(steps)) = Len(steps) - 1
       /\ \A j \in 1 .. Len(Tail(steps)) : Tail(steps)[j] = steps[j + 1]
   BY HeadTailProperties
 <1>3. \A j \in 1 .. Len(steps) - 1 : Tail(steps)[j] = steps[1 + j]
  <2> DEFINE t == Tail(steps)
  <2>1. \A j \in 1 .. Len(t) : t[j] = steps[j + 1]
    BY <1>2
  <2>2. Len(t) = Len(steps) - 1
    BY <1>2
  <2> HIDE DEF t
  <2>3. \A j \in 1 .. Len(steps) - 1 : t[j] = steps[1 + j]
    BY <1>1, <2>1, <2>2
  <2> QED  BY <2>3 DEF t
 <1>4. Tail(steps) = Rear(steps, 1)
   BY <1>1, <1>2, <1>3, RearIs
 <1>5. Head(steps) = steps[1]
   OBVIOUS
 <1>6. Head(steps) \in Steps
   BY HeadTailProperties
 <1> QED  BY <1>1, <1>2, <1>3, <1>4, <1>5, <1>6

LEMMA RearOfRear ==
    ASSUME NEW steps \in Seq(Steps), NEW k \in 0 .. Len(steps), NEW i \in 0 .. Len(steps) - k
    PROVE  Rear(Rear(steps, k), i) = Rear(steps, k + i)
 <1> DEFINE u == Rear(steps, k)
            v == Rear(u, i)
 <1>1. Len(steps) \in Nat
   OBVIOUS
 <1>2. /\ u \in Seq(Steps) /\ Len(u) = Len(steps) - k
       /\ \A j \in 1 .. Len(steps) - k : u[j] = steps[k + j]
   BY RearOf
 <1> HIDE DEF u
 <1>3. i \in 0 .. Len(u)
   BY <1>2
 <1>4. v \in Seq(Steps) /\ Len(v) = Len(u) - i
       /\ \A j \in 1 .. Len(u) - i : v[j] = u[i + j]
   BY <1>2, <1>3, RearOf
 <1> HIDE DEF v
 <1>5. k + i \in 0 .. Len(steps) /\ Len(v) = Len(steps) - (k + i)
   BY <1>1, <1>2, <1>4
 <1>6. ASSUME NEW j \in 1 .. Len(steps) - (k + i)
       PROVE  v[j] = steps[(k + i) + j]
  <2>1. j \in 1 .. Len(u) - i /\ i + j \in 1 .. Len(steps) - k /\ k + (i + j) = (k + i) + j
    BY <1>1, <1>2
  <2>2. v[j] = u[i + j]
    BY <1>4, <2>1
  <2>3. u[i + j] = steps[k + (i + j)]
    BY <1>2, <2>1
  <2> QED  BY <2>1, <2>2, <2>3
 <1>7. v = Rear(steps, k + i)
   BY <1>4, <1>5, <1>6, RearIs
 <1> QED  BY <1>7 DEF u, v

LEMMA RearIsPlanned ==
    ASSUME NEW steps, Planned(steps), NEW k \in 0 .. Len(steps)
    PROVE  Planned(Rear(steps, k))
 <1> DEFINE u == Rear(steps, k)
 <1>1. steps \in Seq(Steps) /\ Len(steps) \in Nat
   BY DEF Planned
 <1>2. /\ u \in Seq(Steps) /\ Len(u) = Len(steps) - k
       /\ \A i \in 1 .. Len(steps) - k : u[i] = steps[k + i]
   BY <1>1, RearOf
 <1>3. \A i \in 0 .. Len(steps) - k : Rear(u, i) = Rear(steps, k + i)
   BY <1>1, RearOfRear
 <1> HIDE DEF u
 <1>4. ASSUME NEW i \in 1 .. Len(u)
       PROVE  Fits(u[i], Rear(u, i))
  <2>1. k + i \in 1 .. Len(steps) /\ i \in 1 .. Len(steps) - k /\ i \in 0 .. Len(steps) - k
    BY <1>1, <1>2
  <2>2. Fits(steps[k + i], Rear(steps, k + i))
    BY <2>1 DEF Planned
  <2>3. u[i] = steps[k + i] /\ Rear(u, i) = Rear(steps, k + i)
    BY <1>2, <1>3, <2>1
  <2> QED  BY <2>2, <2>3
 <1>5. Planned(u)
   BY <1>2, <1>4 DEF Planned
 <1> QED  BY <1>5 DEF u

LEMMA NothingIsPlanned == Planned(<<>>) /\ Due(<<>>) = {} /\ Gathers(<<>>) = 0
 <1>1. <<>> \in Seq(Steps) /\ Len(<<>>) = 0 /\ 1 .. 0 = {}
   OBVIOUS
 <1>2. Gathers(<<>>) = Cardinality({})
   BY <1>1 DEF Gathers
 <1> QED  BY <1>1, <1>2, FS_EmptySet DEF Planned, Due

LEMMA PlannedStep ==
    ASSUME NEW steps, Planned(steps), steps # <<>>
    PROVE  /\ Fits(Head(steps), Tail(steps)) /\ Planned(Tail(steps))
           /\ Head(steps) \in Steps /\ Tail(steps) \in Seq(Steps) /\ steps \in Seq(Steps)
 <1>1. steps \in Seq(Steps)
   BY DEF Planned
 <1>2. /\ Tail(steps) = Rear(steps, 1) /\ Head(steps) = steps[1] /\ Head(steps) \in Steps
       /\ Tail(steps) \in Seq(Steps) /\ Len(steps) \in Nat \ {0}
   BY <1>1, TailIsRear
 <1>3. 1 \in 1 .. Len(steps) /\ 1 \in 0 .. Len(steps)
   BY <1>2
 <1>4. Fits(steps[1], Rear(steps, 1))
   BY <1>3 DEF Planned
 <1>5. Planned(Rear(steps, 1))
   BY <1>3, RearIsPlanned
 <1> QED  BY <1>1, <1>2, <1>4, <1>5

LEMMA Onward ==
    ASSUME NEW b \in Seq(Steps), NEW s \in Steps
    PROVE  /\ <<s>> \o b \in Seq(Steps) /\ <<s>> \o b # <<>>
           /\ Len(<<s>> \o b) = Len(b) + 1
           /\ Head(<<s>> \o b) = s /\ Tail(<<s>> \o b) = b
           /\ (<<s>> \o b)[1] = s
           /\ \A i \in 1 .. Len(b) : (<<s>> \o b)[i + 1] = b[i]
 <1> DEFINE c == <<s>> \o b
 <1>1. c \in Seq(Steps) /\ Len(c) = Len(b) + 1
   OBVIOUS
 <1>2. c[1] = s /\ \A i \in 1 .. Len(b) : c[i + 1] = b[i]
   OBVIOUS
 <1>3. c # <<>>
   BY <1>1
 <1>4. Head(c) = s
   BY <1>1, <1>2, <1>3
 <1>5. Tail(c) = b
  <2>1. Tail(c) \in Seq(Steps) /\ Len(Tail(c)) = Len(b)
        /\ \A i \in 1 .. Len(b) : Tail(c)[i] = c[i + 1]
   <3> HIDE DEF c
   <3> QED  BY <1>1, <1>3
  <2> HIDE DEF c
  <2> QED  BY <1>2, <2>1, SeqEqual
 <1> QED  BY <1>1, <1>2, <1>3, <1>4, <1>5

-----------------------------------------------------------------------------
(* What is due, and how many gathers.                                      *)
LEMMA DueOf ==
    ASSUME NEW steps \in Seq(Steps), steps # <<>>
    PROVE  Due(steps) = Due(Tail(steps)) \union ({Head(steps)} \intersect Milestones)
 <1> DEFINE u == Tail(steps)
 <1>1. /\ Len(steps) \in Nat \ {0} /\ u \in Seq(Steps) /\ Len(u) = Len(steps) - 1
       /\ \A i \in 1 .. Len(u) : u[i] = steps[i + 1]
       /\ Head(steps) = steps[1]
   OBVIOUS
 <1> HIDE DEF u
 <1>2. {steps[i] : i \in 1 .. Len(steps)} = {u[i] : i \in 1 .. Len(u)} \union {steps[1]}
  <2>1. ASSUME NEW i \in 1 .. Len(steps)
        PROVE  steps[i] \in {u[j] : j \in 1 .. Len(u)} \union {steps[1]}
   <3>1. CASE i = 1
     BY <3>1
   <3>2. CASE i # 1
    <4>1. i - 1 \in 1 .. Len(u) /\ u[i - 1] = steps[i]
      BY <1>1, <3>2
    <4> QED  BY <4>1
   <3> QED  BY <3>1, <3>2
  <2>2. ASSUME NEW j \in 1 .. Len(u)
        PROVE  u[j] \in {steps[i] : i \in 1 .. Len(steps)}
   <3>1. j + 1 \in 1 .. Len(steps) /\ u[j] = steps[j + 1]
     BY <1>1
   <3> QED  BY <3>1
  <2>3. 1 \in 1 .. Len(steps)
    BY <1>1
  <2> QED  BY <2>1, <2>2, <2>3
 <1> QED  BY <1>1, <1>2 DEF Due, u

(* Positions moved along are as many.                                      *)
LEMMA MovedAlong ==
    ASSUME NEW n \in Nat, NEW S \in SUBSET (1 .. n), NEW k \in Nat
    PROVE  /\ IsFiniteSet(S) /\ Cardinality(S) \in Nat
           /\ IsFiniteSet({i + k : i \in S}) /\ Cardinality({i + k : i \in S}) = Cardinality(S)
 <1> DEFINE T == {i + k : i \in S}
            f == [i \in S |-> i + k]
 <1>1. IsFiniteSet(S)
  <2>1. IsFiniteSet(1 .. n)
    BY FS_Interval
  <2> QED  BY <2>1, FS_Subset
 <1>2. f \in [S -> T]
   OBVIOUS
 <1>3. \A i, j \in S : f[i] = f[j] => i = j
   OBVIOUS
 <1>4. \A t \in T : \E i \in S : f[i] = t
   OBVIOUS
 <1>5. ExistsBijection(S, T)
  <2> HIDE DEF f, T
  <2>1. f \in Bijection(S, T)
    BY <1>2, <1>3, <1>4 DEF Bijection, Injection, Surjection, IsInjective
  <2> QED  BY <2>1 DEF ExistsBijection
 <1> HIDE DEF T
 <1>6. IsFiniteSet(T) /\ Cardinality(T) = Cardinality(S)
   BY <1>1, <1>5, FS_Bijection
 <1> QED  BY <1>1, <1>6, FS_CardinalityType DEF T

LEMMA GathersOf ==
    ASSUME NEW steps \in Seq(Steps)
    PROVE  /\ Gathers(steps) \in Nat
           /\ "axis_gather" \notin Due(steps) => Gathers(steps) = 0
           /\ steps # <<>> => Gathers(steps) = Gathers(Tail(steps))
                                 + (IF Head(steps) = "axis_gather" THEN 1 ELSE 0)
 <1> DEFINE I == {i \in 1 .. Len(steps) : steps[i] = "axis_gather"}
 <1>1. IsFiniteSet(I) /\ Cardinality(I) \in Nat
  <2>1. Len(steps) \in Nat /\ I \in SUBSET (1 .. Len(steps)) /\ 0 \in Nat
    OBVIOUS
  <2> QED  BY <2>1, MovedAlong
 <1>2. Gathers(steps) = Cardinality(I)
   BY DEF Gathers
 <1>3. ASSUME "axis_gather" \notin Due(steps)
       PROVE  Gathers(steps) = 0
  <2>1. I = {}
    BY <1>3 DEF Due, Milestones
  <2> QED  BY <1>2, <2>1, FS_EmptySet
 <1>4. ASSUME steps # <<>>
       PROVE  Gathers(steps) = Gathers(Tail(steps))
                                + (IF Head(steps) = "axis_gather" THEN 1 ELSE 0)
  <2> DEFINE u == Tail(steps)
             J == {i \in 1 .. Len(u) : u[i] = "axis_gather"}
             K == {i + 1 : i \in J}
  <2>1. /\ Len(steps) \in Nat \ {0} /\ u \in Seq(Steps) /\ Len(u) = Len(steps) - 1
        /\ \A i \in 1 .. Len(u) : u[i] = steps[i + 1]
        /\ Head(steps) = steps[1]
    BY <1>4
  <2>2. Gathers(u) = Cardinality(J)
    BY DEF Gathers
  <2> HIDE DEF u
  <2>3. Len(u) \in Nat /\ J \in SUBSET (1 .. Len(u)) /\ 1 \in Nat
    BY <2>1
  <2>4. IsFiniteSet(K) /\ Cardinality(K) = Cardinality(J) /\ Cardinality(J) \in Nat
   <3> HIDE DEF J
   <3> QED  BY <2>3, MovedAlong
  <2>5. K = I \ {1}
   <3>1. ASSUME NEW i \in J  PROVE i + 1 \in I \ {1}
     BY <2>1
   <3>2. ASSUME NEW k \in I \ {1}  PROVE k \in K
    <4>1. k - 1 \in J /\ k = (k - 1) + 1
      BY <2>1
    <4> QED  BY <4>1
   <3> QED  BY <3>1, <3>2
  <2>6. (1 \in I) <=> Head(steps) = "axis_gather"
    BY <2>1
  <2> HIDE DEF I, J, K
  <2>7. Cardinality(K) = IF 1 \in I THEN Cardinality(I) - 1 ELSE Cardinality(I)
    BY <1>1, <2>5, FS_RemoveElement
  <2> DEFINE x == Cardinality(I)
             y == Cardinality(J)
  <2>8. x \in Nat /\ y \in Nat /\ y = IF Head(steps) = "axis_gather" THEN x - 1 ELSE x
    BY <1>1, <2>4, <2>6, <2>7
  <2>9. Gathers(steps) = x /\ Gathers(u) = y
    BY <1>2, <2>2
  <2> HIDE DEF x, y
  <2>10. x = y + (IF Head(steps) = "axis_gather" THEN 1 ELSE 0)
    BY <2>8
  <2> QED  BY <2>9, <2>10 DEF u
 <1> QED  BY <1>1, <1>2, <1>3, <1>4
-----------------------------------------------------------------------------
(* A step before a list.                                                   *)
LEMMA StepBefore ==
    ASSUME NEW b, Planned(b), NEW s \in Steps, Fits(s, b)
    PROVE  /\ Planned(<<s>> \o b)
           /\ Due(<<s>> \o b) = Due(b) \union ({s} \intersect Milestones)
           /\ Gathers(<<s>> \o b) = Gathers(b) + (IF s = "axis_gather" THEN 1 ELSE 0)
           /\ Head(<<s>> \o b) = s /\ <<s>> \o b # <<>> /\ Tail(<<s>> \o b) = b
 <1> DEFINE c == <<s>> \o b
 <1>1. b \in Seq(Steps)
   BY DEF Planned
 <1>2. /\ c \in Seq(Steps) /\ c # <<>> /\ Len(c) = Len(b) + 1 /\ Len(b) \in Nat
       /\ Head(c) = s /\ Tail(c) = b /\ c[1] = s
       /\ \A i \in 1 .. Len(b) : c[i + 1] = b[i]
   BY <1>1, Onward
 <1> HIDE DEF c
 <1>3. Rear(c, 1) = b
   BY <1>2, TailIsRear
 <1>4. ASSUME NEW i \in 1 .. Len(c)
       PROVE  Fits(c[i], Rear(c, i))
  <2>1. CASE i = 1
    BY <1>2, <1>3, <2>1
  <2>2. CASE i # 1
   <3> DEFINE j == i - 1
   <3>1. j \in 1 .. Len(b) /\ i = 1 + j /\ c[i] = b[j] /\ 1 \in 0 .. Len(c)
         /\ j \in 0 .. Len(c) - 1
     BY <1>2, <2>2
   <3>2. Fits(b[j], Rear(b, j))
     BY <3>1 DEF Planned
   <3> HIDE DEF j
   <3>3. Rear(Rear(c, 1), j) = Rear(c, 1 + j)
     BY <1>2, <3>1, RearOfRear
   <3> QED  BY <1>3, <3>1, <3>2, <3>3
  <2> QED  BY <2>1, <2>2
 <1>5. Planned(c)
   BY <1>2, <1>4 DEF Planned
 <1>6. Due(c) = Due(b) \union ({s} \intersect Milestones)
   BY <1>2, DueOf
 <1>7. Gathers(c) = Gathers(b) + (IF s = "axis_gather" THEN 1 ELSE 0)
   BY <1>2, GathersOf
 <1> QED  BY <1>2, <1>5, <1>6, <1>7 DEF c

(* Steps that may stand anywhere before what needs no mesh, and steps that *)
(* may stand before a mesh solve.                                          *)
Free == Steps \ (Milestones \union Sends \union {"receive_plane", "deposit"})
Outside == Free \ Region

LEMMA FreeFits ==
    ASSUME NEW s \in Free, NEW u,
           Needed(u) => s \in Outside /\ Head(u) \notin Region /\ Head(u) \in Steps,
           "prepare" \notin Due(u),
           u # <<>> => /\ Head(u) # "receive_plane"
                       /\ Head(u) \notin Sends \/ s \notin Locals
    PROVE  Fits(s, u)
 <1>1. s \notin Milestones /\ s \notin Sends /\ s # "deposit"
   BY DEF Free
 <1>2. s # "callback" /\ s # "set_up"
   BY <1>1 DEF Milestones
 <1>3. ASSUME Needed(u)  PROVE Head(u) \in Leads(s)
  <2>1. s \notin Region
    BY <1>3 DEF Outside
  <2>2. Leads(s) = Steps \ Region
    BY <1>1, <2>1 DEF Leads, Region, Raw, Massed, Forced, Between, Known, Asking,
       Answering, Answered
  <2> QED  BY <1>3, <2>2
 <1> QED  BY <1>1, <1>2, <1>3 DEF Fits

LEMMA FreePrefix ==
    ASSUME NEW b, Planned(b), NEW a \in Seq(Free),
           Needed(b) => a \in Seq(Outside) /\ Head(b) \notin Region,
           "prepare" \notin Due(b),
           b # <<>> => Head(b) # "receive_plane" /\ Head(b) \notin Sends
    PROVE  /\ Planned(a \o b) /\ Due(a \o b) = Due(b) /\ Gathers(a \o b) = Gathers(b)
           /\ a # <<>> => Head(a \o b) = a[1] /\ a[1] \in Free /\ a \o b # <<>>
           /\ a = <<>> => a \o b = b
           /\ a \o b # <<>> => Head(a \o b) # "receive_plane" /\ Head(a \o b) \notin Sends
           /\ Needed(b) => Head(a \o b) \notin Region
           /\ b # <<>> => a \o b # <<>>
 <1> DEFINE c == a \o b
            A == Len(a)
            B == Len(b)
 <1>1. b \in Seq(Steps) /\ a \in Seq(Steps) /\ A \in Nat /\ B \in Nat
   BY DEF Planned, Free
 <1>2. /\ c \in Seq(Steps) /\ Len(c) = A + B
       /\ \A i \in 1 .. A + B : c[i] = IF i <= A THEN a[i] ELSE b[i - A]
   BY <1>1, ConcatProperties
 <1>3. /\ \A i \in 1 .. A : a[i] \in Free
       /\ Needed(b) => \A i \in 1 .. A : a[i] \in Outside
   OBVIOUS
 <1>4. b # <<>> => B # 0 /\ Head(b) = b[1] /\ b[1] \in Steps
   BY <1>1, TailIsRear
 <1>5. Free \intersect (Milestones \union Sends \union {"receive_plane"}) = {}
   BY DEF Free
 <1>e. Needed(b) => b # <<>>
   BY NothingIsPlanned DEF Needed
 <1> HIDE DEF c
 <1>6. ASSUME NEW i \in A .. A + B
       PROVE  Rear(c, i) = Rear(b, i - A)
  <2> DEFINE u == Rear(b, i - A)
  <2>1. i - A \in 0 .. B /\ i \in 0 .. Len(c)
    BY <1>1, <1>2
  <2>2. u \in Seq(Steps) /\ Len(u) = B - (i - A)
        /\ \A j \in 1 .. B - (i - A) : u[j] = b[(i - A) + j]
    BY <1>1, <2>1, RearOf
  <2> HIDE DEF u
  <2>3. Len(u) = Len(c) - i
    BY <1>1, <1>2, <2>2
  <2>4. ASSUME NEW j \in 1 .. Len(c) - i
        PROVE  u[j] = c[i + j]
   <3>1. i + j \in 1 .. A + B /\ ~ (i + j <= A) /\ (i + j) - A = (i - A) + j
         /\ j \in 1 .. B - (i - A)
     BY <1>1, <1>2
   <3> QED  BY <1>2, <2>2, <3>1
  <2>5. u = Rear(c, i)
    BY <1>2, <2>1, <2>2, <2>3, <2>4, RearIs
  <2> QED  BY <2>5 DEF u
 <1>7. ASSUME NEW i \in 0 .. A
       PROVE  Due(Rear(c, i)) = Due(b)
  <2> DEFINE u == Rear(c, i)
  <2>1. i \in 0 .. Len(c)
    BY <1>1, <1>2
  <2>2. u \in Seq(Steps) /\ Len(u) = A + B - i
        /\ \A j \in 1 .. A + B - i : u[j] = c[i + j]
    BY <1>2, <2>1, RearOf
  <2> HIDE DEF u
  <2>3. ASSUME NEW j \in 1 .. Len(u), u[j] \in Milestones
        PROVE  u[j] \in {b[k] : k \in 1 .. B}
   <3>1. i + j \in 1 .. A + B /\ u[j] = c[i + j]
     BY <1>1, <2>2
   <3>2. ~ (i + j <= A)
    <4> SUFFICES ASSUME i + j <= A  PROVE FALSE
      OBVIOUS
    <4>1. i + j \in 1 .. A /\ u[j] = a[i + j]
      BY <1>1, <1>2, <3>1
    <4> QED  BY <1>3, <1>5, <2>3, <4>1
   <3>3. (i + j) - A \in 1 .. B /\ u[j] = b[(i + j) - A]
     BY <1>1, <1>2, <3>1, <3>2
   <3> QED  BY <3>3
  <2>4. ASSUME NEW k \in 1 .. B
        PROVE  b[k] \in {u[j] : j \in 1 .. Len(u)}
   <3> DEFINE j == A + k - i
   <3>1. j \in 1 .. Len(u) /\ i + j = A + k /\ i + j \in 1 .. A + B /\ ~ (i + j <= A)
         /\ (i + j) - A = k /\ j \in 1 .. A + B - i
     BY <1>1, <2>2
   <3> HIDE DEF j
   <3>2. u[j] = c[i + j] /\ c[i + j] = b[k]
     BY <1>2, <2>2, <3>1
   <3> QED  BY <3>1, <3>2
  <2>5. Due(u) = Due(b)
    BY <2>3, <2>4 DEF Due
  <2> QED  BY <2>5 DEF u
 <1>8. ASSUME NEW i \in 1 .. A
       PROVE  Fits(c[i], Rear(c, i))
  <2> DEFINE u == Rear(c, i)
  <2>1. i \in 0 .. Len(c) /\ i \in 0 .. A /\ i \in 1 .. A + B
    BY <1>1, <1>2
  <2>2. Due(u) = Due(b)
    BY <1>7, <2>1
  <2>3. u \in Seq(Steps) /\ Len(u) = A + B - i
        /\ \A j \in 1 .. A + B - i : u[j] = c[i + j]
   <3>1. u \in Seq(Steps) /\ Len(u) = Len(c) - i
         /\ \A j \in 1 .. Len(c) - i : u[j] = c[i + j]
     BY <1>2, <2>1, RearOf
   <3> HIDE DEF u
   <3> QED  BY <1>2, <3>1
  <2> HIDE DEF u
  <2>4. c[i] = a[i] /\ a[i] \in Free
    BY <1>2, <1>3, <2>1
  <2>5. ASSUME u # <<>>
        PROVE  \/ i < A /\ Head(u) = a[i + 1]
               \/ b # <<>> /\ Head(u) = Head(b)
   <3>1. Head(u) = u[1] /\ Len(u) # 0
     BY <2>3, <2>5, TailIsRear
   <3>2. 1 \in 1 .. A + B - i /\ u[1] = c[i + 1] /\ i + 1 \in 1 .. A + B
     BY <1>1, <2>3, <3>1
   <3>3. CASE i < A
     BY <1>1, <1>2, <3>1, <3>2, <3>3
   <3>4. CASE i = A
    <4>1. B # 0 /\ (i + 1) - A = 1 /\ ~ (i + 1 <= A)
      BY <1>1, <3>2, <3>4
    <4>2. b # <<>>
      BY <4>1
    <4> QED  BY <1>2, <1>4, <3>1, <3>2, <4>1, <4>2
   <3> QED  BY <1>1, <3>3, <3>4
  <2>6. ASSUME u # <<>>
        PROVE  Head(u) # "receive_plane" /\ Head(u) \notin Sends
   <3>1. CASE i < A /\ Head(u) = a[i + 1]
    <4>1. i + 1 \in 1 .. A
      BY <1>1, <3>1
    <4> QED  BY <1>3, <1>5, <3>1, <4>1
   <3>2. CASE b # <<>> /\ Head(u) = Head(b)
     BY <3>2
   <3> QED  BY <2>5, <2>6, <3>1, <3>2
  <2>7. ASSUME Needed(u)
        PROVE  a[i] \in Outside /\ Head(u) \notin Region /\ Head(u) \in Steps
   <3>1. Needed(b)
     BY <2>2, <2>7 DEF Needed
   <3>2. u # <<>>
     BY <2>7, NothingIsPlanned DEF Needed
   <3>3. Head(u) \in Steps
     BY <2>3, <3>2, TailIsRear
   <3>4. Head(u) \notin Region
    <4>1. CASE i < A /\ Head(u) = a[i + 1]
     <5>1. i + 1 \in 1 .. A
       BY <1>1, <4>1
     <5> QED  BY <1>3, <3>1, <4>1, <5>1 DEF Outside
    <4>2. CASE b # <<>> /\ Head(u) = Head(b)
      BY <3>1, <4>2
    <4> QED  BY <2>5, <3>2, <4>1, <4>2
   <3> QED  BY <1>3, <3>1, <3>3, <3>4
  <2>8. Fits(a[i], u)
    BY <2>2, <2>4, <2>6, <2>7, FreeFits
  <2> QED  BY <2>4, <2>8 DEF u
 <1>9. ASSUME NEW i \in 1 .. Len(c)
       PROVE  Fits(c[i], Rear(c, i))
  <2>1. CASE i <= A
    BY <1>1, <1>2, <1>8, <2>1
  <2>2. CASE i > A
   <3>1. i \in A .. A + B /\ i - A \in 1 .. B /\ i \in 1 .. A + B /\ ~ (i <= A)
     BY <1>1, <1>2, <2>2
   <3>2. Fits(b[i - A], Rear(b, i - A))
     BY <3>1 DEF Planned
   <3> QED  BY <1>2, <1>6, <3>1, <3>2
  <2> QED  BY <1>1, <1>2, <2>1, <2>2
 <1>10. Planned(c)
   BY <1>2, <1>9 DEF Planned
 <1>11. Rear(c, 0) = c
  <2>1. \A j \in 1 .. Len(c) - 0 : c[j] = c[0 + j]
    OBVIOUS
  <2>2. 0 \in 0 .. Len(c) /\ Len(c) = Len(c) - 0
    BY <1>1, <1>2
  <2> QED  BY <1>2, <2>1, <2>2, RearIs
 <1>12. Due(c) = Due(b)
  <2>1. 0 \in 0 .. A
    BY <1>1
  <2> QED  BY <1>7, <1>11, <2>1
 <1>13. Gathers(c) = Gathers(b)
  <2> DEFINE I == {i \in 1 .. Len(c) : c[i] = "axis_gather"}
             J == {i \in 1 .. B : b[i] = "axis_gather"}
             K == {i + A : i \in J}
  <2>1. Gathers(c) = Cardinality(I) /\ Gathers(b) = Cardinality(J)
    BY DEF Gathers
  <2>2. Cardinality(K) = Cardinality(J)
   <3>1. J \in SUBSET (1 .. B)
     OBVIOUS
   <3> HIDE DEF J
   <3> QED  BY <1>1, <3>1, MovedAlong
  <2>3. I = K
   <3>1. ASSUME NEW i \in J  PROVE i + A \in I
    <4>1. i \in 1 .. B /\ b[i] = "axis_gather" /\ i + A \in 1 .. A + B
          /\ ~ (i + A <= A) /\ (i + A) - A = i
      BY <1>1
    <4>2. c[i + A] = b[i] /\ i + A \in 1 .. Len(c)
      BY <1>2, <4>1
    <4> QED  BY <4>1, <4>2
   <3>2. ASSUME NEW i \in I  PROVE i \in K
    <4>1. ~ (i <= A)
     <5> SUFFICES ASSUME i <= A  PROVE FALSE
       OBVIOUS
     <5>1. i \in 1 .. A /\ c[i] = a[i]
       BY <1>1, <1>2
     <5>2. a[i] \in Free /\ a[i] = "axis_gather"
       BY <1>3, <5>1
     <5> QED  BY <1>5, <5>2 DEF Milestones
    <4>2. i - A \in J /\ i = (i - A) + A
      BY <1>1, <1>2, <4>1
    <4> QED  BY <4>2
   <3> QED  BY <3>1, <3>2
  <2> QED  BY <2>1, <2>2, <2>3
 <1>14. CASE a = <<>>
  <2>1. c = b
    BY <1>1, <1>14, ConcatEmptySeq DEF c
  <2> QED  BY <1>10, <1>12, <1>13, <1>14, <2>1 DEF c
 <1>15. CASE a # <<>>
  <2>1. A # 0 /\ 1 \in 1 .. A /\ 1 \in 1 .. A + B
    BY <1>1, <1>15
  <2>2. c # <<>>
    BY <1>1, <1>2, <2>1
  <2>3. Head(c) = a[1]
    BY <1>2, <2>1, <2>2, TailIsRear
  <2>4. a[1] \in Free /\ (Needed(b) => a[1] \in Outside)
    BY <1>3, <2>1
  <2> QED  BY <1>5, <1>10, <1>12, <1>13, <1>15, <2>2, <2>3, <2>4 DEF c, Outside
 <1> QED  BY <1>14, <1>15
-----------------------------------------------------------------------------
(* Lists are put together in any grouping.                                 *)
Lists == Seq(Steps)
Then(a, b) == a \o b
Onto(s, b) == <<s>> \o b

LEMMA ThenIsList == \A a, b \in Lists : Then(a, b) \in Lists
  BY DEF Lists, Then

LEMMA ThenRegroups ==
    \A a, b, c \in Lists : Then(Then(a, b), c) = Then(a, Then(b, c))
 <1> SUFFICES ASSUME NEW a \in Lists, NEW b \in Lists, NEW c \in Lists
              PROVE  Then(Then(a, b), c) = Then(a, Then(b, c))
   OBVIOUS
 <1> QED  BY ConcatAssociative DEF Lists, Then

LEMMA BeforeIsList == \A s \in Steps : \A b \in Lists : Onto(s, b) \in Lists
  BY DEF Lists, Onto

LEMMA ThenEmpty == \A a \in Lists : Then(<<>>, a) = a /\ Then(a, <<>>) = a
 <1> SUFFICES ASSUME NEW a \in Lists  PROVE Then(<<>>, a) = a /\ Then(a, <<>>) = a
   OBVIOUS
 <1> QED  BY ConcatEmptySeq DEF Lists, Then

LEMMA Peel ==
    ASSUME NEW a \in Lists, a # <<>>
    PROVE  a = Onto(Head(a), Tail(a))
 <1>1. a \in Seq(Steps) /\ Head(a) \in Steps /\ Tail(a) \in Seq(Steps)
   BY TailIsRear DEF Lists
 <1> DEFINE c == Onto(Head(a), Tail(a))
            t == Tail(a)
            h == Head(a)
 <1>2. /\ c \in Seq(Steps) /\ Len(c) = Len(t) + 1 /\ c[1] = h
       /\ \A i \in 1 .. Len(t) : c[i + 1] = t[i]
   BY <1>1, Onward DEF Onto
 <1>3. /\ h = a[1] /\ Len(a) \in Nat \ {0} /\ Len(t) = Len(a) - 1
       /\ \A j \in 1 .. Len(t) : t[j] = a[1 + j]
   BY <1>1, TailIsRear
 <1> HIDE DEF t, h, c
 <1>4. Len(a) = Len(c)
   BY <1>2, <1>3
 <1>5. ASSUME NEW i \in 1 .. Len(a)  PROVE a[i] = c[i]
  <2>1. CASE i = 1
    BY <1>2, <1>3, <2>1
  <2>2. CASE i # 1
   <3>1. i - 1 \in 1 .. Len(t) /\ (i - 1) + 1 = i /\ 1 + (i - 1) = i
     BY <1>3, <2>2
   <3> QED  BY <1>2, <1>3, <3>1
  <2> QED  BY <2>1, <2>2
 <1>6. a = c
   BY <1>1, <1>2, <1>4, <1>5, SeqEqual
 <1> QED  BY <1>6 DEF c, h, t

LEMMA ThenOfBefore ==
    \A s \in Steps : \A a, b \in Lists : Then(Onto(s, a), b) = Onto(s, Then(a, b))
 <1> SUFFICES ASSUME NEW s \in Steps, NEW a \in Lists, NEW b \in Lists
              PROVE  Then(Onto(s, a), b) = Onto(s, Then(a, b))
   OBVIOUS
 <1>1. <<s>> \in Lists
   BY DEF Lists
 <1>2. Then(Then(<<s>>, a), b) = Then(<<s>>, Then(a, b))
   BY <1>1, ThenRegroups
 <1> QED  BY <1>2 DEF Then, Onto

(* A list that is written out, in front of another.                        *)
LEMMA Written1 == \A x \in Steps, b \in Lists : Then(<<x>>, b) = Onto(x, b)
  BY DEF Then, Onto

LEMMA Written2 ==
    \A y, z \in Steps, b \in Lists :
        Then(<<y, z>>, b) = Onto(y, Onto(z, b))
 <1> SUFFICES ASSUME NEW y \in Steps, NEW z \in Steps,
                     NEW b \in Lists
              PROVE  Then(<<y, z>>, b) = Onto(y, Onto(z, b))
   OBVIOUS
 <1> DEFINE a == <<y, z>>
            e == <<z>>
 <1>1. a \in Lists /\ a # <<>> /\ Head(a) = y /\ Tail(a) = e /\ e \in Lists
   BY DEF Lists
 <1>2. Then(e, b) = Onto(z, b)
   BY Written1
 <1> HIDE DEF a, e
 <1>3. a = Onto(y, e)
   BY <1>1, Peel
 <1>4. Then(Onto(y, e), b) = Onto(y, Then(e, b))
   BY <1>1, ThenOfBefore
 <1>5. Then(a, b) = Onto(y, Onto(z, b))
   BY <1>2, <1>3, <1>4
 <1> QED  BY <1>5 DEF a

LEMMA Written3 ==
    \A x, y, z \in Steps, b \in Lists :
        Then(<<x, y, z>>, b) = Onto(x, Onto(y, Onto(z, b)))
 <1> SUFFICES ASSUME NEW x \in Steps, NEW y \in Steps, NEW z \in Steps,
                     NEW b \in Lists
              PROVE  Then(<<x, y, z>>, b) = Onto(x, Onto(y, Onto(z, b)))
   OBVIOUS
 <1> DEFINE a == <<x, y, z>>
            e == <<y, z>>
 <1>1. a \in Lists /\ a # <<>> /\ Head(a) = x /\ Tail(a) = e /\ e \in Lists
   BY DEF Lists
 <1>2. Then(e, b) = Onto(y, Onto(z, b))
   BY Written2
 <1> HIDE DEF a, e
 <1>3. a = Onto(x, e)
   BY <1>1, Peel
 <1>4. Then(Onto(x, e), b) = Onto(x, Then(e, b))
   BY <1>1, ThenOfBefore
 <1>5. Then(a, b) = Onto(x, Onto(y, Onto(z, b)))
   BY <1>2, <1>3, <1>4
 <1> QED  BY <1>5 DEF a

LEMMA Written4 ==
    \A w, x, y, z \in Steps, b \in Lists :
        Then(<<w, x, y, z>>, b) = Onto(w, Onto(x, Onto(y, Onto(z, b))))
 <1> SUFFICES ASSUME NEW w \in Steps, NEW x \in Steps, NEW y \in Steps,
                     NEW z \in Steps,
                     NEW b \in Lists
              PROVE  Then(<<w, x, y, z>>, b) = Onto(w, Onto(x, Onto(y, Onto(z, b))))
   OBVIOUS
 <1> DEFINE a == <<w, x, y, z>>
            e == <<x, y, z>>
 <1>1. a \in Lists /\ a # <<>> /\ Head(a) = w /\ Tail(a) = e /\ e \in Lists
   BY DEF Lists
 <1>2. Then(e, b) = Onto(x, Onto(y, Onto(z, b)))
   BY Written3
 <1> HIDE DEF a, e
 <1>3. a = Onto(w, e)
   BY <1>1, Peel
 <1>4. Then(Onto(w, e), b) = Onto(w, Then(e, b))
   BY <1>1, ThenOfBefore
 <1>5. Then(a, b) = Onto(w, Onto(x, Onto(y, Onto(z, b))))
   BY <1>2, <1>3, <1>4
 <1> QED  BY <1>5 DEF a

LEMMA Written5 ==
    \A v, w, x, y, z \in Steps, b \in Lists :
        Then(<<v, w, x, y, z>>, b) = Onto(v, Onto(w, Onto(x, Onto(y, Onto(z, b)))))
 <1> SUFFICES ASSUME NEW v \in Steps, NEW w \in Steps, NEW x \in Steps,
                     NEW y \in Steps, NEW z \in Steps,
                     NEW b \in Lists
              PROVE  Then(<<v, w, x, y, z>>, b) = Onto(v, Onto(w, Onto(x, Onto(y, Onto(z, b)))))
   OBVIOUS
 <1> DEFINE a == <<v, w, x, y, z>>
            e == <<w, x, y, z>>
 <1>1. a \in Lists /\ a # <<>> /\ Head(a) = v /\ Tail(a) = e /\ e \in Lists
   BY DEF Lists
 <1>2. Then(e, b) = Onto(w, Onto(x, Onto(y, Onto(z, b))))
   BY Written4
 <1> HIDE DEF a, e
 <1>3. a = Onto(v, e)
   BY <1>1, Peel
 <1>4. Then(Onto(v, e), b) = Onto(v, Then(e, b))
   BY <1>1, ThenOfBefore
 <1>5. Then(a, b) = Onto(v, Onto(w, Onto(x, Onto(y, Onto(z, b)))))
   BY <1>2, <1>3, <1>4
 <1> QED  BY <1>5 DEF a

LEMMA Written6 ==
    \A u, v, w, x, y, z \in Steps, b \in Lists :
        Then(<<u, v, w, x, y, z>>, b) = Onto(u, Onto(v, Onto(w, Onto(x, Onto(y, Onto(z, b))))))
 <1> SUFFICES ASSUME NEW u \in Steps, NEW v \in Steps, NEW w \in Steps,
                     NEW x \in Steps, NEW y \in Steps, NEW z \in Steps,
                     NEW b \in Lists
              PROVE  Then(<<u, v, w, x, y, z>>, b) = Onto(u, Onto(v, Onto(w, Onto(x, Onto(y, Onto(z, b))))))
   OBVIOUS
 <1> DEFINE a == <<u, v, w, x, y, z>>
            e == <<v, w, x, y, z>>
 <1>1. a \in Lists /\ a # <<>> /\ Head(a) = u /\ Tail(a) = e /\ e \in Lists
   BY DEF Lists
 <1>2. Then(e, b) = Onto(v, Onto(w, Onto(x, Onto(y, Onto(z, b)))))
   BY Written5
 <1> HIDE DEF a, e
 <1>3. a = Onto(u, e)
   BY <1>1, Peel
 <1>4. Then(Onto(u, e), b) = Onto(u, Then(e, b))
   BY <1>1, ThenOfBefore
 <1>5. Then(a, b) = Onto(u, Onto(v, Onto(w, Onto(x, Onto(y, Onto(z, b))))))
   BY <1>2, <1>3, <1>4
 <1> QED  BY <1>5 DEF a

-----------------------------------------------------------------------------
(* A list b that is planned, with the milestones D and g gathers ahead, and *)
(* that begins with h.                                                     *)
Stretch(b, D, g, h) == /\ Planned(b) /\ b \in Lists /\ b # <<>> /\ Head(b) = h
                       /\ Due(b) = D /\ Gathers(b) = g /\ "prepare" \notin D

LEMMA StretchBefore ==
    ASSUME NEW b, NEW D, NEW g \in Nat, NEW h, Stretch(b, D, g, h), NEW s \in Steps, Fits(s, b),
           s # "prepare"
    PROVE  /\ Stretch(Onto(s, b), D \union ({s} \intersect Milestones),
                      g + (IF s = "axis_gather" THEN 1 ELSE 0), s)
           /\ Tail(Onto(s, b)) = b
  BY StepBefore, BeforeIsList DEF Stretch, Onto

(* A step of the mesh solve that is no milestone and no send.              *)
LEMMA Leading ==
    ASSUME NEW b, NEW D, NEW g \in Nat, NEW h, Stretch(b, D, g, h),
           NEW s \in Steps \ (Milestones \union Sends \union {"deposit"}),
           h \in Leads(s), h # "receive_plane", h \notin Sends
    PROVE  Stretch(Onto(s, b), D, g, s) /\ Tail(Onto(s, b)) = b
 <1>1. s # "callback" /\ s # "set_up" /\ s # "axis_gather" /\ s # "prepare"
       /\ {s} \intersect Milestones = {}
   BY DEF Milestones
 <1>2. Fits(s, b)
   BY <1>1 DEF Fits, Stretch
 <1>3. /\ Stretch(Onto(s, b), D \union ({s} \intersect Milestones),
                  g + (IF s = "axis_gather" THEN 1 ELSE 0), s)
       /\ Tail(Onto(s, b)) = b
   BY <1>1, <1>2, StretchBefore
 <1>4. D \union ({s} \intersect Milestones) = D /\ g + (IF s = "axis_gather" THEN 1 ELSE 0) = g
   BY <1>1
 <1> QED  BY <1>3, <1>4

(* Steps outside the mesh solve.                                           *)
LEMMA Leisure ==
    ASSUME NEW b, NEW D, NEW g \in Nat, NEW h, Stretch(b, D, g, h),
           NEW a \in Seq(Outside), h \notin Region, h \notin Sends, h # "receive_plane"
    PROVE  \E k : /\ Stretch(Then(a, b), D, g, k)
                  /\ k \notin Region /\ k \notin Sends /\ k # "receive_plane"
                  /\ k = h \/ (k \in Outside /\ a # <<>> /\ k = a[1])
 <1>1. a \in Seq(Free) /\ a \in Lists
   BY DEF Outside, Free, Lists
 <1>2. Planned(b) /\ Head(b) = h /\ "prepare" \notin Due(b) /\ b # <<>> /\ b \in Lists
       /\ Due(b) = D /\ Gathers(b) = g /\ "prepare" \notin D
   BY DEF Stretch
 <1>3. /\ Planned(Then(a, b)) /\ Due(Then(a, b)) = D /\ Gathers(Then(a, b)) = g
       /\ a # <<>> => Head(Then(a, b)) = a[1] /\ Then(a, b) # <<>>
       /\ a = <<>> => Then(a, b) = b
   BY <1>1, <1>2, FreePrefix DEF Then
 <1>4. Then(a, b) \in Lists
   BY <1>1, <1>2, ThenIsList
 <1>5. CASE a = <<>>
   BY <1>2, <1>5, <1>3
 <1>6. CASE a # <<>>
  <2>1. a[1] \in Outside
    BY <1>6
  <2>2. a[1] \notin Region /\ a[1] \notin Sends /\ a[1] # "receive_plane"
    BY <2>1 DEF Outside, Free
  <2> QED  BY <1>2, <1>3, <1>4, <1>6, <2>1, <2>2 DEF Stretch
 <1> QED  BY <1>5, <1>6

(* Steps after the mesh is done with.                                      *)
LEMMA Unneeded ==
    ASSUME NEW b, NEW D, NEW g \in Nat, NEW h, Stretch(b, D, g, h), NEW a \in Seq(Free),
           "axis_gather" \notin D, "gradient" \notin D, h \notin Sends, h # "receive_plane"
    PROVE  \E k : /\ Stretch(Then(a, b), D, g, k)
                  /\ k \notin Sends /\ k # "receive_plane"
                  /\ k = h \/ (a # <<>> /\ k = a[1])
 <1>1. a \in Lists
   BY DEF Free, Lists
 <1>2. Planned(b) /\ Head(b) = h /\ "prepare" \notin Due(b) /\ b # <<>> /\ b \in Lists
       /\ Due(b) = D /\ Gathers(b) = g /\ "prepare" \notin D
   BY DEF Stretch
 <1>3. ~ Needed(b)
   BY <1>2 DEF Needed
 <1>4. /\ Planned(Then(a, b)) /\ Due(Then(a, b)) = D /\ Gathers(Then(a, b)) = g
       /\ a # <<>> => Head(Then(a, b)) = a[1] /\ Then(a, b) # <<>> /\ a[1] \in Free
       /\ a = <<>> => Then(a, b) = b
   BY <1>1, <1>2, <1>3, FreePrefix DEF Then
 <1>5. Then(a, b) \in Lists
   BY <1>1, <1>2, ThenIsList
 <1>6. a # <<>> => a[1] \notin Sends /\ a[1] # "receive_plane"
   BY <1>4 DEF Free
 <1> QED  BY <1>2, <1>4, <1>5, <1>6 DEF Stretch
-----------------------------------------------------------------------------
(* The pieces of a call, from its end.                                     *)
LEMMA StepNames ==
    /\ Milestones \subseteq Steps /\ Sends \subseteq Steps /\ Region \subseteq Steps
    /\ Locals \subseteq Steps
    /\ {"receive_plane", "deposit", "complete", "weighted_sum", "rank_sum", "self_energy",
        "sizes", "input_mass", "ready", "private", "preflight", "commit_check",
        "balance", "self_direction", "measure", "measure_input"} \subseteq Steps
  BY DEF Milestones, Sends, Region, Raw, Massed, Forced, Between, Known, Asking, Answering,
         Answered, Locals, Steps, Quiet, Checks, JointSteps

LEMMA OutsideNames ==
    {"complete", "self_energy", "sizes", "input_mass", "ready", "private", "preflight",
     "commit_check", "balance", "emit", "report", "report_metrics", "report_storage",
     "report_gather", "weighted_sum", "rank_sum", "self_direction", "measure", "measure_input",
     "origin", "impulse", "impulse_conserved", "lag_kernel",
     "agree_grid", "planner", "slab", "slab_valid", "gather_storage", "construct", "prequery",
     "publish_layout", "planner_again", "plan_storage", "forward_plan", "inverse_plan",
     "plan_identity", "plan_record", "parameters", "agree_parameters", "layout", "allocate",
     "post_plan"} \subseteq Outside
  BY DEF Outside, Free, Milestones, Sends, Region, Raw, Massed, Forced, Between, Known, Asking,
         Answering, Answered, Steps, Quiet, Checks, JointSteps

LEMMA FreeNames ==
    {"spill_mass", "send_spill", "receive_spill", "spilled_mass", "normalize", "source",
     "forward", "inverse", "potential_finite"} \subseteq Free
  BY DEF Free, Milestones, Sends, Steps, Quiet, Checks, JointSteps

PieceNames ==
    {"emit", "report", "report_metrics", "report_storage", "report_gather", "balance",
     "agree_grid", "planner", "slab", "slab_valid", "gather_storage", "construct", "prequery",
     "publish_layout", "planner_again", "plan_storage", "forward_plan", "inverse_plan",
     "plan_identity", "plan_record", "parameters", "agree_parameters", "layout", "allocate",
     "post_plan"}

LEMMA PiecesIn ==
    ASSUME NEW S, PieceNames \subseteq S, NEW r
    PROVE  Creation(r) \in Seq(S) /\ Report \in Seq(S) /\ Balance \in Seq(S)
 <1>0. \A x \in PieceNames : x \in S
   OBVIOUS
 <1>1. SlabQuery \in Seq(S) /\ LayoutQuery \in Seq(S)
   BY <1>0 DEF PieceNames, SlabQuery, LayoutQuery
 <1>2. Lookup(r) \in Seq(S)
  <2>1. <<"prequery">> \in Seq(S) /\ <<"publish_layout">> \in Seq(S)
    BY <1>0 DEF PieceNames
  <2>2. <<"prequery">> \o LayoutQuery \o <<"publish_layout">> \in Seq(S)
   <3> HIDE DEF LayoutQuery
   <3> QED  BY <1>1, <2>1, ConcatProperties
  <2> QED  BY <2>2 DEF Lookup
 <1>3. Plans \in Seq(S) /\ PlanRecord \in Seq(S)
   BY <1>0 DEF PieceNames, Plans, PlanRecord
 <1>4. Creation(r) \in Seq(S)
  <2> DEFINE a == <<"parameters", "agree_parameters">>
             b == <<"layout", "allocate">>
             c == <<"post_plan">>
  <2>1. a \in Seq(S) /\ b \in Seq(S) /\ c \in Seq(S)
    BY <1>0 DEF PieceNames
  <2>2. Creation(r) = IF mem[r].workspace THEN <<>>
                      ELSE a \o Lookup(r) \o b \o Plans \o PlanRecord \o c
    BY DEF Creation
  <2> HIDE DEF a, b, c
  <2>3. a \o Lookup(r) \in Seq(S)
    BY <1>2, <2>1
  <2>4. a \o Lookup(r) \o b \in Seq(S)
    BY <2>1, <2>3
  <2>5. a \o Lookup(r) \o b \o Plans \in Seq(S)
    BY <1>3, <2>4
  <2>6. a \o Lookup(r) \o b \o Plans \o PlanRecord \in Seq(S)
    BY <1>3, <2>5
  <2>7. a \o Lookup(r) \o b \o Plans \o PlanRecord \o c \in Seq(S)
    BY <2>1, <2>6
  <2> QED  BY <2>2, <2>7
 <1>5. Report \in Seq(S) /\ Balance \in Seq(S)
   BY <1>0 DEF PieceNames, Report, Balance
 <1> QED  BY <1>4, <1>5

LEMMA PiecesOutside ==
    ASSUME NEW r
    PROVE  Creation(r) \in Seq(Outside) /\ Report \in Seq(Outside) /\ Balance \in Seq(Outside)
 <1>1. PieceNames \subseteq Outside
   BY OutsideNames DEF PieceNames
 <1> QED  BY <1>1, PiecesIn

LEMMA KernelIsFree ==
    ASSUME NEW r
    PROVE  Kernel(r) \in Seq(Free)
 <1> DEFINE a == <<"origin", "impulse">>
            c == <<"impulse_conserved", "normalize", "source", "forward",
                   "inverse", "potential_finite", "lag_kernel">>
 <1>1. a \in Seq(Free) /\ c \in Seq(Free)
   BY OutsideNames, FreeNames DEF Outside
 <1>2. Spill \in Seq(Free)
   BY FreeNames DEF Spill
 <1>3. Kernel(r) = IF mem[r].kernel THEN <<>> ELSE a \o Spill \o c
   BY DEF Kernel
 <1> HIDE DEF a, c
 <1>4. a \o Spill \in Seq(Free)
   BY <1>1, <1>2
 <1>5. a \o Spill \o c \in Seq(Free)
   BY <1>1, <1>4
 <1> QED  BY <1>3, <1>5
LEMMA EnergyRegroups ==
    ASSUME NEW r, NEW b \in Lists
    PROVE  /\ Kernel(r) \in Lists /\ Ghost("potential") \in Lists
           /\ Then(Energy(r), b)
                = Then(IF Tree THEN <<"inverse">> ELSE <<>>, Then(<<"potential_finite">>,
                    Then(Ghost("potential"), Then(<<"weighted_sum", "rank_sum">>,
                      Then(Kernel(r), Then(<<"self_energy">>, b))))))
 <1> DEFINE a == IF Tree THEN <<"inverse">> ELSE <<>>
            p == <<"potential_finite">>
            w == <<"weighted_sum", "rank_sum">>
            e == <<"self_energy">>
            b1 == Then(e, b)
            b2 == Then(Kernel(r), b1)
            b3 == Then(w, b2)
            b4 == Then(Ghost("potential"), b3)
            b5 == Then(p, b4)
 <1>3. b \in Lists /\ Kernel(r) \in Lists /\ Ghost("potential") \in Lists
  <2>2. Kernel(r) \in Lists
    BY KernelIsFree DEF Free, Lists
  <2>3. Ghost("potential") \in Seq(Quiet)
    BY QuietPieces
  <2>4. Ghost("potential") \in Lists
   <3> HIDE DEF Ghost
   <3> QED  BY <2>3 DEF Lists, Steps
  <2> QED  BY <2>2, <2>4
 <1>4. a \in Lists /\ p \in Lists /\ w \in Lists /\ e \in Lists
   BY OutsideNames, FreeNames DEF Outside, Free, Lists
 <1>5. Energy(r) = Then(Then(Then(Then(Then(a, p), Ghost("potential")), w), Kernel(r)), e)
   BY DEF Energy, Then
 <1> HIDE DEF a, p, w, e
 <1>6. Then(Energy(r), b) = Then(a, b5)
  <2> DEFINE G == Ghost("potential")
             K == Kernel(r)
             x1 == Then(a, p)
             x2 == Then(x1, G)
             x3 == Then(x2, w)
             x4 == Then(x3, K)
  <2>1. G \in Lists /\ K \in Lists
    BY <1>3
  <2> HIDE DEF G, K
  <2>2. x1 \in Lists
    BY <1>4, ThenIsList
  <2>3. x2 \in Lists
    BY <2>1, <2>2, ThenIsList
  <2>4. x3 \in Lists
    BY <1>4, <2>3, ThenIsList
  <2>5. x4 \in Lists
    BY <2>1, <2>4, ThenIsList
  <2>6. b1 \in Lists /\ b2 \in Lists
    BY <1>3, <1>4, ThenIsList
  <2>7. b3 \in Lists
    BY <1>4, <2>6, ThenIsList
  <2>8. b4 \in Lists
    BY <1>3, <2>7, ThenIsList
  <2>9. Then(Then(x4, e), b) = Then(x4, b1)
    BY <1>3, <1>4, <2>5, ThenRegroups
  <2>10. Then(x4, b1) = Then(x3, b2)
    BY <2>1, <2>4, <2>6, ThenRegroups DEF K
  <2>11. Then(x3, b2) = Then(x2, b3)
    BY <1>4, <2>3, <2>6, ThenRegroups
  <2>12. Then(x2, b3) = Then(x1, b4)
    BY <2>1, <2>2, <2>7, ThenRegroups DEF G
  <2>13. Then(x1, b4) = Then(a, b5)
    BY <1>4, <2>8, ThenRegroups
  <2> QED  BY <1>5, <2>9, <2>10, <2>11, <2>12, <2>13 DEF G, K
 <1> QED  BY <1>3, <1>6 DEF a, p, w, e

LEMMA EnergyPlanned ==
    ASSUME NEW r, NEW b, NEW D, NEW g \in Nat, NEW h, Stretch(b, D, g, h),
           "axis_gather" \notin D, "gradient" \notin D, h \notin Sends, h # "receive_plane"
    PROVE  \E k : /\ Stretch(Then(Energy(r), b), D, g, k)
                  /\ k \notin Sends /\ k # "receive_plane"
 <1> DEFINE a == IF Tree THEN <<"inverse">> ELSE <<>>
            p == <<"potential_finite">>
            w == <<"weighted_sum", "rank_sum">>
            e == <<"self_energy">>
            b1 == Then(e, b)
            b2 == Then(Kernel(r), b1)
            b3 == Then(w, b2)
            b4 == Then(Ghost("potential"), b3)
            b5 == Then(p, b4)
 <1>1. /\ a \in Seq(Free) /\ p \in Seq(Free) /\ w \in Seq(Free) /\ e \in Seq(Free)
       /\ w # <<>> /\ w[1] = "weighted_sum" /\ p # <<>> /\ p[1] = "potential_finite"
   BY OutsideNames, FreeNames DEF Outside
 <1>2. Kernel(r) \in Seq(Free)
   BY KernelIsFree
 <1>6. Then(Energy(r), b) = Then(a, b5)
   BY EnergyRegroups DEF Stretch
 <1> HIDE DEF a, p, w, e
 <1>7. PICK k1 : Stretch(b1, D, g, k1) /\ k1 \notin Sends /\ k1 # "receive_plane"
   BY <1>1, Unneeded
 <1> HIDE DEF b1
 <1>8. PICK k2 : Stretch(b2, D, g, k2) /\ k2 \notin Sends /\ k2 # "receive_plane"
   BY <1>2, <1>7, Unneeded
 <1> HIDE DEF b2
 <1>9. PICK k3 : /\ Stretch(b3, D, g, k3) /\ k3 \notin Sends /\ k3 # "receive_plane"
                 /\ k3 = k2 \/ k3 = w[1]
   BY <1>1, <1>8, Unneeded
 <1>10. Stretch(b3, D, g, "weighted_sum")
  <2>1. b3 = Onto("weighted_sum", Onto("rank_sum", b2))
    BY <1>8, StepNames, Written2 DEF b3, w, Stretch
  <2>2. Onto("rank_sum", b2) \in Lists
    BY <1>8, StepNames, BeforeIsList DEF Stretch
  <2>3. Head(b3) = "weighted_sum"
    BY <2>1, <2>2, StepNames, Onward DEF Onto, Lists
  <2> QED  BY <1>9, <2>3 DEF Stretch
 <1> HIDE DEF b3
 <1>11. \E k : /\ Stretch(b5, D, g, k) /\ k \notin Sends /\ k # "receive_plane"
  <2>1. CASE Size = 1
   <3>1. b4 = b3
     BY <1>10, <2>1, ThenEmpty DEF Ghost, Stretch
   <3>2. "weighted_sum" \notin Sends /\ "weighted_sum" # "receive_plane"
     BY DEF Sends
   <3>3. \E k : /\ Stretch(Then(p, b3), D, g, k) /\ k \notin Sends
                /\ k # "receive_plane"
     BY <1>1, <1>10, <3>2, Unneeded
   <3> QED  BY <3>1, <3>3
  <2>2. CASE Size # 1
   <3> DEFINE c1 == Onto("receive_plane", b3)
              c2 == Onto("send_potential_plane", c1)
              c3 == Onto("potential_finite", c2)
   <3>1. b3 \in Lists /\ ~ Needed(b3) /\ b3 # <<>> /\ Head(b3) = "weighted_sum"
         /\ "prepare" \notin Due(b3) /\ Due(b3) = D /\ "prepare" \notin D
     BY <1>10 DEF Stretch, Needed
   <3>2. Fits("receive_plane", b3)
     BY <3>1 DEF Fits, Milestones, Sends
   <3>3. Stretch(c1, D, g, "receive_plane") /\ Tail(c1) = b3
    <4>1. /\ Stretch(c1, D \union ({"receive_plane"} \intersect Milestones),
                     g + (IF "receive_plane" = "axis_gather" THEN 1 ELSE 0),
                     "receive_plane")
          /\ Tail(c1) = b3
      BY <1>10, <3>2, StretchBefore, StepNames
    <4>2. D \union ({"receive_plane"} \intersect Milestones) = D
          /\ g + (IF "receive_plane" = "axis_gather" THEN 1 ELSE 0) = g
      BY DEF Milestones
    <4> QED  BY <4>1, <4>2
   <3> HIDE DEF c1
   <3>4. Fits("send_potential_plane", c1)
     BY <3>1, <3>3 DEF Fits, Milestones, Sends, Taker, Stretch, Needed
   <3>5. Stretch(c2, D, g, "send_potential_plane") /\ Tail(c2) = c1
    <4>1. /\ Stretch(c2, D \union ({"send_potential_plane"} \intersect Milestones),
                     g + (IF "send_potential_plane" = "axis_gather" THEN 1 ELSE 0),
                     "send_potential_plane")
          /\ Tail(c2) = c1
      BY <3>3, <3>4, StretchBefore, StepNames DEF Sends
    <4>2. D \union ({"send_potential_plane"} \intersect Milestones) = D
          /\ g + (IF "send_potential_plane" = "axis_gather" THEN 1 ELSE 0) = g
      BY DEF Milestones
    <4> QED  BY <4>1, <4>2
   <3> HIDE DEF c2
   <3>6. Fits("potential_finite", c2)
     BY <3>1, <3>5 DEF Fits, Milestones, Sends, Stretch, Needed, Locals
   <3>7. Stretch(c3, D, g, "potential_finite")
    <4>1. Stretch(c3, D \union ({"potential_finite"} \intersect Milestones),
                  g + (IF "potential_finite" = "axis_gather" THEN 1 ELSE 0),
                  "potential_finite")
      BY <3>5, <3>6, StretchBefore, FreeNames DEF Free
    <4>2. D \union ({"potential_finite"} \intersect Milestones) = D
          /\ g + (IF "potential_finite" = "axis_gather" THEN 1 ELSE 0) = g
      BY DEF Milestones
    <4> QED  BY <4>1, <4>2
   <3>8. b5 = c3
    <4>1. b4 = c2
      BY <2>2, <3>1, StepNames, Written2 DEF Ghost, c2, c1, Sends
    <4>2. c2 \in Lists
      BY <3>5 DEF Stretch
    <4>3. "potential_finite" \in Steps
      BY FreeNames DEF Free
    <4> QED  BY <4>1, <4>2, <4>3, Written1 DEF p
   <3> QED  BY <3>7, <3>8 DEF Sends
  <2> QED  BY <2>1, <2>2
 <1> HIDE DEF b5
 <1>12. PICK k5 : Stretch(b5, D, g, k5) /\ k5 \notin Sends /\ k5 # "receive_plane"
   BY <1>11
 <1> QED  BY <1>1, <1>6, <1>12, Unneeded

(* One force component of the tree's mesh.                                 *)
LEMMA AxisPlanned ==
    ASSUME Tree, NEW b, NEW D, NEW g \in Nat, NEW h, Stretch(b, D, g, h),
           h \notin Sends, h # "receive_plane",
           \/ D = Later("axis_gather")
           \/ D = Later("axis_gather") \union {"axis_gather"} /\ h = "axis_modes"
    PROVE  Stretch(Then(Axis, b), Later("axis_gather") \union {"axis_gather"}, g + 1,
                   "axis_modes")
 <1> DEFINE A == Later("axis_gather") \union {"axis_gather"}
            b1 == Onto("axis_finite", b)
            b2 == Onto("axis_gather", b1)
            b3 == Then(Ghost("force"), b2)
            b4 == Onto("axis_prepared", b3)
            b5 == Onto("axis_inverse", b4)
            b6 == Onto("axis_modes", b5)
 <1>1. {"axis_finite", "axis_gather", "axis_prepared", "axis_inverse", "axis_modes",
        "send_force_plane", "receive_plane"} \subseteq Steps
   BY StepNames DEF Region, Forced, Between, Sends
 <1>2. /\ Planned(b) /\ b \in Lists /\ b # <<>> /\ Head(b) = h /\ Due(b) = D
       /\ "prepare" \notin D
   BY DEF Stretch
 <1>3. Later("axis_gather") = {"tree", "walk", "validate", "callback"}
   BY DEF Later
 <1>4. Stretch(b1, D, g, "axis_finite")
  <2>1. Needed(b) => h \in Leads("axis_finite")
    BY <1>2, <1>3 DEF Needed, Leads
  <2>2. Fits("axis_finite", b)
    BY <1>2, <2>1 DEF Fits, Milestones, Sends
  <2>3. Stretch(b1, D \union ({"axis_finite"} \intersect Milestones),
                g + (IF "axis_finite" = "axis_gather" THEN 1 ELSE 0), "axis_finite")
    BY <1>1, <2>2, StretchBefore
  <2>4. D \union ({"axis_finite"} \intersect Milestones) = D
        /\ g + (IF "axis_finite" = "axis_gather" THEN 1 ELSE 0) = g
    BY DEF Milestones
  <2> QED  BY <2>3, <2>4
 <1> HIDE DEF b1
 <1>5. Stretch(b2, A, g + 1, "axis_gather")
  <2>1. Due(b1) = D /\ Head(b1) = "axis_finite" /\ "prepare" \notin D
    BY <1>4 DEF Stretch
  <2>2. "axis_gather" \in Mine /\ "axis_finite" \in Leads("axis_gather")
    BY DEF Mine, Later, Leads
  <2>e. Due(b1) = Later("axis_gather") \/ Due(b1) = Later("axis_gather") \union {"axis_gather"}
    BY <2>1
  <2>f. Fits("axis_gather", b1)
    BY <2>1, <2>2, <2>e DEF Fits, Sends
  <2>3. Stretch(b2, D \union ({"axis_gather"} \intersect Milestones),
                g + (IF "axis_gather" = "axis_gather" THEN 1 ELSE 0), "axis_gather")
    BY <1>1, <1>4, <2>f, StretchBefore
  <2>4. D \union ({"axis_gather"} \intersect Milestones) = A
    BY DEF Milestones
  <2> QED  BY <2>3, <2>4
 <1> HIDE DEF b2
 <1>6. g + 1 \in Nat
   OBVIOUS
 <1> DEFINE n == g + 1
 <1> HIDE DEF n
 <1>7. Stretch(b4, A, n, "axis_prepared")
  <2>1. CASE Size = 1
   <3>1. b3 = b2
     BY <1>5, <2>1, ThenEmpty DEF Ghost, Stretch
   <3>2. "axis_gather" \in Leads("axis_prepared")
     BY <2>1 DEF Leads
   <3>3. "axis_prepared" \notin Milestones \union Sends \union {"deposit"}
         /\ "axis_gather" \notin Sends
     BY DEF Milestones, Sends
   <3> QED  BY <1>1, <1>5, <1>6, <3>1, <3>2, <3>3, Leading DEF n
  <2>2. CASE Size # 1
   <3> DEFINE c1 == Onto("receive_plane", b2)
              c2 == Onto("send_force_plane", c1)
   <3>1. Stretch(c1, A, n, "receive_plane") /\ Tail(c1) = b2
    <4>1. "receive_plane" \notin Milestones \union Sends \union {"deposit"}
          /\ "axis_gather" \notin Sends /\ "axis_gather" \in Leads("receive_plane")
      BY DEF Milestones, Sends, Leads
    <4> QED  BY <1>1, <1>5, <1>6, <4>1, Leading DEF n
   <3> HIDE DEF c1
   <3>2. /\ c1 # <<>> /\ Head(c1) = "receive_plane" /\ Tail(c1) # <<>>
         /\ Head(Tail(c1)) = "axis_gather" /\ "prepare" \notin Due(c1)
     BY <1>5, <3>1 DEF Stretch
   <3>3. Fits("send_force_plane", c1)
     BY <3>2 DEF Fits, Milestones, Sends, Taker, Leads
   <3>4. Stretch(c2, A, n, "send_force_plane")
    <4>1. Stretch(c2, A \union ({"send_force_plane"} \intersect Milestones),
                  n + (IF "send_force_plane" = "axis_gather" THEN 1 ELSE 0),
                  "send_force_plane")
      BY <1>1, <1>6, <3>1, <3>3, StretchBefore DEF n
    <4>2. A \union ({"send_force_plane"} \intersect Milestones) = A
          /\ n + (IF "send_force_plane" = "axis_gather" THEN 1 ELSE 0) = n
      BY <1>6 DEF Milestones, n
    <4> QED  BY <4>1, <4>2
   <3> HIDE DEF c2
   <3>5. b3 = c2
     BY <1>1, <1>5, <2>2, Written2 DEF Ghost, c2, c1, Stretch
   <3>6. "send_force_plane" \in Leads("axis_prepared")
     BY <2>2 DEF Leads
   <3>7. Fits("axis_prepared", c2)
     BY <3>4, <3>6 DEF Fits, Stretch, Milestones, Sends, Locals
   <3>8. Stretch(Onto("axis_prepared", c2), A \union ({"axis_prepared"} \intersect Milestones),
                   n + (IF "axis_prepared" = "axis_gather" THEN 1 ELSE 0),
                   "axis_prepared")
     BY <1>1, <1>6, <3>4, <3>7, StretchBefore DEF n
   <3>9. A \union ({"axis_prepared"} \intersect Milestones) = A
           /\ n + (IF "axis_prepared" = "axis_gather" THEN 1 ELSE 0) = n
       BY <1>6 DEF Milestones, n
   <3> QED  BY <3>5, <3>8, <3>9
  <2> QED  BY <2>1, <2>2
 <1>8. Stretch(b5, A, n, "axis_inverse")
  <2>1. "axis_inverse" \notin Milestones \union Sends \union {"deposit"}
        /\ "axis_prepared" \notin Sends /\ "axis_prepared" \in Leads("axis_inverse")
    BY DEF Milestones, Sends, Leads
  <2> HIDE DEF b4
  <2> QED  BY <1>1, <1>6, <1>7, <2>1, Leading DEF n
 <1>9. Stretch(b6, A, n, "axis_modes")
  <2>1. "axis_modes" \notin Milestones \union Sends \union {"deposit"}
        /\ "axis_inverse" \notin Sends /\ "axis_inverse" \in Leads("axis_modes")
    BY DEF Milestones, Sends, Leads
  <2> HIDE DEF b5
  <2> QED  BY <1>1, <1>6, <1>8, <2>1, Leading DEF n
 <1>10. Then(Axis, b) = b6
  <2> DEFINE m == <<"axis_modes", "axis_inverse">>
             p == <<"axis_prepared">>
             f == <<"axis_gather", "axis_finite">>
             G == Ghost("force")
             y1 == Then(p, G)
             y2 == Then(y1, f)
  <2>1. Axis = Then(m, y2)
    BY DEF Axis, Interpolation, Then
  <2>2. m \in Lists /\ p \in Lists /\ f \in Lists /\ G \in Lists
    BY <1>1, QuietPieces DEF Lists, Steps
  <2>3. Then(f, b) = b2
    BY <1>1, <1>2, Written2 DEF b2, b1
  <2>4. b2 \in Lists /\ b3 \in Lists /\ b4 \in Lists
   <3>1. b2 \in Lists
     BY <1>5 DEF Stretch
   <3>2. b3 \in Lists
     BY <2>2, <3>1, ThenIsList
   <3> QED  BY <1>1, <3>1, <3>2, BeforeIsList
  <2> HIDE DEF m, p, f, G
  <2>5. y1 \in Lists /\ y2 \in Lists
    BY <2>2, ThenIsList
  <2>6. Then(Then(m, y2), b) = Then(m, Then(y2, b))
    BY <1>2, <2>2, <2>5, ThenRegroups
  <2>7. Then(y2, b) = Then(y1, b2)
    BY <1>2, <2>2, <2>3, <2>5, ThenRegroups
  <2>8. Then(y1, b2) = Then(p, b3)
    BY <2>2, <2>4, ThenRegroups DEF G
  <2>9. Then(p, b3) = b4
    BY <1>1, <2>4, Written1 DEF p
  <2>10. Then(m, b4) = b6
    BY <1>1, <2>4, Written2 DEF m
  <2> QED  BY <2>1, <2>6, <2>7, <2>8, <2>9, <2>10
 <1> QED  BY <1>9, <1>10 DEF n
LEMMA OutsideBefore ==
    ASSUME NEW b, NEW D, NEW g \in Nat, NEW h, Stretch(b, D, g, h), NEW s \in Outside,
           h \notin Region, h \notin Sends, h # "receive_plane"
    PROVE  Stretch(Onto(s, b), D, g, s)
 <1>1. s \in Steps /\ s \in Free /\ s \notin Milestones
   BY DEF Outside, Free
 <1>2. s # "prepare" /\ s # "axis_gather"
   BY <1>1 DEF Milestones
 <1>3. Planned(b) /\ b \in Lists /\ b # <<>> /\ Head(b) = h /\ "prepare" \notin Due(b)
   BY DEF Stretch
 <1>4. Head(b) \in Steps
   BY <1>3, TailIsRear DEF Lists
 <1>5. Fits(s, b)
   BY <1>1, <1>3, <1>4, FreeFits
 <1>6. Stretch(Onto(s, b), D \union ({s} \intersect Milestones),
               g + (IF s = "axis_gather" THEN 1 ELSE 0), s)
   BY <1>1, <1>2, <1>5, StretchBefore
 <1>7. D \union ({s} \intersect Milestones) = D
       /\ g + (IF s = "axis_gather" THEN 1 ELSE 0) = g
   BY <1>1, <1>2
 <1> QED  BY <1>6, <1>7

(* A milestone before a list.                                              *)
LEMMA MilestoneBefore ==
    ASSUME NEW b, NEW D, NEW g \in Nat, NEW h, Stretch(b, D, g, h),
           NEW s \in (Milestones \intersect Mine) \ {"callback", "axis_gather", "prepare"},
           D = Later(s), Needed(b) => h \in Leads(s),
           s = "set_up" => g = 3, h \notin Sends, h # "receive_plane"
    PROVE  Stretch(Onto(s, b), Later(s) \union {s}, g, s)
 <1>1. s \in Steps /\ s \in Milestones /\ s \in Mine
   BY StepNames
 <1>2. s # "callback" /\ s # "axis_gather" /\ s # "prepare" /\ s # "deposit" /\ s \notin Sends
   BY <1>1 DEF Milestones, Sends
 <1>3. Planned(b) /\ b # <<>> /\ Head(b) = h /\ "prepare" \notin Due(b)
       /\ Due(b) = Later(s) /\ Gathers(b) = g
   BY DEF Stretch
 <1>4. Fits(s, b)
   BY <1>1, <1>2, <1>3 DEF Fits
 <1>5. Stretch(Onto(s, b), D \union ({s} \intersect Milestones),
               g + (IF s = "axis_gather" THEN 1 ELSE 0), s)
   BY <1>1, <1>2, <1>4, StretchBefore
 <1>6. D \union ({s} \intersect Milestones) = Later(s) \union {s}
       /\ g + (IF s = "axis_gather" THEN 1 ELSE 0) = g
   BY <1>1, <1>2
 <1> QED  BY <1>5, <1>6

(* The steps in the mesh solve that lead on to one step only.              *)
Links == (Region \ {"axis_gather", "gradient", "send_force_plane", "receive_plane"})

LEMMA LinkNames ==
    /\ Links \subseteq Steps \ (Milestones \union Sends \union {"deposit"})
    /\ \A s \in Links \union {"gradient"} : s \notin Sends /\ s # "receive_plane"
 <1>1. Links \subseteq Steps
   BY StepNames DEF Links
 <1>2. ASSUME NEW s \in Links
       PROVE  s \notin Milestones /\ s \notin Sends /\ s # "deposit" /\ s # "receive_plane"
   BY DEF Links, Milestones, Sends, Region, Raw, Massed, Forced, Between, Known, Asking,
      Answering, Answered
 <1> QED  BY <1>1, <1>2 DEF Sends

LEMMA Link ==
    ASSUME NEW b, NEW D, NEW g \in Nat, NEW h, Stretch(b, D, g, h), NEW s \in Links,
           h \in Leads(s), h \in Links \union {"gradient"}
    PROVE  Stretch(Onto(s, b), D, g, s)
  BY LinkNames, Leading

LEMMA LeadsTo ==
    /\ IF Size = 1 THEN "density_valid" \in Leads("deposit") ELSE "spill_mass" \in Leads("deposit")
    /\ "send_spill" \in Leads("spill_mass") /\ "receive_spill" \in Leads("send_spill")
    /\ "spilled_mass" \in Leads("receive_spill") /\ "density_valid" \in Leads("spilled_mass")
    /\ "mass_conserved" \in Leads("density_valid") /\ "normalize" \in Leads("mass_conserved")
    /\ "source" \in Leads("normalize") /\ "forward" \in Leads("source")
    /\ "modes_finite" \in Leads("forward")
    /\ IF Tree THEN "axis_modes" \in Leads("modes_finite") ELSE "inverse" \in Leads("modes_finite")
    /\ "potential_finite" \in Leads("inverse")
    /\ IF Size = 1 THEN "gradient" \in Leads("potential_finite")
                   ELSE "halo_plan" \in Leads("potential_finite")
    /\ "halo_request" \in Leads("halo_plan") /\ "halo_counts" \in Leads("halo_request")
    /\ "halo_buffers" \in Leads("halo_counts") /\ "halo_planes" \in Leads("halo_buffers")
    /\ "halo_response" \in Leads("halo_planes") /\ "halo_values" \in Leads("halo_response")
    /\ "halo_unpack" \in Leads("halo_values") /\ "gradient_check" \in Leads("halo_unpack")
    /\ "gradient" \in Leads("gradient_check")
  BY DEF Leads

LEMMA LinkList ==
    {"density_valid", "spill_mass", "send_spill", "receive_spill", "spilled_mass",
     "mass_conserved", "normalize", "source", "forward", "modes_finite", "axis_modes",
     "inverse", "potential_finite", "halo_plan", "halo_request", "halo_counts",
     "halo_buffers", "halo_planes", "halo_response", "halo_values", "halo_unpack",
     "gradient_check"} \subseteq Links
  BY DEF Links, Region, Raw, Massed, Forced, Between, Known, Asking, Answering, Answered

LEMMA HaloWritten ==
    ASSUME NEW b \in Lists
    PROVE  Then(HaloSteps, b)
             = Onto("halo_request", Onto("halo_counts", Onto("halo_buffers",
                 Onto("halo_planes", Onto("halo_response", Onto("halo_values",
                   Onto("halo_unpack", b)))))))
 <1> DEFINE t == "halo_request"
            u == "halo_counts"
            v == "halo_buffers"
            w == "halo_planes"
            x == "halo_response"
            y == "halo_values"
            z == "halo_unpack"
 <1>1. t \in Steps /\ u \in Steps /\ v \in Steps /\ w \in Steps /\ x \in Steps
       /\ y \in Steps /\ z \in Steps
   BY LinkNames, LinkList
 <1>2. HaloSteps = <<t, u, v, w, x, y, z>>
   BY DEF HaloSteps
 <1> HIDE DEF t, u, v, w, x, y, z
 <1> DEFINE a == <<t, u, v, w, x, y, z>>
            e == <<u, v, w, x, y, z>>
 <1>3. a \in Lists /\ a # <<>> /\ Head(a) = t /\ Tail(a) = e /\ e \in Lists
   BY <1>1 DEF Lists
 <1>5. Then(e, b)
         = Onto(u, Onto(v, Onto(w, Onto(x, Onto(y, Onto(z, b))))))
   BY <1>1, Written6
 <1>6. HaloSteps = a
   BY <1>2
 <1> HIDE DEF a, e
 <1>7. a = Onto(t, e)
   BY <1>3, Peel
 <1>8. Then(Onto(t, e), b) = Onto(t, Then(e, b))
   BY <1>1, <1>3, ThenOfBefore
 <1>4. Then(HaloSteps, b)
         = Onto(t, Onto(u, Onto(v, Onto(w, Onto(x, Onto(y, Onto(z, b)))))))
   BY <1>5, <1>6, <1>7, <1>8
 <1> QED  BY <1>4 DEF t, u, v, w, x, y, z

LEMMA GradientPlanned ==
    ASSUME ~ Tree, NEW b, NEW h, Stretch(b, {"commit", "callback"}, 0, h),
           h \notin Sends, h # "receive_plane"
    PROVE  Stretch(Then(GradientSteps, b), {"gradient", "commit", "callback"}, 0, "inverse")
 <1> DEFINE D == {"gradient", "commit", "callback"}
            b1 == Onto("gradient", b)
            c0 == Onto("gradient_check", b1)
            c1 == Onto("halo_unpack", c0)
            c2 == Onto("halo_values", c1)
            c3 == Onto("halo_response", c2)
            c4 == Onto("halo_planes", c3)
            c5 == Onto("halo_buffers", c4)
            c6 == Onto("halo_counts", c5)
            c7 == Onto("halo_request", c6)
            c8 == Onto("halo_plan", c7)
            H == IF Size = 1 THEN <<>> ELSE <<"halo_plan">> \o HaloSteps \o <<"gradient_check">>
            b2 == Then(H, b1)
            b3 == Onto("potential_finite", b2)
            b4 == Onto("inverse", b3)
 <1>0. 0 \in Nat
   OBVIOUS
 <1>1. b \in Lists
   BY DEF Stretch
 <1>2. Stretch(b1, D, 0, "gradient")
  <2>1. "gradient" \in (Milestones \intersect Mine) \ {"callback", "axis_gather", "prepare"}
        /\ Later("gradient") = {"commit", "callback"} /\ "gradient" # "set_up"
    BY DEF Milestones, Mine, Later
  <2>2. ~ Needed(b)
    BY DEF Stretch, Needed
  <2>3. Stretch(b1, Later("gradient") \union {"gradient"}, 0, "gradient")
    BY <1>0, <2>1, <2>2, MilestoneBefore
  <2>4. Later("gradient") \union {"gradient"} = D
    BY <2>1
  <2> QED  BY <2>3, <2>4
 <1> HIDE DEF b1, D
 <1>3. ASSUME Size # 1  PROVE Stretch(c8, D, 0, "halo_plan") /\ b2 = c8
  <2>1. Stretch(c0, D, 0, "gradient_check")
    BY <1>0, <1>2, Link, LeadsTo, LinkList
  <2> HIDE DEF c0
  <2>2. Stretch(c1, D, 0, "halo_unpack")
    BY <1>0, <2>1, Link, LeadsTo, LinkList
  <2> HIDE DEF c1
  <2>3. Stretch(c2, D, 0, "halo_values")
    BY <1>0, <2>2, Link, LeadsTo, LinkList
  <2> HIDE DEF c2
  <2>4. Stretch(c3, D, 0, "halo_response")
    BY <1>0, <2>3, Link, LeadsTo, LinkList
  <2> HIDE DEF c3
  <2>5. Stretch(c4, D, 0, "halo_planes")
    BY <1>0, <2>4, Link, LeadsTo, LinkList
  <2> HIDE DEF c4
  <2>6. Stretch(c5, D, 0, "halo_buffers")
    BY <1>0, <2>5, Link, LeadsTo, LinkList
  <2> HIDE DEF c5
  <2>7. Stretch(c6, D, 0, "halo_counts")
    BY <1>0, <2>6, Link, LeadsTo, LinkList
  <2> HIDE DEF c6
  <2>8. Stretch(c7, D, 0, "halo_request")
    BY <1>0, <2>7, Link, LeadsTo, LinkList
  <2> HIDE DEF c7
  <2>9. Stretch(c8, D, 0, "halo_plan")
    BY <1>0, <2>8, Link, LeadsTo, LinkList
  <2>10. b2 = c8
   <3> DEFINE p == <<"halo_plan">>
              e == <<"gradient_check">>
              y == Then(p, HaloSteps)
   <3>1. H = Then(y, e)
     BY <1>3 DEF Then
   <3>2. p \in Lists /\ e \in Lists
     BY LinkNames, LinkList DEF Lists
   <3>3. HaloSteps \in Lists
    <4>1. HaloSteps \in Seq(Quiet)
      BY QuietPieces
    <4> HIDE DEF HaloSteps
    <4> QED  BY <4>1 DEF Lists, Steps
   <3>4. b1 \in Lists /\ c0 \in Lists
     BY <1>2, <2>1 DEF Stretch
   <3>5. Then(e, b1) = c0
     BY <3>4, LinkNames, LinkList, Written1 DEF c0
   <3>6. Then(HaloSteps, c0) = c7
    <4>1. {"halo_request", "halo_counts", "halo_buffers", "halo_planes",
           "halo_response", "halo_values", "halo_unpack"} \subseteq Steps
      BY LinkNames, LinkList
    <4>2. Then(HaloSteps, c0)
            = Onto("halo_request", Onto("halo_counts", Onto("halo_buffers",
                Onto("halo_planes", Onto("halo_response", Onto("halo_values",
                  Onto("halo_unpack", c0)))))))
      BY <3>4, HaloWritten
    <4> QED  BY <4>2 DEF c7, c6, c5, c4, c3, c2, c1
   <3>7. c7 \in Lists
     BY <2>8 DEF Stretch
   <3>8. Then(p, c7) = c8
     BY <3>7, LinkNames, LinkList, Written1
   <3> HIDE DEF p, e
   <3>9. y \in Lists
     BY <3>2, <3>3, ThenIsList
   <3>10. Then(Then(y, e), b1) = Then(y, c0)
     BY <3>2, <3>4, <3>5, <3>9, ThenRegroups
   <3>11. Then(y, c0) = Then(p, c7)
     BY <3>2, <3>3, <3>4, <3>6, ThenRegroups
   <3> HIDE DEF H, y
   <3> QED  BY <3>1, <3>8, <3>10, <3>11
  <2> QED  BY <2>9, <2>10
 <1>4. Stretch(b3, D, 0, "potential_finite")
  <2>1. CASE Size = 1
   <3>1. b2 = b1
     BY <1>2, <2>1, ThenEmpty DEF Stretch
   <3> HIDE DEF b2
   <3> QED  BY <1>0, <1>2, <2>1, <3>1, Link, LeadsTo, LinkList
  <2>2. CASE Size # 1
   <3>1. Stretch(b2, D, 0, "halo_plan")
     BY <1>3, <2>2
   <3> HIDE DEF b2
   <3> QED  BY <1>0, <2>2, <3>1, Link, LeadsTo, LinkList
  <2> QED  BY <2>1, <2>2
 <1>5. b2 \in Lists /\ H \in Lists /\ b1 \in Lists
  <2>1. b1 \in Lists
    BY <1>2 DEF Stretch
  <2>2. H \in Lists
   <3>1. CASE Size = 1
     BY <3>1 DEF Lists
   <3>2. CASE Size # 1
    <4>1. HaloSteps \in Seq(Steps)
     <5>1. HaloSteps \in Seq(Quiet)
       BY QuietPieces
     <5> HIDE DEF HaloSteps
     <5> QED  BY <5>1 DEF Steps
    <4> DEFINE p == <<"halo_plan">>
               e == <<"gradient_check">>
    <4>2. p \in Seq(Steps) /\ e \in Seq(Steps)
      BY LinkNames, LinkList
    <4>3. H = p \o HaloSteps \o e
      BY <3>2
    <4> HIDE DEF HaloSteps, p, e, H
    <4>4. p \o HaloSteps \in Seq(Steps)
      BY <4>1, <4>2
    <4> QED  BY <4>2, <4>3, <4>4 DEF Lists
   <3> QED  BY <3>1, <3>2
  <2> HIDE DEF H
  <2> QED  BY <2>1, <2>2, ThenIsList
 <1>6. Stretch(b4, D, 0, "inverse")
  <2> HIDE DEF b3
  <2> QED  BY <1>0, <1>4, Link, LeadsTo, LinkList
 <1>7. Then(GradientSteps, b) = b4
  <2> DEFINE p == <<"inverse", "potential_finite">>
             e == <<"gradient">>
             y == Then(p, H)
  <2>1. GradientSteps = Then(y, e)
    BY DEF GradientSteps, Then
  <2> HIDE DEF H, b2
  <2>2. p \in Lists /\ e \in Lists
    BY LinkNames, LinkList, StepNames DEF Lists, Milestones
  <2>3. Then(e, b) = b1
    BY <1>1, StepNames, Written1 DEF b1, Milestones
  <2>4. Then(p, b2) = b4
    BY <1>5, LinkNames, LinkList, Written2
  <2> HIDE DEF p, e, b4
  <2>5. y \in Lists
    BY <1>5, <2>2, ThenIsList
  <2>6. Then(Then(y, e), b) = Then(y, b1)
    BY <1>1, <2>2, <2>3, <2>5, ThenRegroups
  <2>7. Then(y, b1) = Then(p, b2)
    BY <1>5, <2>2, ThenRegroups DEF b2
  <2> QED  BY <2>1, <2>4, <2>6, <2>7
 <1> QED  BY <1>6, <1>7 DEF D
-----------------------------------------------------------------------------
(* The milestones of the mesh solve: gathers with the tree, the gradient   *)
(* without it.                                                             *)
MeshBehind == IF Tree THEN {"tree", "walk", "validate", "callback"} ELSE {"commit", "callback"}
MeshDue == IF Tree THEN {"axis_gather", "tree", "walk", "validate", "callback"}
                   ELSE {"gradient", "commit", "callback"}
MeshGathers == IF Tree THEN 3 ELSE 0

LEMMA TwiceMore ==
    ASSUME Tree, NEW b, NEW h, Stretch(b, MeshBehind, 0, h), h \notin Sends, h # "receive_plane"
    PROVE  /\ Axis \in Lists
           /\ Stretch(Then(Axis \o Axis \o Axis, b), MeshDue, 3, "axis_modes")
 <1> DEFINE b1 == Then(Axis, b)
            b2 == Then(Axis, b1)
            b3 == Then(Axis, b2)
 <1>1. /\ Later("axis_gather") = MeshBehind
       /\ Later("axis_gather") \union {"axis_gather"} = MeshDue
   BY DEF Later, MeshBehind, MeshDue
 <1>2. 0 \in Nat /\ 0 + 1 \in Nat /\ 0 + 1 = 1 /\ 1 + 1 = 2 /\ 2 + 1 = 3 /\ 1 \in Nat /\ 2 \in Nat
       /\ "axis_modes" \notin Sends /\ "axis_modes" # "receive_plane"
   BY DEF Sends
 <1>3. Stretch(b1, MeshDue, 1, "axis_modes")
  <2>1. Stretch(b1, Later("axis_gather") \union {"axis_gather"}, 0 + 1, "axis_modes")
    BY <1>1, <1>2, AxisPlanned
  <2> HIDE DEF b1
  <2> QED  BY <1>1, <1>2, <2>1
 <1> HIDE DEF b1
 <1>4. Stretch(b2, MeshDue, 2, "axis_modes")
  <2>1. Stretch(b2, Later("axis_gather") \union {"axis_gather"}, 1 + 1, "axis_modes")
    BY <1>1, <1>2, <1>3, AxisPlanned
  <2> HIDE DEF b2
  <2> QED  BY <1>1, <1>2, <2>1
 <1> HIDE DEF b2
 <1>5. Stretch(b3, MeshDue, 3, "axis_modes")
  <2>1. Stretch(b3, Later("axis_gather") \union {"axis_gather"}, 2 + 1, "axis_modes")
    BY <1>1, <1>2, <1>4, AxisPlanned
  <2> HIDE DEF b3
  <2> QED  BY <1>1, <1>2, <2>1
 <1>6. Axis \in Lists
  <2>1. Ghost("force") \in Seq(Quiet)
    BY QuietPieces
  <2>2. <<"axis_modes", "axis_inverse">> \in Seq(Steps) /\ <<"axis_prepared">> \in Seq(Steps)
        /\ <<"axis_gather", "axis_finite">> \in Seq(Steps)
    BY StepNames DEF Region, Forced, Between
  <2>3. Ghost("force") \in Seq(Steps)
   <3> HIDE DEF Ghost
   <3> QED  BY <2>1 DEF Steps
  <2> DEFINE G == Ghost("force")
  <2>4. <<"axis_prepared">> \o G \o <<"axis_gather", "axis_finite">> \in Seq(Steps)
   <3> HIDE DEF G
   <3> QED  BY <2>2, <2>3, ConcatProperties DEF G
  <2>5. Interpolation \in Seq(Steps)
    BY <2>4 DEF Interpolation
  <2> HIDE DEF Interpolation
  <2>6. <<"axis_modes", "axis_inverse">> \o Interpolation \in Seq(Steps)
    BY <2>2, <2>5, ConcatProperties
  <2> QED  BY <2>6 DEF Axis, Lists
 <1>7. Then(Axis \o Axis \o Axis, b) = b3
  <2> DEFINE y == Then(Axis, Axis)
  <2>1. Axis \o Axis \o Axis = Then(y, Axis)
    BY DEF Then
  <2>2. y \in Lists /\ b \in Lists /\ b1 \in Lists
    BY <1>3, <1>6, ThenIsList DEF Stretch
  <2>3. Then(Then(y, Axis), b) = Then(y, Then(Axis, b))
    BY <1>6, <2>2, ThenRegroups
  <2>4. Then(y, b1) = Then(Axis, Then(Axis, b1))
    BY <1>6, <2>2, ThenRegroups
  <2> QED  BY <2>1, <2>3, <2>4 DEF b1, b2
 <1> QED  BY <1>5, <1>6, <1>7

LEMMA SpillPlanned ==
    ASSUME NEW b, NEW D, NEW g \in Nat, Stretch(b, D, g, "density_valid"),
           "axis_gather" \in D => g = 3
    PROVE  /\ Spill \in Lists
           /\ Stretch(Onto("deposit", Then(Spill, b)), D, g, "deposit")
 <1> DEFINE c1 == Onto("spilled_mass", b)
            c2 == Onto("receive_spill", c1)
            c3 == Onto("send_spill", c2)
            c4 == Onto("spill_mass", c3)
            c == Then(Spill, b)
 <1>1. Spill \in Lists
  <2>1. Spill \in Seq(Free)
    BY FreeNames DEF Spill
  <2> HIDE DEF Spill
  <2> QED  BY <2>1 DEF Lists, Free
 <1>2. \E h : Stretch(c, D, g, h) /\ h \in Leads("deposit") /\ h \in Links
  <2>1. CASE Size = 1
   <3>1. c = b
     BY <2>1, ThenEmpty DEF Spill, Stretch
   <3> HIDE DEF c
   <3> QED  BY <2>1, <3>1, LeadsTo, LinkList
  <2>2. CASE Size # 1
   <3>1. Stretch(c1, D, g, "spilled_mass")
     BY Link, LeadsTo, LinkList
   <3> HIDE DEF c1
   <3>2. Stretch(c2, D, g, "receive_spill")
     BY <3>1, Link, LeadsTo, LinkList
   <3> HIDE DEF c2
   <3>3. Stretch(c3, D, g, "send_spill")
     BY <3>2, Link, LeadsTo, LinkList
   <3> HIDE DEF c3
   <3>4. Stretch(c4, D, g, "spill_mass")
     BY <3>3, Link, LeadsTo, LinkList
   <3>5. c = c4
    <4>1. b \in Lists /\ {"spill_mass", "send_spill", "receive_spill", "spilled_mass"} \subseteq Steps
      BY LinkNames, LinkList DEF Stretch
    <4>2. Then(<<"spill_mass", "send_spill", "receive_spill", "spilled_mass">>, b)
            = Onto("spill_mass", Onto("send_spill", Onto("receive_spill",
                Onto("spilled_mass", b))))
      BY <4>1, Written4
    <4> QED  BY <2>2, <4>2 DEF Spill, c4, c3, c2, c1
   <3> HIDE DEF c, c4
   <3> QED  BY <2>2, <3>4, <3>5, LeadsTo, LinkList
  <2> QED  BY <2>1, <2>2
 <1>3. PICK h : Stretch(c, D, g, h) /\ h \in Leads("deposit") /\ h \in Links
   BY <1>2
 <1> HIDE DEF c
 <1>4. "deposit" \notin Milestones /\ "deposit" \notin Sends /\ "deposit" \in Steps
       /\ h \notin Sends /\ h # "receive_plane"
   BY <1>3, StepNames, LinkNames DEF Milestones, Sends
 <1>5. Fits("deposit", c)
   BY <1>3, <1>4 DEF Fits, Stretch
 <1>6. Stretch(Onto("deposit", c), D \union ({"deposit"} \intersect Milestones),
               g + (IF "deposit" = "axis_gather" THEN 1 ELSE 0), "deposit")
   BY <1>3, <1>4, <1>5, StretchBefore
 <1>7. D \union ({"deposit"} \intersect Milestones) = D
       /\ g + (IF "deposit" = "axis_gather" THEN 1 ELSE 0) = g
   BY <1>4
 <1> QED  BY <1>1, <1>6, <1>7 DEF c

LEMMA MeshPlanned ==
    ASSUME NEW r, NEW b, NEW h, Stretch(b, MeshBehind, 0, h), h \notin Sends,
           h # "receive_plane"
    PROVE  MeshSolve(r) \in Lists /\ Stretch(Then(MeshSolve(r), b), MeshDue, MeshGathers, "sizes")
 <1> DEFINE P == <<"sizes", "input_mass", "deposit">>
            Q == <<"density_valid", "mass_conserved", "normalize", "source",
                   "forward", "modes_finite">>
            X == IF Tree THEN Axis \o Axis \o Axis ELSE GradientSteps
            E == IF Tree /\ setup.collect THEN Energy(r) ELSE <<>>
            b1 == Then(E, b)
            b2 == Then(X, b1)
            b3 == Then(Q, b2)
            b4 == Then(Spill, b3)
            b5 == Then(P, b4)
            m1 == Then(P, Spill)
            m2 == Then(m1, Q)
            m3 == Then(m2, X)
            m4 == Then(m3, E)
 <1>0. 0 \in Nat /\ b \in Lists
   BY DEF Stretch
 <1>1. MeshSolve(r) = m4
   BY DEF MeshSolve, Then
 <1>2. \E k : Stretch(b1, MeshBehind, 0, k) /\ k \notin Sends /\ k # "receive_plane"
  <2>1. CASE Tree /\ setup.collect
   <3>1. "axis_gather" \notin MeshBehind /\ "gradient" \notin MeshBehind
     BY DEF MeshBehind
   <3>2. \E k : /\ Stretch(Then(Energy(r), b), MeshBehind, 0, k)
                /\ k \notin Sends /\ k # "receive_plane"
     BY <1>0, <3>1, EnergyPlanned
   <3> QED  BY <2>1, <3>2
  <2>2. CASE ~ (Tree /\ setup.collect)
   <3>1. b1 = b
     BY <1>0, <2>2, ThenEmpty
   <3> HIDE DEF b1
   <3> QED  BY <3>1
  <2> QED  BY <2>1, <2>2
 <1>e. E \in Lists
  <2>1. Energy(r) \in Lists
   <3>1. Energy(r) \in Seq(Quiet)
     BY EnergyIsQuiet
   <3> QED  BY <3>1 DEF Lists, Steps
  <2>2. <<>> \in Lists
    BY DEF Lists
  <2> QED  BY <2>1, <2>2
 <1> HIDE DEF E
 <1>3. PICK k : Stretch(b1, MeshBehind, 0, k) /\ k \notin Sends /\ k # "receive_plane"
   BY <1>2
 <1> HIDE DEF b1
 <1>4. Stretch(b2, MeshDue, MeshGathers, IF Tree THEN "axis_modes" ELSE "inverse")
  <2>1. CASE Tree
   <3>1. Stretch(Then(Axis \o Axis \o Axis, b1), MeshDue, 3, "axis_modes")
     BY <1>3, <2>1, TwiceMore
   <3> QED  BY <2>1, <3>1 DEF MeshGathers
  <2>2. CASE ~ Tree
   <3>1. MeshBehind = {"commit", "callback"} /\ MeshDue = {"gradient", "commit", "callback"}
     BY <2>2 DEF MeshBehind, MeshDue
   <3>2. Stretch(Then(GradientSteps, b1), MeshDue, 0, "inverse")
     BY <1>3, <2>2, <3>1, GradientPlanned
   <3> QED  BY <2>2, <3>2 DEF MeshGathers
  <2> QED  BY <2>1, <2>2
 <1>x. X \in Lists
  <2>1. CASE Tree
   <3>1. Axis \in Lists
     BY <1>3, <2>1, TwiceMore
   <3>2. Then(Then(Axis, Axis), Axis) \in Lists
     BY <3>1, ThenIsList
   <3> QED  BY <2>1, <3>2 DEF Then
  <2>2. CASE ~ Tree
   <3>1. GradientSteps \in Lists
    <4> DEFINE H == IF Size = 1 THEN <<>>
                    ELSE <<"halo_plan">> \o HaloSteps \o <<"gradient_check">>
               p == <<"inverse", "potential_finite">>
               e == <<"gradient">>
               u == <<"halo_plan">>
               v == <<"gradient_check">>
    <4>1. p \in Lists /\ e \in Lists /\ u \in Lists /\ v \in Lists /\ <<>> \in Lists
      BY LinkNames, LinkList, StepNames DEF Lists, Milestones
    <4>2. HaloSteps \in Lists
     <5>1. HaloSteps \in Seq(Quiet)
       BY QuietPieces
     <5> HIDE DEF HaloSteps
     <5> QED  BY <5>1 DEF Lists, Steps
    <4>3. Then(Then(u, HaloSteps), v) \in Lists
     <5> HIDE DEF u, v, HaloSteps
     <5> QED  BY <4>1, <4>2, ThenIsList
    <4>4. H \in Lists
      BY <4>1, <4>3 DEF Then
    <4>5. Then(Then(p, H), e) \in Lists
     <5> HIDE DEF p, H, e
     <5> QED  BY <4>1, <4>4, ThenIsList
    <4> QED  BY <4>5 DEF GradientSteps, Then
   <3> QED  BY <2>2, <3>1
  <2> QED  BY <2>1, <2>2
 <1> HIDE DEF X, b2
 <1>5. MeshGathers \in Nat /\ ("axis_gather" \in MeshDue => MeshGathers = 3)
   BY DEF MeshGathers, MeshDue
 <1> DEFINE q1 == Onto("modes_finite", b2)
            q2 == Onto("forward", q1)
            q3 == Onto("source", q2)
            q4 == Onto("normalize", q3)
            q5 == Onto("mass_conserved", q4)
            q6 == Onto("density_valid", q5)
 <1>6. Stretch(q1, MeshDue, MeshGathers, "modes_finite")
  <2>1. (IF Tree THEN "axis_modes" ELSE "inverse") \in Links
        /\ (IF Tree THEN "axis_modes" ELSE "inverse") \in Leads("modes_finite")
    BY LeadsTo, LinkList
  <2> DEFINE k0 == IF Tree THEN "axis_modes" ELSE "inverse"
  <2> HIDE DEF k0
  <2> QED  BY <1>4, <1>5, <2>1, Link, LinkList DEF k0
 <1> HIDE DEF q1
 <1>7. Stretch(q2, MeshDue, MeshGathers, "forward")
   BY <1>5, <1>6, Link, LeadsTo, LinkList
 <1> HIDE DEF q2
 <1>8. Stretch(q3, MeshDue, MeshGathers, "source")
   BY <1>5, <1>7, Link, LeadsTo, LinkList
 <1> HIDE DEF q3
 <1>9. Stretch(q4, MeshDue, MeshGathers, "normalize")
   BY <1>5, <1>8, Link, LeadsTo, LinkList
 <1> HIDE DEF q4
 <1>10. Stretch(q5, MeshDue, MeshGathers, "mass_conserved")
   BY <1>5, <1>9, Link, LeadsTo, LinkList
 <1> HIDE DEF q5
 <1>11. Stretch(q6, MeshDue, MeshGathers, "density_valid")
   BY <1>5, <1>10, Link, LeadsTo, LinkList
 <1>q. {"density_valid", "mass_conserved", "normalize", "source", "forward",
        "modes_finite"} \subseteq Steps
   BY LinkNames, LinkList
 <1>12. b3 = q6
  <2>1. b2 \in Lists
    BY <1>4 DEF Stretch
  <2>2. Then(<<"density_valid", "mass_conserved", "normalize", "source",
               "forward", "modes_finite">>, b2)
          = Onto("density_valid", Onto("mass_conserved", Onto("normalize",
              Onto("source", Onto("forward", Onto("modes_finite", b2))))))
    BY <1>q, <2>1, Written6
  <2> QED  BY <2>2 DEF q1, q2, q3, q4, q5, q6
 <1>13. Q \in Lists
   BY <1>q DEF Lists
 <1> HIDE DEF b3, q6, Q
 <1>14. Stretch(b3, MeshDue, MeshGathers, "density_valid")
   BY <1>11, <1>12
 <1>15. Spill \in Lists /\ Stretch(Onto("deposit", b4), MeshDue, MeshGathers, "deposit")
   BY <1>5, <1>14, SpillPlanned
 <1>16. b4 \in Lists
   BY <1>14, <1>15, ThenIsList DEF Stretch
 <1> DEFINE d1 == Onto("deposit", b4)
            d2 == Onto("input_mass", d1)
            d3 == Onto("sizes", d2)
 <1> HIDE DEF b4
 <1>17. Stretch(d3, MeshDue, MeshGathers, "sizes")
  <2>1. "deposit" \notin Region /\ "deposit" \notin Sends /\ "input_mass" \notin Region
        /\ "input_mass" \notin Sends
    BY DEF Region, Raw, Massed, Forced, Between, Known, Asking, Answering, Answered, Sends
  <2> HIDE DEF d1
  <2>2. Stretch(d2, MeshDue, MeshGathers, "input_mass")
    BY <1>5, <1>15, <2>1, OutsideBefore, OutsideNames DEF d1
  <2> HIDE DEF d2
  <2> QED  BY <1>5, <2>1, <2>2, OutsideBefore, OutsideNames
 <1>18. b5 = d3 /\ P \in Lists
  <2>1. {"sizes", "input_mass", "deposit"} \subseteq Steps
    BY StepNames
  <2>2. Then(<<"sizes", "input_mass", "deposit">>, b4)
          = Onto("sizes", Onto("input_mass", Onto("deposit", b4)))
    BY <1>16, <2>1, Written3
  <2> QED  BY <2>1, <2>2 DEF Lists
 <1> HIDE DEF P, b5, d3
 <1>19. m1 \in Lists
   BY <1>15, <1>18, ThenIsList
 <1>20. m2 \in Lists
  <2> HIDE DEF m1
  <2> QED  BY <1>13, <1>19, ThenIsList
 <1>21. m3 \in Lists
  <2> HIDE DEF m2
  <2> QED  BY <1>x, <1>20, ThenIsList
 <1>22. m4 \in Lists
  <2> HIDE DEF m3
  <2> QED  BY <1>e, <1>21, ThenIsList
 <1>23. b1 \in Lists /\ b2 \in Lists /\ b3 \in Lists
   BY <1>3, <1>4, <1>14 DEF Stretch
 <1>24. Then(m4, b) = Then(m3, b1)
  <2> HIDE DEF m3
  <2> QED  BY <1>0, <1>e, <1>21, ThenRegroups DEF b1
 <1>25. Then(m3, b1) = Then(m2, b2)
  <2> HIDE DEF m2
  <2> QED  BY <1>x, <1>20, <1>23, ThenRegroups DEF b2
 <1>26. Then(m2, b2) = Then(m1, b3)
  <2> HIDE DEF m1
  <2> QED  BY <1>13, <1>19, <1>23, ThenRegroups DEF b3
 <1>27. Then(m1, b3) = b5
   BY <1>15, <1>18, <1>23, ThenRegroups DEF b5, b4
 <1> HIDE DEF m4, m3, m2, m1
 <1> QED  BY <1>1, <1>17, <1>18, <1>22, <1>24, <1>25, <1>26, <1>27
LEMMA EndPlanned ==
    /\ Balance \in Lists /\ <<"callback">> \in Lists
    /\ \E h : /\ Stretch(Then(Balance, <<"callback">>), {"callback"}, 0, h)
              /\ h \notin Region /\ h \notin Sends /\ h # "receive_plane"
 <1> DEFINE b == <<"callback">>
 <1>1. "callback" \in Steps /\ "callback" \in Milestones /\ "callback" \in Mine
   BY StepNames DEF Milestones, Mine, Later
 <1>2. Fits("callback", <<>>)
   BY <1>1, NothingIsPlanned DEF Fits, Needed, Later, Sends
 <1>3. b = <<"callback">> \o <<>> /\ b \in Lists /\ b # <<>> /\ Head(b) = "callback"
   BY <1>1 DEF Lists
 <1>4. /\ Planned(<<"callback">> \o <<>>)
       /\ Due(<<"callback">> \o <<>>) = Due(<<>>) \union ({"callback"} \intersect Milestones)
       /\ Gathers(<<"callback">> \o <<>>) = Gathers(<<>>)
            + (IF "callback" = "axis_gather" THEN 1 ELSE 0)
   BY <1>1, <1>2, NothingIsPlanned, StepBefore
 <1>5. Due(<<>>) \union ({"callback"} \intersect Milestones) = {"callback"}
       /\ Gathers(<<>>) + (IF "callback" = "axis_gather" THEN 1 ELSE 0) = 0
   BY <1>1, NothingIsPlanned
 <1> HIDE DEF b
 <1>6. Planned(b) /\ Due(b) = {"callback"} /\ Gathers(b) = 0
   BY <1>3, <1>4, <1>5
 <1>7. Stretch(b, {"callback"}, 0, "callback")
   BY <1>3, <1>6 DEF Stretch
 <1>8. "callback" \notin Region /\ "callback" \notin Sends /\ "callback" # "receive_plane"
   BY DEF Region, Raw, Massed, Forced, Between, Known, Asking, Answering, Answered, Sends
 <1>9. Balance \in Seq(Outside) /\ 0 \in Nat
   BY PiecesOutside
 <1>10. \E k : /\ Stretch(Then(Balance, b), {"callback"}, 0, k)
               /\ k \notin Region /\ k \notin Sends /\ k # "receive_plane"
  <2> HIDE DEF Balance
  <2> QED  BY <1>7, <1>8, <1>9, Leisure
 <1>11. Balance \in Lists
  <2> HIDE DEF Balance
  <2> QED  BY <1>9 DEF Lists, Outside, Free
 <1> QED  BY <1>3, <1>10, <1>11 DEF b

(* The milestones before the mesh solve.                                   *)
LEMMA BeginPlanned ==
    ASSUME NEW b, NEW h, NEW s, s = IF Tree THEN "set_up" ELSE "transaction",
           Stretch(b, MeshDue, MeshGathers, h), h \notin Region, h \notin Sends,
           h # "receive_plane"
    PROVE  Stretch(Onto(s, b), MeshDue \union {s}, MeshGathers, s)
 <1>1. MeshGathers \in Nat
   BY DEF MeshGathers
 <1>2. s \in (Milestones \intersect Mine) \ {"callback", "axis_gather", "prepare"}
   BY DEF Milestones, Mine, Later
 <1>3. MeshDue = Later(s)
   BY DEF MeshDue, Later
 <1>4. h \in Steps
   BY TailIsRear DEF Stretch, Lists
 <1>5. h \in Leads(s)
  <2>1. s \notin Region /\ s # "deposit"
    BY DEF Region, Raw, Massed, Forced, Between, Known, Asking, Answering, Answered
  <2>2. Leads(s) = Steps \ Region
    BY DEF Leads
  <2> QED  BY <1>4, <2>2
 <1>6. s = "set_up" => MeshGathers = 3
   BY DEF MeshGathers
 <1> QED  BY <1>1, <1>2, <1>3, <1>5, <1>6, MilestoneBefore

LEMMA FirstPlanned ==
    ASSUME NEW b, NEW h, NEW s, s = IF Tree THEN "set_up" ELSE "transaction",
           Stretch(b, MeshDue \union {s}, MeshGathers, h), h \notin Region, h \notin Sends,
           h # "receive_plane"
    PROVE  \E D : Stretch(Onto("prepare", Onto("migrate", Onto("materialize", b))), D,
                          MeshGathers, "prepare") \/
                  (/\ Planned(Onto("prepare", Onto("migrate", Onto("materialize", b))))
                   /\ Onto("prepare", Onto("migrate", Onto("materialize", b))) # <<>>
                   /\ Head(Onto("prepare", Onto("migrate", Onto("materialize", b)))) = "prepare")
 <1> DEFINE b1 == Onto("materialize", b)
            b2 == Onto("migrate", b1)
            b3 == Onto("prepare", b2)
 <1>1. MeshGathers \in Nat
   BY DEF MeshGathers
 <1>2. h \in Steps
   BY TailIsRear DEF Stretch, Lists
 <1>3. /\ {"materialize", "migrate"}
             \subseteq (Milestones \intersect Mine) \ {"callback", "axis_gather", "prepare"}
       /\ "prepare" \in Milestones /\ "prepare" \in Mine
   BY DEF Milestones, Mine, Later
 <1>4. /\ MeshDue \union {s} = Later("materialize")
       /\ Later("materialize") \union {"materialize"} = Later("migrate")
       /\ Later("migrate") \union {"migrate"} = Later("prepare")
       /\ "prepare" \notin Later("prepare")
   BY DEF MeshDue, Later
 <1>5. {"materialize", "migrate"} \intersect (Region \union Sends \union {"receive_plane"}) = {}
   BY DEF Region, Raw, Massed, Forced, Between, Known, Asking, Answering, Answered, Sends
 <1>6. \A x \in {"materialize", "migrate", "prepare"} : Leads(x) = Steps \ Region
   BY DEF Leads
 <1>7. {"materialize", "migrate", "prepare"} \subseteq Steps
   BY StepNames DEF Milestones
 <1>8. Stretch(b1, Later("materialize") \union {"materialize"}, MeshGathers, "materialize")
   BY <1>1, <1>2, <1>3, <1>4, <1>6, MilestoneBefore
 <1> HIDE DEF b1
 <1>9. Stretch(b2, Later("migrate") \union {"migrate"}, MeshGathers, "migrate")
   BY <1>1, <1>3, <1>4, <1>5, <1>6, <1>7, <1>8, MilestoneBefore
 <1> HIDE DEF b2
 <1>10. Planned(b2) /\ b2 \in Lists /\ Due(b2) = Later("prepare") /\ Head(b2) = "migrate"
        /\ b2 # <<>>
   BY <1>4, <1>9 DEF Stretch
 <1>11. Fits("prepare", b2)
   BY <1>3, <1>4, <1>5, <1>6, <1>7, <1>10 DEF Fits, Sends
 <1>12. Planned(b3) /\ Head(b3) = "prepare" /\ b3 # <<>>
   BY <1>7, <1>10, <1>11, StepBefore DEF Onto
 <1> HIDE DEF b3
 <1> QED  BY <1>12 DEF b1, b2, b3

LEMMA SolvePlanned ==
    ASSUME NEW r
    PROVE  Planned(Solve(r)) /\ Solve(r) # <<>> /\ Head(Solve(r)) = "prepare"
 <1> DEFINE C == Creation(r)
            M == MeshSolve(r)
            P == <<"prepare", "migrate", "materialize">>
            e == <<"callback">>
            s == IF Tree THEN "set_up" ELSE "transaction"
            u == IF Tree THEN <<"set_up">> ELSE <<"preflight", "transaction">>
            v == IF Tree THEN <<"ready", "private">> ELSE <<"private">>
            w == IF Tree THEN <<"tree", "walk", "complete">> ELSE <<"commit_check", "commit">>
            R == IF Tree THEN Report ELSE <<>>
            z == IF Tree THEN <<"validate">> ELSE <<>>
            x1 == Then(u, C)
            x2 == Then(x1, v)
            x3 == Then(x2, M)
            x4 == Then(x3, w)
            x5 == Then(x4, R)
            W == Then(x5, z)
            y1 == Then(P, W)
            y2 == Then(y1, Balance)
            E == Then(Balance, e)
            f1 == Then(z, E)
            f2 == Then(R, f1)
            f3 == Then(w, f2)
            f4 == Then(M, f3)
            f5 == Then(v, f4)
            f6 == Then(C, f5)
            f7 == Then(u, f6)
 <1>0. 0 \in Nat /\ MeshGathers \in Nat
   BY DEF MeshGathers
 <1>1. PICK h : /\ Stretch(E, {"callback"}, 0, h)
                /\ h \notin Region /\ h \notin Sends /\ h # "receive_plane"
   BY EndPlanned
 <1>n. /\ {"set_up", "transaction", "validate", "tree", "walk", "commit", "prepare", "migrate",
           "materialize"} \subseteq Steps
       /\ {"set_up", "transaction", "validate", "tree", "walk", "commit", "commit_check",
           "complete", "preflight", "private", "ready", "sizes"}
             \intersect (Region \union Sends \union {"receive_plane"}) = {}
  <2>1. {"set_up", "transaction", "validate", "tree", "walk", "commit", "prepare", "migrate",
         "materialize"} \subseteq Milestones
    BY DEF Milestones
  <2> QED  BY <2>1, StepNames DEF Region, Raw, Massed, Forced, Between, Known, Asking,
              Answering, Answered, Sends
 <1>2. /\ P \in Lists /\ u \in Lists /\ v \in Lists /\ w \in Lists /\ z \in Lists /\ e \in Lists
       /\ Balance \in Lists
  <2>1. Balance \in Lists /\ e \in Lists
    BY EndPlanned
  <2>2. P \in Lists /\ z \in Lists /\ u \in Lists /\ v \in Lists /\ w \in Lists
    BY <1>n, StepNames DEF Lists
  <2> QED  BY <2>1, <2>2
 <1>3. C \in Lists /\ R \in Lists /\ C \in Seq(Outside) /\ R \in Seq(Outside)
  <2>1. C \in Seq(Outside) /\ Report \in Seq(Outside) /\ <<>> \in Seq(Outside)
    BY PiecesOutside
  <2> HIDE DEF C, Report
  <2>2. R \in Seq(Outside)
    BY <2>1
  <2> HIDE DEF R
  <2>3. Outside \subseteq Steps
    BY DEF Outside, Free
  <2> QED  BY <2>1, <2>2, <2>3 DEF Lists
 <1>4. Solve(r) = Then(y2, e)
  <2>1. W = IF Tree
            THEN <<"set_up">> \o C \o <<"ready", "private">> \o M
                 \o <<"tree", "walk", "complete">> \o Report \o <<"validate">>
            ELSE <<"preflight", "transaction">> \o C \o <<"private">> \o M
                 \o <<"commit_check", "commit">>
   <3>1. CASE Tree
     BY <3>1 DEF Then
   <3>2. CASE ~ Tree
    <4> DEFINE t == <<"preflight", "transaction">> \o C \o <<"private">> \o M
               \o <<"commit_check", "commit">>
    <4>1. x4 = t
      BY <3>2 DEF Then
    <4>2. M \in Lists
     <5>1. MeshSolve(r) \in Seq(Quiet)
       BY MeshIsQuiet
     <5> QED  BY <5>1 DEF Lists, Steps
    <4>3. x1 \in Lists
     <5> HIDE DEF C, u
     <5> QED  BY <1>2, <1>3, ThenIsList
    <4>4. x2 \in Lists
     <5> HIDE DEF x1, v
     <5> QED  BY <1>2, <4>3, ThenIsList
    <4>5. x3 \in Lists
     <5> HIDE DEF x2, M
     <5> QED  BY <4>2, <4>4, ThenIsList
    <4>6. x4 \in Lists
     <5> HIDE DEF x3, w
     <5> QED  BY <1>2, <4>5, ThenIsList
    <4>7. R = <<>> /\ z = <<>>
      BY <3>2
    <4> HIDE DEF x4, t, R, z
    <4>8. W = t
      BY <4>1, <4>6, <4>7, ThenEmpty
    <4> QED  BY <3>2, <4>8 DEF t
   <3> QED  BY <3>1, <3>2
  <2> HIDE DEF W
  <2>2. Then(y2, e) = P \o W \o Balance \o e
    BY DEF Then
  <2> QED  BY <2>1, <2>2 DEF Solve
 <1> HIDE DEF E
 <1>5. \E k : /\ Stretch(f3, MeshBehind, 0, k) /\ k \notin Sends /\ k # "receive_plane"
  <2>1. CASE Tree
   <3>1. Stretch(f1, {"validate", "callback"}, 0, "validate")
    <4>1. "validate" \in (Milestones \intersect Mine) \ {"callback", "axis_gather", "prepare"}
          /\ Later("validate") = {"callback"} /\ "validate" # "set_up"
      BY <2>1 DEF Milestones, Mine, Later
    <4>2. ~ Needed(E)
      BY <1>1 DEF Stretch, Needed
    <4>3. Stretch(Onto("validate", E), Later("validate") \union {"validate"}, 0, "validate")
      BY <1>0, <1>1, <4>1, <4>2, MilestoneBefore
    <4>4. Later("validate") \union {"validate"} = {"validate", "callback"}
      BY <4>1
    <4>5. f1 = Onto("validate", E)
      BY <1>1, <1>n, <2>1, Written1 DEF Stretch
    <4> QED  BY <4>3, <4>4, <4>5
   <3> HIDE DEF f1
   <3>2. PICK k2 : /\ Stretch(f2, {"validate", "callback"}, 0, k2)
                   /\ k2 \notin Region /\ k2 \notin Sends /\ k2 # "receive_plane"
    <4> HIDE DEF R
    <4> QED  BY <1>0, <1>3, <1>n, <3>1, Leisure
   <3> HIDE DEF f2
   <3> DEFINE g1 == Onto("complete", f2)
              g2 == Onto("walk", g1)
              g3 == Onto("tree", g2)
   <3>3. Stretch(g1, {"validate", "callback"}, 0, "complete")
     BY <1>0, <3>2, OutsideBefore, OutsideNames
   <3> HIDE DEF g1
   <3>4. Stretch(g2, {"walk", "validate", "callback"}, 0, "walk")
    <4>1. "walk" \in (Milestones \intersect Mine) \ {"callback", "axis_gather", "prepare"}
          /\ Later("walk") = {"validate", "callback"} /\ "walk" # "set_up"
      BY <2>1 DEF Milestones, Mine, Later
    <4>2. ~ Needed(g1)
      BY <3>3 DEF Stretch, Needed
    <4>3. Stretch(g2, Later("walk") \union {"walk"}, 0, "walk")
      BY <1>0, <1>n, <3>3, <4>1, <4>2, MilestoneBefore
    <4>4. Later("walk") \union {"walk"} = {"walk", "validate", "callback"}
      BY <4>1
    <4> QED  BY <4>3, <4>4
   <3> HIDE DEF g2
   <3>5. Stretch(g3, {"tree", "walk", "validate", "callback"}, 0, "tree")
    <4>1. "tree" \in (Milestones \intersect Mine) \ {"callback", "axis_gather", "prepare"}
          /\ Later("tree") = {"walk", "validate", "callback"} /\ "tree" # "set_up"
      BY <2>1 DEF Milestones, Mine, Later
    <4>2. ~ Needed(g2)
      BY <3>4 DEF Stretch, Needed
    <4>3. Stretch(g3, Later("tree") \union {"tree"}, 0, "tree")
      BY <1>0, <1>n, <3>4, <4>1, <4>2, MilestoneBefore
    <4>4. Later("tree") \union {"tree"} = {"tree", "walk", "validate", "callback"}
      BY <4>1
    <4> QED  BY <4>3, <4>4
   <3>6. f3 = g3
    <4>1. Then(<<"tree", "walk", "complete">>, f2)
            = Onto("tree", Onto("walk", Onto("complete", f2)))
      BY <1>n, <3>2, StepNames, Written3 DEF Stretch
    <4> QED  BY <2>1, <4>1 DEF g1, g2
   <3>7. MeshBehind = {"tree", "walk", "validate", "callback"}
     BY <2>1 DEF MeshBehind
   <3> HIDE DEF f3, g3
   <3> QED  BY <1>n, <3>5, <3>6, <3>7
  <2>2. CASE ~ Tree
   <3>1. E \in Lists
     BY <1>1 DEF Stretch
   <3>2. f1 = E
     BY <2>2, <3>1, ThenEmpty
   <3>3. f2 = E
    <4> HIDE DEF f1
    <4> QED  BY <2>2, <3>1, <3>2, ThenEmpty
   <3> HIDE DEF f2
   <3> DEFINE g1 == Onto("commit", E)
              g2 == Onto("commit_check", g1)
   <3>4. Stretch(g1, {"commit", "callback"}, 0, "commit")
    <4>1. "commit" \in (Milestones \intersect Mine) \ {"callback", "axis_gather", "prepare"}
          /\ Later("commit") = {"callback"} /\ "commit" # "set_up"
      BY <2>2 DEF Milestones, Mine, Later
    <4>2. ~ Needed(E)
      BY <1>1 DEF Stretch, Needed
    <4>3. Stretch(g1, Later("commit") \union {"commit"}, 0, "commit")
      BY <1>0, <1>1, <4>1, <4>2, MilestoneBefore
    <4>4. Later("commit") \union {"commit"} = {"commit", "callback"}
      BY <4>1
    <4> QED  BY <4>3, <4>4
   <3> HIDE DEF g1
   <3>5. Stretch(g2, {"commit", "callback"}, 0, "commit_check")
     BY <1>0, <1>n, <3>4, OutsideBefore, OutsideNames
   <3>6. f3 = g2
    <4>1. Then(<<"commit_check", "commit">>, E) = Onto("commit_check", Onto("commit", E))
      BY <1>n, <3>1, StepNames, Written2
    <4> QED  BY <2>2, <3>3, <4>1 DEF g1
   <3>7. MeshBehind = {"commit", "callback"}
     BY <2>2 DEF MeshBehind
   <3> HIDE DEF f3, g2
   <3> QED  BY <1>n, <3>5, <3>6, <3>7
  <2> QED  BY <2>1, <2>2
 <1>l. f1 \in Lists /\ f2 \in Lists
  <2>1. f1 \in Lists
   <3> HIDE DEF z
   <3> QED  BY <1>1, <1>2, ThenIsList DEF Stretch
  <2> HIDE DEF f1, R
  <2> QED  BY <1>3, <2>1, ThenIsList
 <1>6. PICK k3 : Stretch(f3, MeshBehind, 0, k3) /\ k3 \notin Sends /\ k3 # "receive_plane"
   BY <1>5
 <1> HIDE DEF f3, M, f2, f1
 <1>7. M \in Lists /\ Stretch(f4, MeshDue, MeshGathers, "sizes")
   BY <1>6, MeshPlanned DEF M
 <1> HIDE DEF f4
 <1>8. \E k : /\ Stretch(f5, MeshDue, MeshGathers, k)
              /\ k \notin Region /\ k \notin Sends /\ k # "receive_plane"
  <2>1. v \in Seq(Outside)
    BY OutsideNames
  <2>2. "sizes" \notin Region /\ "sizes" \notin Sends /\ "sizes" # "receive_plane"
    BY <1>n
  <2> HIDE DEF v
  <2> QED  BY <1>0, <1>7, <2>1, <2>2, Leisure
 <1>9. PICK k5 : /\ Stretch(f5, MeshDue, MeshGathers, k5)
                 /\ k5 \notin Region /\ k5 \notin Sends /\ k5 # "receive_plane"
   BY <1>8
 <1> HIDE DEF f5, C
 <1>10. PICK k6 : /\ Stretch(f6, MeshDue, MeshGathers, k6)
                  /\ k6 \notin Region /\ k6 \notin Sends /\ k6 # "receive_plane"
   BY <1>0, <1>3, <1>9, Leisure
 <1> HIDE DEF f6
 <1>11. Stretch(Onto(s, f6), MeshDue \union {s}, MeshGathers, s)
   BY <1>10, BeginPlanned
 <1>s. s \notin Region /\ s \notin Sends /\ s # "receive_plane"
   BY <1>n
 <1>12. \E k : /\ Stretch(f7, MeshDue \union {s}, MeshGathers, k)
               /\ k \notin Region /\ k \notin Sends /\ k # "receive_plane"
  <2>1. CASE Tree
   <3>1. f7 = Onto("set_up", f6)
     BY <1>10, <1>n, <2>1, Written1 DEF Stretch
   <3>2. s = "set_up"
     BY <2>1
   <3> HIDE DEF f7, s
   <3> QED  BY <1>11, <1>s, <3>1, <3>2
  <2>2. CASE ~ Tree
   <3>1. f7 = Onto("preflight", Onto("transaction", f6))
     BY <1>10, <1>n, <2>2, StepNames, Written2 DEF Stretch
   <3>2. s = "transaction"
     BY <2>2
   <3> HIDE DEF f7, s
   <3>3. Stretch(Onto("preflight", Onto("transaction", f6)), MeshDue \union {s},
                 MeshGathers, "preflight")
     BY <1>0, <1>11, <1>s, <3>2, OutsideBefore, OutsideNames
   <3> QED  BY <1>n, <3>1, <3>3
  <2> QED  BY <2>1, <2>2
 <1>13. PICK k7 : /\ Stretch(f7, MeshDue \union {s}, MeshGathers, k7)
                  /\ k7 \notin Region /\ k7 \notin Sends /\ k7 # "receive_plane"
   BY <1>12
 <1> HIDE DEF f7
 <1> DEFINE t == Onto("prepare", Onto("migrate", Onto("materialize", f7)))
 <1>14. Planned(t) /\ t # <<>> /\ Head(t) = "prepare"
   BY <1>13, FirstPlanned DEF Stretch
 <1>15. Then(P, f7) = t
   BY <1>13, <1>n, Written3 DEF Stretch
 <1> HIDE DEF P, u, v, w, R, z, e, Balance, t
 <1>16. x1 \in Lists
   BY <1>2, <1>3, ThenIsList
 <1>17. x2 \in Lists
  <2> HIDE DEF x1
  <2> QED  BY <1>2, <1>16, ThenIsList
 <1>18. x3 \in Lists
  <2> HIDE DEF x2
  <2> QED  BY <1>7, <1>17, ThenIsList
 <1>19. x4 \in Lists
  <2> HIDE DEF x3
  <2> QED  BY <1>2, <1>18, ThenIsList
 <1>20. x5 \in Lists
  <2> HIDE DEF x4
  <2> QED  BY <1>3, <1>19, ThenIsList
 <1>21. W \in Lists
  <2> HIDE DEF x5
  <2> QED  BY <1>2, <1>20, ThenIsList
 <1>22. E \in Lists /\ f3 \in Lists /\ f4 \in Lists /\ f5 \in Lists /\ f6 \in Lists
        /\ f7 \in Lists
   BY <1>1, <1>6, <1>7, <1>9, <1>10, <1>13 DEF Stretch
 <1>23. Then(W, E) = f7
  <2>1. Then(W, E) = Then(x5, f1)
   <3> HIDE DEF x5
   <3> QED  BY <1>2, <1>20, <1>22, ThenRegroups DEF f1
  <2>2. Then(x5, f1) = Then(x4, f2)
   <3> HIDE DEF x4
   <3> QED  BY <1>3, <1>19, <1>l, ThenRegroups DEF f2
  <2>3. Then(x4, f2) = Then(x3, f3)
   <3> HIDE DEF x3
   <3> QED  BY <1>2, <1>18, <1>l, ThenRegroups DEF f3
  <2>4. Then(x3, f3) = Then(x2, f4)
   <3> HIDE DEF x2
   <3> QED  BY <1>7, <1>17, <1>22, ThenRegroups DEF f4
  <2>5. Then(x2, f4) = Then(x1, f5)
   <3> HIDE DEF x1
   <3> QED  BY <1>2, <1>16, <1>22, ThenRegroups DEF f5
  <2>6. Then(x1, f5) = Then(u, f6)
    BY <1>2, <1>3, <1>22, ThenRegroups DEF f6
  <2> HIDE DEF W, x1, x2, x3, x4, x5
  <2> QED  BY <2>1, <2>2, <2>3, <2>4, <2>5, <2>6 DEF f7
 <1> HIDE DEF W
 <1>24. y1 \in Lists
   BY <1>2, <1>21, ThenIsList
 <1>25. Then(Then(y1, Balance), e) = Then(y1, E)
  <2> HIDE DEF y1
  <2> QED  BY <1>2, <1>24, ThenRegroups DEF E
 <1>26. Then(y1, E) = Then(P, f7)
   BY <1>2, <1>21, <1>22, <1>23, ThenRegroups
 <1>27. Solve(r) = t
  <2> HIDE DEF y1
  <2> QED  BY <1>4, <1>15, <1>25, <1>26
 <1> QED  BY <1>14, <1>27
-----------------------------------------------------------------------------
(* A walk comes after its tree in every call.                              *)
Grown(s) == s \in Seq(Steps) /\ Rooted(s) /\ (s # <<>> => s[1] # "walk")

LEMMA QuietIsGrown ==
    ASSUME NEW a \in Seq(Quiet)
    PROVE  Grown(a)
 <1>1. "walk" \notin Quiet
   BY DEF Quiet, Checks, JointSteps
 <1>2. a \in Seq(Steps)
   BY DEF Steps
 <1>3. \A i \in 1 .. Len(a) : a[i] # "walk"
   BY <1>1
 <1>4. Len(a) \in Nat /\ (a # <<>> => 1 \in 1 .. Len(a))
   OBVIOUS
 <1>5. \A i \in 1 .. Len(a) - 1 : i + 1 \in 1 .. Len(a)
   BY <1>4
 <1> QED  BY <1>2, <1>3, <1>4, <1>5 DEF Grown, Rooted

LEMMA GrownTogether ==
    ASSUME NEW a, NEW b, Grown(a), Grown(b)
    PROVE  Grown(a \o b)
 <1> DEFINE c == a \o b
            n == Len(a)
            m == Len(b)
 <1>1. a \in Seq(Steps) /\ b \in Seq(Steps) /\ n \in Nat /\ m \in Nat
   BY DEF Grown
 <1>2. c \in Seq(Steps) /\ Len(c) = n + m
   BY <1>1
 <1>3. \A i \in 1 .. n : c[i] = a[i]
   BY <1>1
 <1>4. \A i \in 1 .. m : c[n + i] = b[i]
   BY <1>1
 <1>5. (n > 0 => a[1] # "walk") /\ (m > 0 => b[1] # "walk")
   BY <1>1 DEF Grown
 <1>6. /\ \A i \in 1 .. n - 1 : a[i + 1] = "walk" => a[i] = "tree"
       /\ \A i \in 1 .. m - 1 : b[i + 1] = "walk" => b[i] = "tree"
   BY DEF Grown, Rooted
 <1> HIDE DEF c, n, m
 <1>7. ASSUME NEW i \in 1 .. Len(c) - 1, c[i + 1] = "walk"
       PROVE  c[i] = "tree"
  <2>1. CASE i < n
   <3>1. i \in 1 .. n /\ i + 1 \in 1 .. n /\ i \in 1 .. n - 1
     BY <1>1, <2>1
   <3>2. a[i + 1] = "walk"
     BY <1>3, <1>7, <3>1
   <3> QED  BY <1>3, <1>6, <3>1, <3>2
  <2>2. CASE i = n
   <3>1. 1 \in 1 .. m /\ i + 1 = n + 1 /\ m > 0
     BY <1>1, <1>2, <2>2
   <3>2. b[1] = "walk"
     BY <1>4, <1>7, <3>1
   <3> QED  BY <1>5, <3>1, <3>2
  <2>3. CASE i > n
   <3>1. i - n \in 1 .. m - 1 /\ i - n \in 1 .. m /\ (i - n) + 1 \in 1 .. m
         /\ n + (i - n) = i /\ n + ((i - n) + 1) = i + 1
     BY <1>1, <1>2, <2>3
   <3>2. c[i] = b[i - n] /\ c[i + 1] = b[(i - n) + 1]
     BY <1>4, <3>1
   <3> QED  BY <1>6, <1>7, <3>1, <3>2
  <2> QED  BY <1>1, <1>2, <2>1, <2>2, <2>3
 <1>8. ASSUME c # <<>>
       PROVE  c[1] # "walk"
  <2>1. Len(c) > 0
    BY <1>2, <1>8
  <2>2. CASE n > 0
    BY <1>1, <1>3, <1>5, <2>2
  <2>3. CASE n = 0
   <3>1. 1 \in 1 .. m /\ n + 1 = 1 /\ m > 0
     BY <1>1, <1>2, <2>1, <2>3
   <3>2. c[1] = b[1]
     BY <1>4, <3>1
   <3> QED  BY <1>5, <3>1, <3>2
  <2> QED  BY <1>1, <2>2, <2>3
 <1>9. Grown(c)
   BY <1>2, <1>7, <1>8 DEF Grown, Rooted
 <1> QED  BY <1>9 DEF c

LEMMA SolveIsGrown ==
    ASSUME NEW r
    PROVE  Grown(Solve(r))
 <1>1. /\ "prepare" \in Quiet /\ "migrate" \in Quiet /\ "materialize" \in Quiet
       /\ "set_up" \in Quiet /\ "ready" \in Quiet /\ "private" \in Quiet
       /\ "validate" \in Quiet /\ "preflight" \in Quiet /\ "transaction" \in Quiet
       /\ "commit_check" \in Quiet /\ "commit" \in Quiet /\ "callback" \in Quiet
       /\ "complete" \in Quiet
   BY DEF Quiet, Checks, JointSteps
 <1>2. /\ <<"prepare", "migrate", "materialize">> \in Seq(Quiet)
       /\ <<"set_up">> \in Seq(Quiet) /\ <<"ready", "private">> \in Seq(Quiet)
       /\ <<"validate">> \in Seq(Quiet) /\ <<"callback">> \in Seq(Quiet)
       /\ <<"preflight", "transaction">> \in Seq(Quiet)
       /\ <<"private">> \in Seq(Quiet)
       /\ <<"commit_check", "commit">> \in Seq(Quiet)
   BY <1>1
 <1> DEFINE w == <<"tree", "walk", "complete">>
 <1>3. Grown(w)
  <2>1. w \in Seq(Steps)
   <3>1. "tree" \in Steps /\ "walk" \in Steps /\ "complete" \in Steps
     BY <1>1 DEF Steps
   <3> QED  BY <3>1
  <2>2. Len(w) = 3 /\ w[1] = "tree" /\ w[2] = "walk" /\ w[3] = "complete"
    OBVIOUS
  <2> HIDE DEF w
  <2>3. ASSUME NEW i \in 1 .. Len(w) - 1
        PROVE  w[i + 1] = "walk" => w[i] = "tree"
   <3>1. i = 1 \/ i = 2
     BY <2>2
   <3> QED  BY <2>2, <3>1
  <2> QED  BY <2>1, <2>2, <2>3 DEF Grown, Rooted
 <1> HIDE DEF w
 <1> DEFINE a1 == <<"set_up">> \o Creation(r)
            a2 == a1 \o <<"ready", "private">>
            a3 == a2 \o MeshSolve(r)
            a4 == a3 \o w
            a5 == a4 \o Report
            a6 == a5 \o <<"validate">>
            b1 == <<"preflight", "transaction">> \o Creation(r)
            b2 == b1 \o <<"private">>
            b3 == b2 \o MeshSolve(r)
            b4 == b3 \o <<"commit_check", "commit">>
            c1 == IF Tree THEN a6 ELSE b4
            c2 == <<"prepare", "migrate", "materialize">> \o c1
            c3 == c2 \o Balance
 <1>4. Grown(a6)
  <2>1. a1 \in Seq(Quiet)
    BY <1>2, QuietPieces, QuietTogether
  <2>2. a2 \in Seq(Quiet)
    BY <1>2, <2>1, QuietTogether
  <2>3. a3 \in Seq(Quiet)
    BY <2>2, MeshIsQuiet, QuietTogether
  <2> HIDE DEF a3
  <2>4. Grown(a4)
    BY <1>3, <2>3, QuietIsGrown, GrownTogether
  <2> HIDE DEF a4
  <2>5. Grown(a5)
    BY <2>4, QuietPieces, QuietIsGrown, GrownTogether
  <2> HIDE DEF a5
  <2> QED  BY <1>2, <2>5, QuietIsGrown, GrownTogether
 <1>5. Grown(b4)
  <2>1. b1 \in Seq(Quiet)
    BY <1>2, QuietPieces, QuietTogether
  <2>2. b2 \in Seq(Quiet)
    BY <1>2, <2>1, QuietTogether
  <2>3. b3 \in Seq(Quiet)
    BY <2>2, MeshIsQuiet, QuietTogether
  <2>4. b4 \in Seq(Quiet)
    BY <1>2, <2>3, QuietTogether
  <2> QED  BY <2>4, QuietIsGrown
 <1>6. Solve(r) = c3 \o <<"callback">>
   BY DEF Solve, w
 <1> HIDE DEF a6, b4
 <1>7. Grown(c1)
   BY <1>4, <1>5
 <1> HIDE DEF c1
 <1>8. Grown(c2)
   BY <1>2, <1>7, QuietIsGrown, GrownTogether
 <1> HIDE DEF c2
 <1>9. Grown(c3)
   BY <1>8, QuietPieces, QuietIsGrown, GrownTogether
 <1> HIDE DEF c3
 <1> QED  BY <1>2, <1>6, <1>9, QuietIsGrown, GrownTogether

LEMMA MeasureIsGrown ==
    ASSUME NEW r
    PROVE  Grown(Measure(r))
 <1>1. "measure" \in Quiet /\ "measure_input" \in Quiet /\ "self_direction" \in Quiet
   BY DEF Quiet, Checks
 <1> DEFINE a == <<"measure", "measure_input">> \o Energy(r)
 <1>2. <<"measure", "measure_input">> \in Seq(Quiet) /\ <<"self_direction">> \in Seq(Quiet)
   BY <1>1
 <1>3. a \in Seq(Quiet)
   BY <1>2, EnergyIsQuiet, QuietTogether
 <1>4. Measure(r) = a \o <<"self_direction">>
   BY DEF Measure
 <1> HIDE DEF a
 <1> QED  BY <1>2, <1>3, <1>4, QuietTogether, QuietIsGrown
-----------------------------------------------------------------------------
(* A measurement does nothing a solve must be whole for.                   *)
LEMMA MeasurePlanned ==
    ASSUME NEW r
    PROVE  /\ Planned(Measure(r)) /\ Measure(r) # <<>> /\ Head(Measure(r)) = "measure"
           /\ Due(Measure(r)) = {}
 <1> DEFINE e == <<"self_direction">>
            d == Then(e, <<>>)
            G == Energy(r)
            M == <<"measure", "measure_input">>
            f1 == Then(G, d)
            f2 == Then(M, f1)
 <1>1. e \in Lists /\ M \in Lists /\ <<>> \in Lists
   BY StepNames DEF Lists
 <1>2. G \in Lists
  <2>1. G \in Seq(Quiet)
    BY EnergyIsQuiet
  <2> HIDE DEF G
  <2> QED  BY <2>1 DEF Lists, Steps
 <1>3. Stretch(Onto("self_direction", <<>>), {}, 0, "self_direction")
  <2>1. Fits("self_direction", <<>>)
    BY NothingIsPlanned
       DEF Fits, Needed, Milestones, Sends
  <2>2. "self_direction" \in Steps /\ "self_direction" # "axis_gather"
        /\ {"self_direction"} \intersect Milestones = {}
    BY StepNames DEF Milestones
  <2> DEFINE c == Onto("self_direction", <<>>)
  <2>3. Planned(c) /\ Due(c) = {} /\ Gathers(c) = 0 + 0 /\ Head(c) = "self_direction"
        /\ c # <<>>
    BY <2>1, <2>2, NothingIsPlanned, StepBefore DEF Onto
  <2>4. c \in Lists
    BY <1>1, <2>2, BeforeIsList
  <2>5. Gathers(c) = 0
    BY <2>3
  <2>6. "prepare" \notin {}
    OBVIOUS
  <2> HIDE DEF c
  <2>7. Stretch(c, {}, 0, "self_direction")
    BY <2>3, <2>4, <2>5, <2>6 DEF Stretch
  <2> QED  BY <2>7 DEF c
 <1>4. d = Onto("self_direction", <<>>)
   BY <1>1, <1>2, StepNames, Written1
 <1> HIDE DEF d
 <1>5. \E k : Stretch(f1, {}, 0, k) /\ k \notin Sends /\ k # "receive_plane"
  <2>1. "self_direction" \notin Sends /\ "self_direction" # "receive_plane"
    BY DEF Sends
  <2> QED  BY <1>3, <1>4, <2>1, EnergyPlanned
 <1>6. PICK k : Stretch(f1, {}, 0, k) /\ k \notin Sends /\ k # "receive_plane"
   BY <1>5
 <1> HIDE DEF f1, G
 <1>7. M \in Seq(Free) /\ M # <<>> /\ M[1] = "measure"
  <2>1. Outside \subseteq Free
    BY DEF Outside
  <2> QED  BY <2>1, OutsideNames
 <1>8. Planned(f2) /\ f2 # <<>> /\ Head(f2) = "measure" /\ Due(f2) = {}
  <2>1. Planned(f1) /\ f1 # <<>> /\ Head(f1) = k /\ Due(f1) = {}
    BY <1>6 DEF Stretch
  <2>2. ~ Needed(f1)
    BY <2>1 DEF Needed
  <2> HIDE DEF M
  <2>3. Planned(M \o f1) /\ Due(M \o f1) = Due(f1)
        /\ (M # <<>> => Head(M \o f1) = M[1] /\ M \o f1 # <<>>)
    BY <1>6, <1>7, <2>1, <2>2, FreePrefix
  <2> QED  BY <1>7, <2>1, <2>3 DEF Then
 <1>9. Measure(r) = Then(Then(M, G), e)
   BY DEF Measure, Then, G
 <1>10. d = e
   BY <1>1, ThenEmpty DEF d
 <1> HIDE DEF M, e
 <1>11. Then(Then(M, G), e) = Then(M, Then(G, e))
   BY <1>1, <1>2, ThenRegroups
 <1> QED  BY <1>8, <1>9, <1>10, <1>11 DEF f1, f2

(* What is left of a call that an exception ends.                          *)
LEMMA UnwoundIsRear ==
    ASSUME NEW steps \in Seq(Steps), NEW s
    PROVE  \/ From(steps, s) = <<>>
           \/ \E i \in 0 .. Len(steps) : /\ From(steps, s) = Rear(steps, i)
                                         /\ From(steps, s) # <<>> /\ Head(From(steps, s)) = s
 <1>1. CASE From(steps, s) # <<>>
  <2>1. PICK i \in 1 .. Len(steps) : steps[i] = s /\ From(steps, s) = SubSeq(steps, i, Len(steps))
    BY <1>1, FromIsRest
  <2>2. i - 1 \in 0 .. Len(steps) /\ (i - 1) + 1 = i /\ Len(steps) \in Nat
    OBVIOUS
  <2>3. From(steps, s) = Rear(steps, i - 1)
    BY <2>1, <2>2 DEF Rear
  <2>4. Head(From(steps, s)) = s
    BY <2>1
  <2> QED  BY <1>1, <2>2, <2>3, <2>4
 <1> QED  BY <1>1

LEMMA RearKeeps ==
    ASSUME NEW steps, Planned(steps), Rooted(steps), NEW k \in 0 .. Len(steps)
    PROVE  /\ Planned(Rear(steps, k)) /\ Rooted(Rear(steps, k))
           /\ Due(Rear(steps, k)) \subseteq Due(steps)
 <1>1. steps \in Seq(Steps) /\ Len(steps) \in Nat
   BY DEF Planned
 <1> DEFINE u == Rear(steps, k)
 <1>2. /\ u \in Seq(Steps) /\ Len(u) = Len(steps) - k
       /\ \A j \in 1 .. Len(steps) - k : u[j] = steps[k + j]
   BY <1>1, RearOf
 <1>3. Planned(u)
   BY RearIsPlanned
 <1> HIDE DEF u
 <1>4. ASSUME NEW j \in 1 .. Len(u)
       PROVE  k + j \in 1 .. Len(steps) /\ u[j] = steps[k + j]
   BY <1>1, <1>2
 <1>5. Due(u) \subseteq Due(steps)
   BY <1>4 DEF Due
 <1>6. Rooted(u)
  <2>1. ASSUME NEW i \in 1 .. Len(u) - 1, u[i + 1] = "walk"
        PROVE  u[i] = "tree"
   <3>1. /\ i \in 1 .. Len(u) /\ i + 1 \in 1 .. Len(u) /\ k + i \in 1 .. Len(steps) - 1
         /\ k + (i + 1) = (k + i) + 1
     BY <1>1, <1>2
   <3>2. u[i + 1] = steps[(k + i) + 1] /\ u[i] = steps[k + i]
     BY <1>4, <3>1
   <3> QED  BY <2>1, <3>1, <3>2 DEF Rooted
  <2> QED  BY <2>1 DEF Rooted
 <1> QED  BY <1>3, <1>5, <1>6 DEF u

(* What a list of steps that is worked through leaves.                     *)
LEMMA Leaving ==
    ASSUME NEW steps, Planned(steps), Rooted(steps), steps # <<>>, NEW s
    PROVE  /\ steps \in Seq(Steps) /\ Tail(steps) \in Seq(Steps) /\ Head(steps) \in Steps
           /\ Fits(Head(steps), Tail(steps))
           /\ Planned(Tail(steps)) /\ Rooted(Tail(steps))
           /\ Planned(From(Tail(steps), s)) /\ Rooted(From(Tail(steps), s))
           /\ "prepare" \notin Due(Tail(steps)) /\ "prepare" \notin Due(From(Tail(steps), s))
           /\ Due(From(Tail(steps), s)) \subseteq Due(Tail(steps))
           /\ Due(steps) = Due(Tail(steps)) \union ({Head(steps)} \intersect Milestones)
           /\ "prepare" \in Due(steps) <=> Head(steps) = "prepare"
           /\ Tail(steps) # <<>> /\ Head(Tail(steps)) = "walk" => Head(steps) = "tree"
           /\ From(Tail(steps), s) # <<>> => Head(From(Tail(steps), s)) = s
 <1> DEFINE u == Tail(steps)
            v == From(u, s)
 <1>1. /\ steps \in Seq(Steps) /\ u \in Seq(Steps) /\ Head(steps) \in Steps
       /\ Fits(Head(steps), u) /\ Planned(u)
   BY PlannedStep
 <1>2. /\ u = Rear(steps, 1) /\ Head(steps) = steps[1] /\ Len(steps) \in Nat \ {0}
       /\ Len(u) = Len(steps) - 1
       /\ \A j \in 1 .. Len(u) : u[j] = steps[1 + j]
   BY <1>1, TailIsRear
 <1>3. Due(steps) = Due(u) \union ({Head(steps)} \intersect Milestones)
   BY <1>1, DueOf
 <1>4. Rooted(u) /\ 1 \in 0 .. Len(steps)
  <2>1. 1 \in 0 .. Len(steps)
    BY <1>2
  <2> HIDE DEF u
  <2> QED  BY <1>2, <2>1, RearKeeps
 <1>5. "prepare" \notin Due(u)
   BY <1>1 DEF Fits
 <1>6. "prepare" \in Due(steps) <=> Head(steps) = "prepare"
   BY <1>3, <1>5 DEF Milestones
 <1>7. u # <<>> /\ Head(u) = "walk" => Head(steps) = "tree"
  <2> HIDE DEF u
  <2>1. ASSUME u # <<>>, Head(u) = "walk"
        PROVE  steps[1] = "tree"
   <3>1. Len(u) \in Nat \ {0} /\ u[1] = "walk" /\ 1 \in 1 .. Len(u)
     BY <1>1, <2>1
   <3>2. steps[1 + 1] = "walk" /\ 1 \in 1 .. Len(steps) - 1
     BY <1>2, <3>1
   <3> QED  BY <3>2 DEF Rooted
  <2> QED  BY <1>2, <2>1
 <1> HIDE DEF u
 <1>8. Planned(v) /\ Rooted(v) /\ Due(v) \subseteq Due(u) /\ (v # <<>> => Head(v) = s)
  <2>1. CASE v = <<>>
   <3>1. Rooted(<<>>)
     BY DEF Rooted
   <3> HIDE DEF v
   <3> QED  BY <2>1, <3>1, NothingIsPlanned
  <2>2. CASE v # <<>>
   <3>1. PICK i \in 0 .. Len(u) : v = Rear(u, i) /\ Head(v) = s
     BY <1>1, <2>2, UnwoundIsRear
   <3> HIDE DEF v
   <3> QED  BY <1>1, <1>4, <2>2, <3>1, RearKeeps
  <2> QED  BY <2>1, <2>2
 <1> HIDE DEF v
 <1>9. "prepare" \notin Due(v)
   BY <1>5, <1>8
 <1> QED  BY <1>1, <1>3, <1>4, <1>5, <1>6, <1>7, <1>8, <1>9 DEF u, v
=============================================================================
