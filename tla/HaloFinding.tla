----------------------------- MODULE HaloFinding -----------------------------
(***************************************************************************)
(* The halo finders on every one of a set of inputs: a behaviour draws a   *)
(* call and takes its answer.  The definitions the answers are compared    *)
(* with look at all the particles, know nothing of cells, trees or query   *)
(* radii, and do not mention an order.                                     *)
(***************************************************************************)
EXTENDS FriendsOfFriends, DensityPeaks, SphericalOverdensity, PairLinks

CONSTANTS ApertureCalls, FofCalls, LinkCalls, DeblendCalls, SoCalls

VARIABLES call,    \* the finder and its arguments
          work,    \* what the finder has so far
          answer   \* what it returned

finding == <<call, work, answer>>

Calls == ApertureCalls \union FofCalls \union LinkCalls \union DeblendCalls
           \union SoCalls

Called == [at |-> "call"]

FindingInit == call \in Calls /\ work = Called /\ answer = Refused

Is(finder) == call.finder = finder /\ work.at = "return"
Begins(finder) == call.finder = finder /\ work.at = "call" /\ UNCHANGED call
Goes(finder) == /\ call.finder = finder /\ work.at = "work"
                /\ UNCHANGED call

Continue(next) == work' = next /\ UNCHANGED answer
Return(result) == work' = [work EXCEPT !.at = "return"] /\ answer' = result

QueryAperture ==
    /\ Begins("aperture")
    /\ IF IndexFits(Len(call.built), call.cap)
         THEN Return(Aperture(Index(call.built, 1, call.side, call.cap),
                              call.now, call.centre, call.radius))
         ELSE Return(Refused)

StartGroups ==
    /\ Begins("fof")
    /\ IF ~ UniqueIds(call.store) THEN Return(Refused)
       ELSE IF Len(call.store) < call.minimum THEN Return(Found(<<>>))
       ELSE Continue(FofWork(call.store, call.axes, call.side, call.link))

WalkParticle == /\ Goes("fof")
                /\ work.walked < Len(call.store)
                /\ Continue(WalkNext(work))

SortGroups == /\ Goes("fof")
              /\ work.walked = Len(call.store)
              /\ Return(Found(Memberships(work, call.minimum)))

Link == /\ Begins("links")
        /\ Return(LinkPair(call.earlier, call.later, call.minimum, call.fraction))

StartSplit ==
    /\ Begins("deblend")
    /\ IF DeblendFits(call.candidate, call.k)
         THEN Continue(DeblendWork(call.candidate, call.side, call.k))
         ELSE Return(Refused)

SplitPass ==
    /\ Goes("deblend")
    /\ CASE work.next = "densities" -> Continue(DensityPass(work))
         [] work.next = "ascent" /\ Singular(work) -> Return(Refused)
         [] work.next = "ascent" /\ ~ Singular(work) -> Continue(AscentPass(work))
         [] work.next = "basins" -> Continue(Basins(work))
         [] work.next = "merge" -> Continue(MergePass(work, call.ratio))
         [] work.next = "hosts" -> Return(Found(Hosts(work, 2)))

IndexParticles == /\ Begins("so")
                  /\ Continue([at |-> "work", index |-> SoIndex(call.store, call.side)])

Measure == /\ Goes("so")
           /\ Return(Evaluate(call.store, work.index, call.seeds, call.volumes))

FindingNext ==
    \/ QueryAperture
    \/ StartGroups \/ WalkParticle \/ SortGroups
    \/ Link
    \/ StartSplit \/ SplitPass
    \/ IndexParticles \/ Measure
    \/ work.at = "return" /\ UNCHANGED finding

Value == answer.value

-----------------------------------------------------------------------------
(* An admitted aperture query returns the particles within its radius,     *)
(* where they are now, each of them once, in whatever cell of a grid of    *)
(* any fineness they were filed and however far the sphere wraps round;    *)
(* one that particles have left the cells of, or whose radius is not in    *)
(* (0, L/2], is refused.                                                   *)
ApertureIsExact ==
    Is("aperture") =>
        LET c == CellsPerAxis(Len(call.built), 1, call.cap)
            inside == {i \in DOMAIN call.now :
                         c * c * Distance2(call.centre, call.now[i], call.side)
                           <= Square(call.radius)}
        IN  ~ answer.refused =>
              /\ ToSet(Value) = inside /\ Len(Value) = Cardinality(inside)
              /\ call.radius > 0 /\ 2 * call.radius <= c * call.side

(* The particles a chain of friends joins with those of S.                 *)
Near(i, j) == Distance2(call.store[i].at, call.store[j].at, call.side)
                <= Square(call.link)

RECURSIVE FriendsOf(_)
FriendsOf(S) ==
    LET more == S \union {i \in DOMAIN call.store : \E j \in S : Near(i, j)}
    IN  IF more = S THEN S ELSE FriendsOf(more)

(* The memberships are the sets of friends of friends that are large       *)
(* enough, whole, in an order that depends on nothing but their sizes and  *)
(* identities: not on the order of the store, nor on the grid.             *)
MembershipsAreComponents ==
    Is("fof") =>
        LET ids(S) == {call.store[i].id : i \in S}
            groups == {ids(FriendsOf({i})) : i \in DOMAIN call.store}
        IN  /\ {ToSet(Value[n]) : n \in DOMAIN Value}
                 = {S \in groups : Cardinality(S) >= call.minimum}
            /\ \A n \in DOMAIN Value :
                 /\ \A i, j \in DOMAIN Value[n] : i < j => Value[n][i] < Value[n][j]
                 /\ \A m \in DOMAIN Value : m < n =>
                      \/ Len(Value[m]) > Len(Value[n])
                      \/ /\ Len(Value[m]) = Len(Value[n])
                         /\ Value[m][1] < Value[n][1]

(* Catalogued of the two snapshots are linked exactly when they share      *)
(* enough; a candidate has one primary or is new, has links or is          *)
(* unmatched, and is matched unambiguously at most once; none of it        *)
(* depends on the order in which either catalogue lists its candidates.    *)
LinksAreOrderFree ==
    Is("links") /\ ~ answer.refused =>
        /\ answer = LinkPair(Reverse(call.earlier), Reverse(call.later),
                             call.minimum, call.fraction)
        /\ \A h \in Catalogued(call.later) :
             Cardinality({l \in Value.links : l.later = h.id /\ l.primary})
               = IF h.id \in Value.new THEN 0 ELSE 1
        /\ \A e \in Catalogued(call.earlier) :
             LET own == {l \in Value.links : l.earlier = e.id}
                 best == {h \in Catalogued(call.later) :
                            \A g \in Catalogued(call.later) :
                              Shared(e, g) <= Shared(e, h)}
             IN  /\ e.id \in Value.unmatched <=> own = {}
                 /\ {l.later : l \in {m \in own : m.unambiguous}}
                      = {h.id : h \in {g \in best : Cardinality(best) = 1}}
                          \cap {l.later : l \in own}
        /\ {<<l.earlier, l.later, l.shared>> : l \in Value.links}
             = {<<e.id, h.id, Shared(e, h)>> : <<e, h>> \in
                 {p \in Catalogued(call.earlier) \X Catalogued(call.later) :
                    LET s == Shared(p[1], p[2]) IN
                    /\ s >= call.minimum
                    /\ s * call.fraction.den >= call.fraction.num * Len(p[1].members)}}

(* The k nearest of all the particles, the identity breaking a tie.        *)
Closer(c, i, j) ==
    LET d(p) == Distance2(work.local[c].at, work.local[p].at, call.side)
    IN  d(i) < d(j) \/ (d(i) = d(j) /\ work.local[i].id < work.local[j].id)

Nearest(c) ==
    {i \in All(work) \ {c} :
        Cardinality({j \in All(work) \ {c, i} : Closer(c, j, i)}) < call.k}

(* The pairs of peaks a saddle joins, and the peaks joined with those of S *)
(* one after another.                                                      *)
Saddles ==
    UNION {{{work.root[i], work.root[n]} :
               n \in {m \in Nearest(i) :
                        Merges(work.density, work.root, i, m, call.ratio)}}
             : i \in All(work)}

RECURSIVE JoinedWith(_, _)
JoinedWith(S, saddles) ==
    LET more == S \union UNION {e \in saddles : e \cap S # {}}
    IN  IF more = S THEN S ELSE JoinedWith(more, saddles)

(* The densities are those of the k nearest among all the particles, found *)
(* by a tree or not; the way uphill from a particle goes on from the       *)
(* strongest particle in sight and ends at one that sees no stronger; the  *)
(* hosts share the particles among them, two of them in one host exactly   *)
(* when saddles join their peaks, however the pairs were batched; the peak *)
(* of a host is its strongest particle.                                    *)
HostsFollowTheDensity ==
    call.finder = "deblend" /\ work.at # "call" /\ ~ (work.at = "return" /\ answer.refused) =>
        LET saddles == Saddles
            stronger(i, j) == Stronger(work.local, work.density, i, j)
            seen(i) == Nearest(i) \union {i}
            best(i) == CHOOSE b \in seen(i) : \A j \in seen(i) \ {b} : stronger(b, j)
            ids(S) == {work.local[i].id : i \in S}
            peaks == {work.root[i] : i \in All(work)}
            families == {JoinedWith({p}, saddles) : p \in peaks}
            host(F) == {j \in All(work) : work.root[j] \in F}
            chief(S) == CHOOSE i \in S : \A j \in S \ {i} : stronger(i, j)
        IN  /\ work.next = "ascent" => \A i \in All(work) : work.density[i] =
                 [mass |-> MapThenSumSet(LAMBDA j : work.local[j].mass, seen(i)),
                  r2 |-> Max({Distance2(work.local[i].at, work.local[j].at, call.side)
                                : j \in Nearest(i)})]
            /\ work.next = "merge" => \A i \in All(work) :
                 work.root[i] = IF best(i) = i THEN i ELSE work.root[best(i)]
            /\ work.at = "return" =>
                 {[peak |-> h.peak, members |-> h.members] : h \in Value.hosts}
                   = {[peak |-> work.local[chief(host(F))].id, members |-> ids(host(F))]
                        : F \in families}

(* A measurement is that of one scan over all the particles of half the    *)
(* box, whatever the query radii on the way: it ends at the first shell    *)
(* that lies outside the crossing radius of what is within, and particles  *)
(* at one distance are taken together; a seed without a crossing is zero,  *)
(* and no seed has the measurement of another.                             *)
CrossingIsTheFirst ==
    Is("so") /\ ~ answer.refused =>
        \A n \in DOMAIN call.seeds : \A v \in call.volumes :
            LET d2(i) == Distance2(call.seeds[n].centre, call.store[i].at, call.side)
                ball(s) == {i \in DOMAIN call.store : d2(i) <= s}
                dists == {d2(i) : i \in DOMAIN call.store}
                half == Square(call.side \div 2)
                mass(s) == MassWithin(call.store, ball(s))
                dense(s) == SixthPower(1) * s * s * s <= Square(v * mass(s))
                next(s) == {t \in dists : t > s /\ \A u \in dists : u > s => u >= t}
                open(s) == \A t \in next(s) :
                             t * t * t > Square(v * mass(s))
                stop == {s \in dists : s <= half /\ dense(s) /\ open(s)
                           /\ \A t \in dists : t < s => dense(t) /\ ~ open(t)}
                good == {s \in stop : v * mass(s) <= half * (call.side \div 2)}
            IN  /\ Value[v][n].id = n
                /\ IF good = {} THEN Value[v][n].count = 0
                   ELSE \E s \in good : /\ Value[v][n].count = Cardinality(ball(s))
                                        /\ Value[v][n].mass = mass(s)

(* Every sphere around a centre holds what it should: those asked for and  *)
(* those that are measured.                                                *)
SpheresAreExact == ApertureIsExact /\ CrossingIsTheFirst
=============================================================================
