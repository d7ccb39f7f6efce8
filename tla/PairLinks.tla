------------------------------ MODULE PairLinks ------------------------------
(***************************************************************************)
(* PairLinkBuilder: which halo candidates of an earlier snapshot share     *)
(* particles with which of a later one.  A catalogue is a sequence of      *)
(* candidates [id, mass, members]; members lists particle identities.      *)
(*                                                                         *)
(* The candidates are visited in the order of the catalogues; nothing in   *)
(* the result is meant to depend on it.  A definition marked "fault" is a  *)
(* plausible mistake in the one that follows.                              *)
(***************************************************************************)
EXTENDS Answers, Naturals, FiniteSets, Sequences, SequencesExt

Catalogued(catalogue) == {catalogue[i] : i \in DOMAIN catalogue}

Particles(halo) == {halo.members[i] : i \in DOMAIN halo.members}

Numbered(catalogue, id) ==
    CHOOSE halo \in Catalogued(catalogue) : halo.id = id

(* validate_catalog: no candidate twice, no particle twice.                *)
ValidCatalogue(catalogue) ==
    /\ \A i \in DOMAIN catalogue :
         Cardinality(Particles(catalogue[i])) = Len(catalogue[i].members)
    /\ \A i, j \in DOMAIN catalogue : i # j =>
         /\ catalogue[i].id # catalogue[j].id
         /\ Particles(catalogue[i]) \cap Particles(catalogue[j]) = {}

Shared(halo, other) == Cardinality(Particles(halo) \cap Particles(other))

(* The links of one earlier candidate, most shared first.                  *)
MoreShared(a, b) ==
    \/ a.shared > b.shared
    \/ a.shared = b.shared /\ a.later < b.later

LinksFrom(halo, later, minimum, fraction) ==
    LET shares == {Shared(halo, other) : other \in Catalogued(later)}
        best == CHOOSE s \in shares : \A t \in shares : t <= s
        champions == {other \in Catalogued(later) : Shared(halo, other) = best}
        linked == {other \in Catalogued(later) :
                     LET s == Shared(halo, other)
                     IN  /\ s > 0
                         /\ s >= minimum
                         /\ s * fraction.den >= fraction.num * Len(halo.members)}
        link(other) ==
            LET s == Shared(halo, other)
            IN  [earlier |-> halo.id, later |-> other.id, shared |-> s,
                 unambiguous |-> s = best /\ Cardinality(champions) = 1,
                 ambiguous |-> s = best /\ Cardinality(champions) > 1,
                 primary |-> FALSE]
    IN  IF later = <<>> THEN <<>>
        ELSE InOrder({link(other) : other \in linked}, MoreShared)

(* better_primary: more shared, then heavier, larger, lower identity.      *)
HeavierOnly(earlier, challenger, incumbent) ==                   \* fault
    \/ challenger.shared > incumbent.shared
    \/ /\ challenger.shared = incumbent.shared
       /\ Numbered(earlier, challenger.earlier).mass
            > Numbered(earlier, incumbent.earlier).mass
BetterPrimary(earlier, challenger, incumbent) ==
    LET c == Numbered(earlier, challenger.earlier)
        i == Numbered(earlier, incumbent.earlier)
        equal == challenger.shared = incumbent.shared
    IN  \/ challenger.shared > incumbent.shared
        \/ equal /\ c.mass > i.mass
        \/ equal /\ c.mass = i.mass /\ Len(c.members) > Len(i.members)
        \/ /\ equal /\ c.mass = i.mass /\ Len(c.members) = Len(i.members)
           /\ c.id < i.id

(* The primary of a later candidate, found by one pass over its links.     *)
Primary(earlier, links, id) ==
    LET own == SelectSeq(links, LAMBDA link : link.later = id)
    IN  FoldLeft(LAMBDA best, link :
                   IF link # best /\ BetterPrimary(earlier, link, best)
                     THEN link ELSE best,
                 own[1], own)

(* link_pair: the links, in the end sorted by the two identities, and the  *)
(* candidates of either catalogue without one.                             *)
LinkPair(earlier, later, minimum, fraction) ==
    LET links == FoldLeft(LAMBDA all, halo :
                            all \o LinksFrom(halo, later, minimum, fraction),
                          <<>>, earlier)
        final == {[links[i] EXCEPT
                     !.primary = links[i] = Primary(earlier, links, links[i].later)]
                  : i \in DOMAIN links}
    IN  IF ~ ValidCatalogue(earlier) \/ ~ ValidCatalogue(later) THEN Refused
        ELSE Found(
             [links |-> final,
              unmatched |-> {h.id : h \in Catalogued(earlier)}
                              \ {link.earlier : link \in final},
              new |-> {h.id : h \in Catalogued(later)}
                        \ {link.later : link \in final}])
=============================================================================
