------------------------------- MODULE Prizes -------------------------------
(***************************************************************************)
(* internal/tournament/compute.go: the ranking of a tournament, its prize  *)
(* pool and its payouts, as functions of the tournament record and an      *)
(* exclusion list.  Money is an integer; the products the source keeps     *)
(* within 64 bits are far from that width in every instance.               *)
(***************************************************************************)
EXTENDS Ledger, Sequences

\* floor(x * b / 10000), quotient and remainder scaled apart.
Bps(x, b) == (x \div 10000) * b + ((x % 10000) * b) \div 10000

Scored(t) == {i \in DOMAIN t.entries : t.entries[i].scored}

ScoredCount(t) == Cardinality(Scored(t))

\* Too few scored entrants at Close: everything is refunded.
Voids(t) == ScoredCount(t) < t.rules.minEntrants

\* The order of the ranking: scored before unscored, by score, by submission;
\* unscored entries in the order they joined.
Ahead(d, e) ==
  \/ d.scored /\ ~e.scored
  \/ /\ d.scored /\ e.scored
     /\ d.score > e.score \/ (d.score = e.score /\ d.submitSeq < e.submitSeq)
  \/ ~d.scored /\ ~e.scored /\ d.joinSeq < e.joinSeq

\* The entries in an order in which none is ahead of an earlier one: what the
\* sorts of ComputeStandings return.
Ranked(entries) ==
  LET places == DOMAIN entries
      order == CHOOSE p \in Bijection(places, places) :
                 \A i, j \in places : i < j => ~Ahead(entries[p[j]], entries[p[i]])
  IN [i \in places |-> entries[order[i]]]

\* ComputeStandings: under Split, equal scores share the place of the first.
ComputeStandings(t) ==
  LET ranked == Ranked(t.entries)
      Shared(i) == {j \in 1..i : ranked[j].scored /\ ranked[j].score = ranked[i].score}
  IN [i \in DOMAIN ranked |->
        [place |-> IF t.rules.tieBreak = "split" /\ ranked[i].scored
                     THEN Min(Shared(i)) ELSE i,
         player |-> ranked[i].player.id,
         score |-> ranked[i].score,
         scored |-> ranked[i].scored]]

\* ComputePool.
ComputePool(t) ==
  LET fees == t.rules.entryFee * Len(t.entries)
      rake == IF Voids(t) THEN 0 ELSE Bps(fees, t.rules.rakeBps)
  IN [fees |-> fees, rake |-> rake, pool |-> fees - rake]

\* The number of paid places.
Places(t) == Min({Len(t.rules.prizeBps), Len(t.standings)})

\* The shares of the paid places, rounded down.
Floors(t) == [j \in 1..Places(t) |-> Bps(ComputePool(t).pool, t.rules.prizeBps[j])]

\* The share of place i; the first place takes what the rounding leaves over.
Share(t, i) ==
  Floors(t)[i] + (IF i = 1 THEN ComputePool(t).pool - SumFunction(Floors(t)) ELSE 0)

\* The paid places whose scores equal that of place i: a tie group is cut off at
\* the last paid place.
Tied(t, i) ==
  {k \in 1..Places(t) : /\ t.standings[k].score = t.standings[i].score
                        /\ t.standings[k].scored = t.standings[i].scored}

\* Plausible slip: equal scores share the place and not the money.
SplitAmount_Unpooled(t, i) == Share(t, i)

\* Equal scores pool their shares and divide them, one unit of the remainder
\* each to the earliest.
SplitAmount(t, i) ==
  LET tied == Tied(t, i)
      total == SumFunction([k \in tied |-> Share(t, k)])
      count == Cardinality(tied)
  IN total \div count + (IF i - Min(tied) < total % count THEN 1 ELSE 0)

Amount(t, i) == IF t.rules.tieBreak = "split" THEN SplitAmount(t, i) ELSE Share(t, i)

\* Tournament.Entry.
Joined(t, p) == \E i \in DOMAIN t.entries : t.entries[i].player.id = p

EntryOf(t, p) == CHOOSE i \in DOMAIN t.entries : t.entries[i].player.id = p

Refunds(t, id, ex) ==
  [i \in DOMAIN t.entries |->
     [player |-> t.entries[i].player.id, place |-> 0, amount |-> t.rules.entryFee,
      withheld |-> FALSE, version |-> ex.version,
      key |-> RefundKey(id, t.entries[i].player.id)]]

\* Plausible slip: the list checked is the one of the tournament's creation.
Withholds_CreationList(t, p, ex) ==
  t.entries[EntryOf(t, p)].player.jurisdiction \in t.rules.exclusions.jurisdictions

Withholds(t, p, ex) == t.entries[EntryOf(t, p)].player.jurisdiction \in ex.jurisdictions

PrizePayouts(t, id, ex) ==
  [i \in 1..Places(t) |->
     LET s == t.standings[i]
         out == Withholds(t, s.player, ex)
     IN [player |-> s.player, place |-> s.place, amount |-> Amount(t, i),
         withheld |-> out, version |-> ex.version,
         key |-> IF out THEN WithheldKey(id, s.player, s.place)
                        ELSE PrizeKey(id, s.player, s.place)]]

\* ComputePayouts of a closed tournament, whose standings are set.
ComputePayouts(t, id, ex) ==
  IF Voids(t) THEN Refunds(t, id, ex) ELSE PrizePayouts(t, id, ex)

=============================================================================
