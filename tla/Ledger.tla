------------------------------- MODULE Ledger -------------------------------
(***************************************************************************)
(* internal/ledger: an append-only double-entry book whose postings are    *)
(* idempotent by key.  A book is a set of postings: the append order, the  *)
(* slot and the ballot of a posting are audit data that nothing reads      *)
(* back.  Accounts and keys are tuples; the source joins identifiers with  *)
(* ':' and keeps ':' out of identifiers.                                   *)
(***************************************************************************)
EXTENDS Integers, FiniteSetsExt

Kinds == {"entry_fee", "rake", "prize", "withheld", "refund", "claim"}

PlayerAccount(p) == <<"player", p>>
PoolAccount(t) == <<"pool", t>>
RakeAccount(t) == <<"rake", t>>
WithheldAccount(t) == <<"withheld", t>>
ClaimsAccount(t) == <<"claims", t>>

FeeKey(t, p) == <<"fee", t, p>>
RakeKey(t) == <<"rake", t>>
PrizeKey(t, p, place) == <<"prize", t, p, place>>
WithheldKey(t, p, place) == <<"withheld", t, p, place>>
RefundKey(t, p) == <<"refund", t, p>>
ClaimKey(t, p) == <<"claim", t, p>>

\* Posting.Validate: two accounts, a positive amount, a known kind.
Validate(p) == p.debit # p.credit /\ p.amount > 0 /\ p.kind \in Kinds

Has(book, key) == \E p \in book : p.key = key

\* Book.Post of each of ps: an invalid posting and one whose key is there are
\* not appended.
Post(book, ps) == book \cup {p \in ps : Validate(p) /\ ~Has(book, p.key)}

Total(ps) == SumFunction([p \in ps |-> p.amount])

Credits(book, account) == {p \in book : p.credit = account}

Debits(book, account) == {p \in book : p.debit = account}

\* Credits minus debits.
Balance(book, account) == Total(Credits(book, account)) - Total(Debits(book, account))

ForTournament(book, t) == {p \in book : p.tournament = t}

=============================================================================
