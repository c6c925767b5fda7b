---------------------------- MODULE MCDirectory ----------------------------
(* A small instance of Directory for TLC.  The lists of Listing are        *)
(* checked in its initial states, one query each.                          *)
EXTENDS Directory, TLC

CONSTANTS r1, r2, e1, MaxItems, MaxLimit

VARIABLE query  \* the query under test; none after the first step

Lists == INSTANCE Listing

NoQuery == [items |-> 0, limit |-> 1]
Queries == [items : 0..MaxItems, limit : 1..MaxLimit]

MCInit == Init /\ query \in Queries
MCNext == Next /\ query' = NoQuery
MCSpec == MCInit /\ [][MCNext]_<<vars, query>>

(* Listing: the pages of a list are its rows, each once.                   *)
PagesPartition == Lists!PagesPartition(query.items, query.limit)

Symmetry == Permutations(Requests)
=============================================================================
