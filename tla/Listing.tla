------------------------------ MODULE Listing ------------------------------
(***************************************************************************)
(* What every paginated list promises of its pages, and the parsing of the *)
(* sort expression of a list of users.  A list is a sequence of rows; the  *)
(* database skips and takes.                                               *)
(***************************************************************************)
EXTENDS Naturals, Sequences, SequencesExt

(* A query is valid when page and limit are at least 1.                    *)
Skip(page, limit) == (page - 1) * limit

Rows(list, page, limit) ==
  LET last == Skip(page, limit) + limit
  IN SubSeq(list, Skip(page, limit) + 1, IF last < Len(list) THEN last ELSE Len(list))

(* Mutant: the division rounds down.                                       *)
BugFloor(limit, totalItems) == IF totalItems < limit THEN 1 ELSE totalItems \div limit

TotalPages(limit, totalItems) ==
  IF totalItems = 0 THEN 1 ELSE (totalItems + limit - 1) \div limit

HasNext(page, limit, totalItems) == page < TotalPages(limit, totalItems)
HasPrev(page) == page > 1

(* The answer of every list, of the rows there are.                        *)
Paginated(list, page, limit) ==
  [items |-> Rows(list, page, limit), pages |-> TotalPages(limit, Len(list)),
   hasNext |-> HasNext(page, limit, Len(list)), hasPrev |-> HasPrev(page)]

-----------------------------------------------------------------------------
(* A sort expression, split at its commas: each part has so many minus     *)
(* signs before a name.  Only the first is a direction.                    *)
Allowed == {"createdAt", "updatedAt", "email", "firstName", "lastName"}
Fallback == <<[field |-> "createdAt", order |-> "desc"]>>

Known(part) == part.minus <= 1 /\ part.field \in Allowed
Criterion(part) == [field |-> part.field, order |-> IF part.minus = 0 THEN "asc" ELSE "desc"]
Parsed(parts) == [i \in DOMAIN parts |-> Criterion(parts[i])]

(* The empty result stands for the answer 400.                             *)
ParseSort(parts) ==
  IF parts = <<>> THEN Fallback
  ELSE IF \A i \in DOMAIN parts : Known(parts[i]) THEN Parsed(parts) ELSE <<>>

-----------------------------------------------------------------------------
(* Properties.                                                             *)

(* page-meta.dto.ts:27-29: a client that starts at page 1 and goes on as   *)
(* long as hasNext says so sees every row once, and no empty page but that *)
(* of an empty list; nothing is beyond the last page, and hasPrev leads    *)
(* back to rows.                                                           *)
PagesPartition(totalItems, limit) ==
  LET Page(p) == Paginated([i \in 1..totalItems |-> i], p, limit)
      pages == Page(1).pages
  IN /\ FlattenSeq([p \in 1..pages |-> Page(p).items]) = [i \in 1..totalItems |-> i]
     /\ \A p \in 1..pages : Page(p).items # <<>> \/ totalItems = 0
     /\ \A p \in 1..(pages + 1) :
          /\ Page(p).hasNext <=> Page(p + 1).items # <<>>
          /\ Page(p).hasPrev /\ totalItems > 0 => Page(p - 1).items # <<>>

(* sort.util.ts:13-14: nothing but the whitelisted fields, in the order    *)
(* asked for, reaches the database; an expression with anything else in it *)
(* is refused as a whole.                                                  *)
SortWhitelisted(parts) ==
  LET sort == ParseSort(parts)
  IN /\ \A i \in DOMAIN sort : sort[i].field \in Allowed
     /\ sort # <<>> /\ parts # <<>> =>
          \A i \in DOMAIN parts :
            /\ sort[i].field = parts[i].field
            /\ sort[i].order = "asc" <=> parts[i].minus = 0
=============================================================================
