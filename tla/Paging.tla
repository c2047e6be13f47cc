------------------------------- MODULE Paging -------------------------------
(* Lists that are read page by page, each page by a request of its own:    *)
(* the rows a query returns, in an order the database chooses where the    *)
(* query names none, are sorted, cut into pages and answered with the      *)
(* number of pages.  Nothing is remembered between two requests.           *)
EXTENDS Integers, Sequences, FiniteSets, SequencesExt

CONSTANT Null  \* a value that is not set

(* An ordering of a set without ties, as sequence numbers.                 *)
Rankings(S) ==
  {r \in [S -> 1 .. Cardinality(S)] : \A x, y \in S : r[x] = r[y] => x = y}

(* Mutant: rows with the same value stay in the database's order.          *)
Precedes_NoTie(l, r, key, id, multiplier) ==
  CASE key[l] = key[r] -> FALSE
    [] key[l] # key[r] /\ key[l] = Null -> FALSE
    [] key[l] # key[r] /\ key[r] = Null -> TRUE
    [] OTHER -> key[l] * multiplier < key[r] * multiplier
(* The comparator: a value that is not set comes last in both directions,  *)
(* and rows with the same value are in the order of their ids.             *)
Precedes(l, r, key, id, multiplier) ==
  CASE key[l] = key[r] -> id[l] * multiplier < id[r] * multiplier
    [] key[l] # key[r] /\ key[l] = Null -> FALSE
    [] key[l] # key[r] /\ key[r] = Null -> TRUE
    [] OTHER -> key[l] * multiplier < key[r] * multiplier

(* The elements of S in the order R: the n-th has n - 1 before it.  This   *)
(* and not SortSeq, so that what is sorted can also be reasoned about.     *)
InOrder(S, R) ==
  [n \in 1 .. Cardinality(S) |->
     CHOOSE x \in S : Cardinality({y \in S : <<y, x>> \in R}) = n - 1]

(* ORDER BY of a query, descending.                                        *)
Descending(S, rank) == InOrder(S, {pair \in S \X S : rank[pair[1]] > rank[pair[2]]})

(* items.sort(comparator) keeps the places of rows it does not tell apart. *)
SortOrder(listing, key, id, multiplier) ==
  LET Less(i, j) == Precedes(listing[i], listing[j], key, id, multiplier)
      Places     == 1 .. Len(listing)
  IN  {pair \in Places \X Places :
         Less(pair[1], pair[2]) \/ (~Less(pair[2], pair[1]) /\ pair[1] < pair[2])}
Sorted(listing, key, id, multiplier) ==
  LET places == InOrder(1 .. Len(listing), SortOrder(listing, key, id, multiplier))
  IN  [n \in 1 .. Len(listing) |-> listing[places[n]]]

(* items.slice(start, start + pageSize)                                    *)
Slice(items, page, pageSize) ==
  LET start == (page - 1) * pageSize
      end   == start + pageSize
  IN  SubSeq(items, start + 1, IF end < Len(items) THEN end ELSE Len(items))

TotalPages(n, pageSize) == (n + pageSize - 1) \div pageSize

(* Customers and devices: up to a limit the answer is everything, whatever *)
(* page is asked for, and the client filters and pages by itself.          *)
Answer(items, page, pageSize, limit) ==
  IF Len(items) <= limit THEN items ELSE Slice(items, page, pageSize)

LastPage(items, pageSize, limit) ==
  IF Len(items) <= limit THEN 1 ELSE TotalPages(Len(items), pageSize)

(* What a client is shown that has read pages 1 to p of a list as it was,  *)
(* and reads the rest, up to the last page it is told, as it is then.      *)
ShownInTwo(before, after, p, pageSize, limit) ==
  LET OnPages(items, pages) ==
        UNION {ToSet(Answer(items, page, pageSize, limit)) : page \in pages}
  IN  OnPages(before, 1 .. p)
      \cup OnPages(after, (p + 1) .. LastPage(after, pageSize, limit))

=============================================================================
