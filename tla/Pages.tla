--------------------------------- MODULE Pages ---------------------------------
(***************************************************************************)
(* A client reads a list page by page while the list changes               *)
(* (application/pagination.py and the list_page of every repository).      *)
(*                                                                         *)
(* A row is [major, minor, id]: the columns the list is sorted by, the     *)
(* primary key last.  A keyset cursor holds columns of the last row of the *)
(* page, an offset cursor the number of rows before the next one.          *)
(***************************************************************************)
EXTENDS Ordering, SequencesExt

CONSTANTS
  Id,          \* primary keys: numbers
  Column,      \* values of a sort column: numbers
  PageLimit,   \* the limit the client asks for
  MaxChanges   \* bound: changes of the list while it is read

ASSUME PagesAssumption ==
  /\ Id \subseteq Int /\ Column \subseteq Int
  /\ PageLimit \in Nat \ {0} /\ MaxChanges \in Nat

VARIABLES
  listing,   \* which list is read
  rows,      \* its rows now
  cursor,    \* what the next request sends: nothing, a row, an offset; or the end
  shown,     \* the rows of the pages so far, in the order they were returned
  steady,    \* rows present, unchanged, since the first page
  changes    \* changes so far

pageVars == <<listing, rows, cursor, shown, steady, changes>>

Row == [major: Column, minor: Column, id: Id]

(* The lists, by how they are sorted and continued.                        *)
memberships == [by |-> "keyset", descending |-> FALSE, resume |-> "all"]
organizations == memberships
accounts == memberships
departments == memberships
cost_centers == memberships
budget_versions == memberships
import_jobs == [by |-> "keyset", descending |-> TRUE, resume |-> "all"]
audit_events == import_jobs
scenarios == import_jobs
conversations == import_jobs
import_errors == [by |-> "keyset", descending |-> FALSE, resume |-> "major and id"]
breakdown == [by |-> "offset", descending |-> FALSE, resume |-> "offset"]
import_preview == breakdown

Listing == {organizations, memberships, accounts, departments, cost_centers, budget_versions,
            import_jobs, audit_events, scenarios, conversations, import_errors, breakdown,
            import_preview}

-----------------------------------------------------------------------------
Earlier(r, s) ==
  \/ r.major < s.major
  \/ r.major = s.major /\ r.minor < s.minor
  \/ r.major = s.major /\ r.minor = s.minor /\ r.id < s.id

(* ORDER BY ... ASC or DESC.                                               *)
Before(list, r, s) == IF list.descending THEN Earlier(s, r) ELSE Earlier(r, s)

Sorted(list, table) ==
  InOrder(table, {p \in table \X table : Before(list, p[1], p[2])})

(* A comparison that goes on from the value of the first column alone.     *)
after_major(list, row, r) ==
  IF list.descending THEN r.major < row.major ELSE r.major > row.major

(* The WHERE a cursor adds.  That of import_errors leaves out the column   *)
(* `field' the list is sorted by.                                          *)
after(list, row, r) ==
  CASE list.resume = "all" ->
         IF list.descending THEN Earlier(r, row) ELSE Earlier(row, r)
    [] list.resume = "major and id" ->
         r.major > row.major \/ (r.major = row.major /\ r.id > row.id)

First == [at |-> "first"]
End == [at |-> "end"]

(* LIMIT limit + 1: one row more than the page says that there is more.    *)
list_page(list, table, from, limit) ==
  LET matching == Sorted(list, IF from = First THEN table
                               ELSE {r \in table : after(list, from.row, r)})
      fetched == SubSeq(matching, 1, IF Len(matching) > limit THEN limit + 1 ELSE Len(matching))
      has_more == Len(fetched) > limit
      items == IF has_more THEN SubSeq(fetched, 1, limit) ELSE fetched
  IN [items |-> items, next |-> IF has_more THEN [at |-> "row", row |-> Last(items)] ELSE End]

offset_page(items, from, limit) ==
  LET offset == IF from = First THEN 0 ELSE from.offset
      upto == offset + limit
      has_more == Len(items) > upto
  IN [items |-> SubSeq(items, offset + 1, IF has_more THEN upto ELSE Len(items)),
      next |-> IF has_more THEN [at |-> "offset", offset |-> upto] ELSE End]

Page ==
  IF listing.by = "keyset" THEN list_page(listing, rows, cursor, PageLimit)
  ELSE offset_page(Sorted(listing, rows), cursor, PageLimit)

-----------------------------------------------------------------------------
Reachable ==
  {T \in SUBSET Row : IsFiniteSet(T) /\ \A r, s \in T : r.id = s.id => r = s}

PagesInit ==
  /\ listing \in Listing
  /\ rows \in Reachable
  /\ cursor = First
  /\ shown = <<>>
  /\ steady = rows
  /\ changes = 0

ReadPage ==
  /\ cursor # End
  /\ shown' = shown \o Page.items
  /\ cursor' = Page.next
  /\ UNCHANGED <<listing, rows, steady, changes>>

Change ==
  /\ cursor \notin {First, End}
  /\ changes < MaxChanges
  /\ changes' = changes + 1
  /\ UNCHANGED <<listing, cursor, shown>>

Insert ==
  /\ Change
  /\ \E r \in Row : r.id \notin {s.id : s \in rows} /\ rows' = rows \cup {r}
  /\ UNCHANGED steady

Delete ==
  /\ Change
  /\ \E r \in rows : rows' = rows \ {r} /\ steady' = steady \ {r}

(* A column the list is sorted by is written: a version is renamed, an     *)
(* answer moves the updated_at of its conversation.                        *)
Touch ==
  /\ Change
  /\ \E r \in rows, m \in Column :
       /\ m # r.major
       /\ rows' = (rows \ {r}) \cup {[r EXCEPT !.major = m]}
       /\ steady' = steady \ {r}

PagesNext == ReadPage \/ Insert \/ Delete \/ Touch

PagesSpec == PagesInit /\ [][PagesNext]_pageVars

-----------------------------------------------------------------------------
Times(r) == Cardinality({i \in DOMAIN shown : shown[i] = r})
Boundaries == {shown[i] : i \in {j \in DOMAIN shown : j % PageLimit = 0}}

(* Whoever reads a list to its end has seen every row that was there all   *)
(* along and was not written meanwhile exactly once, whatever was          *)
(* inserted, deleted or moved around it.  Two lists promise less: one      *)
(* continued by an offset, where any change shifts what follows, and the   *)
(* issues of an import, where a page that ends inside a row skips the      *)
(* issues of that row with a smaller key and repeats those with a greater. *)
(* (list_page, offset_page, SqlImportErrorRepository.list_page.)           *)
PagesComplete ==
  cursor = End =>
    \A r \in steady :
      \/ Times(r) = 1
      \/ listing.by = "offset" /\ changes > 0
      \/ /\ listing = import_errors
         /\ \E b \in Boundaries :
              b.major = r.major /\ b.minor # r.minor
=============================================================================
