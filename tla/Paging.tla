------------------------------- MODULE Paging -------------------------------
(***************************************************************************)
(* Stateless keyset pagination (internal/search/cursor.go): the client     *)
(* holds an opaque token with the last item's position, the server walks   *)
(* the tree again for every page and resumes after that position.  Files   *)
(* come, go and change between two pages.                                  *)
(*                                                                         *)
(* A file is its path, a number in the order of path names, and its value  *)
(* under the sort key: a tagged scalar, or "nil" where the attribute is    *)
(* absent.  Values survive the token's JSON; those that do not (an         *)
(* infinite rank, a path that is not UTF-8) are left out.                  *)
(***************************************************************************)
EXTENDS Integers, Sequences, SequencesExt, FiniteSets, FiniteSetsExt

CONSTANTS
  FilePaths,   \* paths, integers
  SortVals,    \* values a file may have under the sort key
  MaxUpdates,  \* bound: changes to the tree during a session
  Limits       \* page sizes a client asks for, 0 for no limit

ASSUME PagingAssumption ==
  /\ FilePaths \subseteq Nat /\ IsFiniteSet(FilePaths)
  /\ Limits \subseteq Nat /\ MaxUpdates \in Nat
  /\ \A v \in SortVals : v.kind \in {"int", "str", "nil"} /\ v.n \in Nat

VARIABLES
  tree,    \* value of each file, Absent where there is none
  updates, \* changes made since the session began
  order,   \* "asc" or "desc", the same for the whole session
  generic, \* the tool pages with PaginateGeneric
  token,   \* cursor of the next page, NoToken for the first
  pages,   \* files returned so far, in order
  ended,   \* the last page has been returned
  stable   \* files that have not changed since the session began

pageVars == <<tree, updates, order, generic, token, pages, ended, stable>>

Absent == [kind |-> "absent", n |-> 0]
NoToken == [val |-> Absent, path |-> 0]
Existing == {p \in FilePaths : tree[p] # Absent}

PageStart(first, ord, gen) ==
  /\ tree = first /\ order = ord /\ generic = gen /\ updates = 0
  /\ token = NoToken /\ pages = <<>> /\ ended = FALSE
  /\ stable = Existing

PageInit ==
  \E first \in [FilePaths -> SortVals \cup {Absent}], ord \in {"asc", "desc"}, gen \in BOOLEAN :
    PageStart(first, ord, gen)

-----------------------------------------------------------------------------
(* cmpInt, cmpString and the comparison of kinds: the sign of a - b.       *)
Sign(a, b) == IF a < b THEN -1 ELSE IF a > b THEN 1 ELSE 0

(* An absent value comes after any other, kinds in the order of their      *)
(* names.                                                                  *)
KindRank(v) == CASE v.kind = "int" -> 1 [] v.kind = "str" -> 2 [] v.kind = "nil" -> 3
CmpCursorVal(a, b) ==
  IF KindRank(a) # KindRank(b) THEN Sign(KindRank(a), KindRank(b))
  ELSE IF a.kind = "nil" THEN 0 ELSE Sign(a.n, b.n)

Directed(c) == IF order = "desc" THEN -c ELSE c

(* cmpKeyVals: tuples from left to right, each component in its order.     *)
CmpKeyVals(a, b, orders) ==
  LET c == [i \in DOMAIN a |-> IF orders[i] = "desc" THEN -CmpCursorVal(a[i], b[i])
                                                     ELSE CmpCursorVal(a[i], b[i])]
      apart == {i \in DOMAIN a : c[i] # 0}
  IN  IF apart = {} THEN 0 ELSE c[Min(apart)]

(* The tools' keys end in a component that is the item's own, as here.     *)
KeyOf(v, p) == <<v, [kind |-> "str", n |-> p]>>
CmpItems(v, p, w, q) == CmpKeyVals(KeyOf(v, p), KeyOf(w, q), <<order, "asc">>)

(* sortResultsPageable: ties go by path, ascending in either order.        *)
Before(p, q) ==
  LET c == Directed(CmpCursorVal(tree[p], tree[q]))
  IN  IF generic THEN CmpItems(tree[p], p, tree[q], q) < 0
                 ELSE c < 0 \/ (c = 0 /\ p < q)

(* Strictly after the cursor, which may be of a file that has gone.        *)
AfterCursor_SkipsTies(p, cur) == Directed(CmpCursorVal(tree[p], cur.val)) > 0
AfterCursor(p, cur) ==
  LET c == Directed(CmpCursorVal(tree[p], cur.val))
  IN  IF generic THEN CmpItems(tree[p], p, cur.val, cur.path) > 0
                 ELSE c > 0 \/ (c = 0 /\ p > cur.path)

(* sort.Search: a place of 1 .. n + 1 that holds, if it is one of the n,   *)
(* after one that does not; in an upward closed set there is one such.     *)
Search(n, holds) ==
  {k \in 1 .. n + 1 : (k <= n => k \in holds) /\ (k > 1 => k - 1 \notin holds)}

(* The list a walk has found, sorted, and what PaginateResults and         *)
(* PaginateGeneric keep of it.                                             *)
Sorted ==
  CHOOSE s \in [1 .. Cardinality(Existing) -> Existing] :
    \A i, j \in DOMAIN s : i < j => Before(s[i], s[j])
Resume(cur) ==
  LET all == Sorted
      beyond == {i \in DOMAIN all : AfterCursor(all[i], cur)}
  IN  IF cur = NoToken THEN {all}
      ELSE {SubSeq(all, from, Len(all)) : from \in Search(Len(all), beyond)}

GetPage(limit) == \E rest \in Resume(token) :
  LET more == limit > 0 /\ Len(rest) > limit
      page == IF more THEN SubSeq(rest, 1, limit) ELSE rest
  IN  /\ ~ended /\ ended' = ~more
      /\ pages' = pages \o page
      /\ token' = IF more THEN [val |-> tree[page[limit]], path |-> page[limit]] ELSE NoToken
      /\ UNCHANGED <<tree, updates, order, generic, stable>>

(* A file is created, edited or removed while the client reads a page.     *)
Update(p, v) ==
  /\ ~ended /\ updates < MaxUpdates /\ v # tree[p]
  /\ tree' = [tree EXCEPT ![p] = v] /\ updates' = updates + 1
  /\ stable' = stable \ {p}
  /\ UNCHANGED <<order, generic, token, pages, ended>>

PageNext ==
  \/ \E l \in Limits : GetPage(l)
  \/ \E p \in FilePaths, v \in SortVals \cup {Absent} : Update(p, v)

PageSpec == PageInit /\ [][PageNext]_pageVars

-----------------------------------------------------------------------------
(* A session returns every file that stayed as it was, once and in order,  *)
(* whatever came, went or changed around it, the file at the cursor too,   *)
(* and however the client varies its page size.                            *)
Place(p) == {i \in DOMAIN pages : pages[i] = p}

PagesExact ==
  /\ \A p \in stable : Cardinality(Place(p)) <= 1 /\ (ended => Place(p) # {})
  /\ \A p, q \in stable : \A i \in Place(p), j \in Place(q) : Before(p, q) => i < j
=============================================================================
