----------------------------- MODULE ListReader -----------------------------
(***************************************************************************)
(* Somebody who reads a list to its end, page by page, while it changes:   *)
(* the pages of revisions and of collections (components/pages/            *)
(* revisions.js, entity-revisions.js, collections.js) and what their       *)
(* routes read. A list is a sequence of ids.                               *)
(***************************************************************************)
EXTENDS Pager

CONSTANTS Nothing

VARIABLES
  list,    \* which list is read, or Nothing
  pager,   \* of its page
  seen,    \* history: what the pages have shown, from the first on
  there    \* history: what was in the list when the first was read

readerVars == <<list, pager, seen, there>>

\* The database answers with each row once, but counts rows as they are joined.
Once(rows) ==
  LET first == {n \in DOMAIN rows : \A k \in 1..(n - 1) : rows[k] # rows[n]}
  IN SetToSortSeq({<<n, rows[n]>> : n \in first}, LAMBDA a, b : a[1] < b[1])
Read1(rows, from, size) ==
  LET r == Once(Read(rows, from, size)) IN [n \in DOMAIN r |-> r[n][2]]

ReaderInit == list = Nothing /\ pager = Nothing /\ seen = {} /\ there = {}

\* A page as the server renders it: what it reads is one more than it has room for.
First(which, rows, size) ==
  LET read == Read1(rows, 0, size)
      p == [Opened(which, read, 0, size, "pager") EXCEPT !.next = NextEnabled(read, size)]
  IN /\ list' = which /\ pager' = p
     /\ seen' = ToSet(p.rows) /\ there' = ToSet(rows)

OpenList(which, rows, size) == list = Nothing /\ First(which, rows, size)

\* Bound: one request at a time.
Turn ==
  /\ list # Nothing /\ NextShown(pager) /\ pager.asked = <<>>
  /\ pager' = Next_(pager, list)
  /\ UNCHANGED <<list, seen, there>>

\* The answer: read from the list as it is, and shown.
Arrives(rows) ==
  /\ list # Nothing /\ pager.asked # <<>>
  /\ LET r == pager.asked[1]
     IN pager' = Answered([pager EXCEPT !.asked[1].rows = Read1(rows, r.from, r.size)], 1)
  /\ seen' = seen \cup ToSet(pager'.rows)
  /\ UNCHANGED <<list, there>>

Leave == list # Nothing /\ list' = Nothing /\ pager' = Nothing /\ seen' = {} /\ there' = {}

AtEnd == list # Nothing /\ pager.asked = <<>> /\ ~NextShown(pager)
=============================================================================
