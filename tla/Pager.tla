------------------------------- MODULE Pager -------------------------------
(***************************************************************************)
(* Results shown page by page: PagerElement                                *)
(* (src/client/components/pages/parts/pager.js), with the addresses it     *)
(* leaves in the browser's history and the requests it waits for. The      *)
(* operators say what becomes of a pager p; the pages with one have it as  *)
(* a variable.                                                             *)
(***************************************************************************)
EXTENDS Naturals, SequencesExt

CONSTANTS
  Sizes,      \* results per page that can be chosen
  MaxUrls,    \* bound: addresses in the history
  MaxAsked    \* bound: requests not answered yet

\* What the server has not read yet.
Unread == <<"unread">>

\* An address. One that was not written by the pager may name its parameters in another
\* order.
Url(params, from, size, written) ==
  [params |-> params, from |-> from, size |-> size, written |-> written]

\* The part of a list that is read for a page: one more than it has room for.
Read(list, from, size) == SubSeq(list, from + 1, Min({from + size + 1, Len(list)}))

\* Wrong: a full page is always followed by another one.
NextEnabled_Full(rows, size) == Len(rows) >= size

\* getNextEnabledAndResultsArray
Page(rows, size) == SubSeq(rows, 1, Min({size, Len(rows)}))
NextEnabled(rows, size) == Len(rows) > size

\* A page as the server renders it at first.
Opened(params, list, from, size, written) ==
  LET rows == Read(list, from, size)
  IN [from |-> from, size |-> size, rows |-> Page(rows, size),
      next |-> NextEnabled(rows, size), urls |-> <<Url(params, from, size, written)>>, at |-> 1,
      asked |-> <<>>]

\* Wrong: an address is added even if it is where the browser is.
Pushed_Always(p, url) ==
  [p EXCEPT !.urls = Append(SubSeq(@, 1, p.at), url), !.at = @ + 1]

\* pushState drops the addresses ahead; not done where the browser is already.
Pushed(p, url) ==
  IF url = p.urls[p.at] THEN p
  ELSE [p EXCEPT !.urls = Append(SubSeq(@, 1, p.at), url), !.at = @ + 1]

\* triggerSearch
Triggered(p, params, from, size) ==
  [Pushed(p, Url(params, from, size, "pager")) EXCEPT
     !.asked = Append(@, [params |-> params, from |-> from, size |-> size, rows |-> Unread])]

\* Wrong: the other parameters change under the page one is at.
ParamsChanged_There(p, params) == Triggered(p, params, p.from, p.size)

\* componentDidUpdate, of other search parameters
ParamsChanged(p, params) == Triggered([p EXCEPT !.from = 0], params, 0, p.size)

Previous(p, params) == Triggered(p, params, IF p.from > p.size THEN p.from - p.size ELSE 0, p.size)

\* Wrong: one more was asked for than is shown.
Next_Further(p, params) == Triggered(p, params, p.from + p.size + 1, p.size)

Next_(p, params) == Triggered(p, params, p.from + p.size, p.size)
Resized(p, params, size) == Triggered(p, params, p.from, size)

\* Wrong: the size in the address is not looked at.
Navigated_Size(was, now, url, params) ==
  IF url.from = was.from THEN now ELSE Triggered(now, params, url.from, url.size)

\* The end of handleURLChange: the pager was as it was, and is as it is now that the page
\* knows of the address.
Navigated(was, now, url, params) ==
  IF url.from = was.from /\ url.size = was.size THEN now
  ELSE Triggered(now, params, url.from, url.size)

\* The server reads the list for the i-th request.
Served(p, i, list) ==
  LET r == p.asked[i] IN [p EXCEPT !.asked[i].rows = Read(list, r.from, r.size)]

\* The answers come in any order, and each is shown.
Answered(p, i) ==
  LET r == p.asked[i]
  IN [p EXCEPT !.from = r.from, !.size = r.size, !.rows = Page(r.rows, r.size),
               !.next = NextEnabled(r.rows, r.size), !.asked = RemoveAt(@, i)]

\* The buttons: there are none while nothing is shown.
PreviousEnabled(p) == p.rows # <<>> /\ p.from > 0
NextShown(p) == p.rows # <<>> /\ p.next
=============================================================================
