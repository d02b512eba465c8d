----------------------------- MODULE SearchPage -----------------------------
(***************************************************************************)
(* The search page in the browser (src/client/components/pages/search.tsx  *)
(* and parts/search-field.tsx): a field that searches when it is submitted *)
(* or a while after it was last changed, results by the page, and the back *)
(* and forward buttons of the browser.                                     *)
(*                                                                         *)
(* A search is a text and a type; "unset" is the type of a page whose      *)
(* address names none, "" that of a field in which none was chosen. The    *)
(* parameters are put together without encoding: a text may read as        *)
(* another one, and leaves the rest of it in the address.                  *)
(***************************************************************************)
EXTENDS Pager

CONSTANTS
  Texts, SearchTypes,
  Reads(_),      \* the text that the parameters are read as
  Hits(_)        \* what the search server finds for parameters, in its order

VARIABLES
  field,     \* SearchField's state
  due,       \* whether it will search by itself
  search,    \* SearchPage's state
  pager,
  waited,    \* history: nobody acted while an answer was outstanding, or searched a text that
             \* reads as another one
  cut        \* history: going back or forward lost addresses

searchVars == <<field, due, search, pager, waited, cut>>

Found == [text : Texts, type : SearchTypes \cup {"", "unset"}]
TypeSent(s) == IF s.type = "unset" THEN "" ELSE s.type

\* querySearchParams
Params(s) == [text |-> Reads(s.text), rest |-> Reads(s.text) # s.text, type |-> TypeSent(s)]
Encoded(s) == [text |-> s.text, rest |-> FALSE, type |-> TypeSent(s)]

\* As the search field shows what the page searches.
InField(s) == [text |-> s.text, type |-> TypeSent(s)]

\* routes/search.tsx: the first results are for the text itself.
Init ==
  \E text \in Texts, type \in SearchTypes \cup {"unset"}, size \in Sizes,
     written \in {"pager", "other"} :
    LET s == [text |-> text, type |-> type]
        hits == Hits(Encoded(s))
    IN \E from \in {0} \cup {n \in {size} : n < Len(hits)} :
         /\ search = s /\ field = InField(s)
         /\ pager = Opened(Encoded(s), hits, from, size, written)
         /\ due = FALSE /\ waited = (Reads(text) = text) /\ cut = FALSE

\* The pager becomes p, for a search s.
Becomes(p, s) ==
  /\ Len(p.urls) <= MaxUrls /\ Len(p.asked) <= MaxAsked
  /\ pager' = p
  /\ waited' = (waited /\ pager.asked = <<>> /\ Len(p.asked) <= 1 /\ Reads(s.text) = s.text)

----------------------------------------------------------------------------
(* The field.                                                              *)

TypeText(text) ==
  /\ text # field.text
  /\ field' = [field EXCEPT !.text = text] /\ due' = TRUE
  /\ UNCHANGED <<search, pager, waited, cut>>

SelectType(type) ==
  /\ field' = [field EXCEPT !.type = type] /\ due' = TRUE
  /\ UNCHANGED <<search, pager, waited, cut>>

\* setState of the search page: the pager is told if the parameters are others.
Told(p, s) == IF Params(s) = Params(search) THEN p ELSE ParamsChanged(p, Params(s))

\* handleSearch: the same again, or another one.
Search ==
  /\ search' = field /\ field' = InField(field)
  /\ Becomes(IF search = field THEN Triggered(pager, Params(search), pager.from, pager.size)
             ELSE Told(pager, field), field)
  /\ UNCHANGED cut

Submit == Search /\ UNCHANGED due

\* debouncedTriggerOnSearch
FieldSearches == due /\ due' = FALSE /\ Search

----------------------------------------------------------------------------
(* The pager.                                                              *)

Turn(p) == Becomes(p, search) /\ UNCHANGED <<field, due, search, cut>>

TurnBack == PreviousEnabled(pager) /\ Turn(Previous(pager, Params(search)))
TurnOn == NextShown(pager) /\ Turn(Next_(pager, Params(search)))
Resize(size) == pager.rows # <<>> /\ Turn(Resized(pager, Params(search), size))

Answer(i) ==
  /\ pager' = Answered(Served(pager, i, Hits(pager.asked[i].params)), i)
  /\ UNCHANGED <<field, due, search, waited, cut>>

----------------------------------------------------------------------------
(* Back and forward.                                                       *)

\* searchParamsChangeCallback
ReadFrom(url) ==
  [text |-> url.params.text, type |-> IF url.params.type = "" THEN "unset" ELSE url.params.type]

\* Another search is asked for from its start, whatever the address says, and maybe once
\* more from there.
Navigate(i) ==
  LET url == pager.urls[i]
      s == ReadFrom(url)
      there == [pager EXCEPT !.at = i]
      now == Told(there, s)
      p == Navigated(pager, now, url, Params(s))
  IN /\ i \in {pager.at - 1, pager.at + 1}
     /\ search' = s
     /\ field' = IF s = search THEN field
                 ELSE [text |-> IF s.text = search.text THEN field.text ELSE s.text,
                       type |-> IF s.type = search.type THEN field.type ELSE TypeSent(s)]
     /\ Becomes(p, s)
     /\ cut' = (cut \/ (/\ p.urls # pager.urls
                        /\ url.written = "pager"
                        /\ Reads(url.params.text) = url.params.text /\ ~url.params.rest
                        /\ Params(s) = Params(search) \/ (url.from = 0 /\ url.size = pager.size)))
     /\ UNCHANGED due

----------------------------------------------------------------------------
Next ==
  \/ \E text \in Texts : TypeText(text)
  \/ \E type \in SearchTypes : SelectType(type)
  \/ Submit \/ FieldSearches
  \/ TurnBack \/ TurnOn
  \/ \E size \in Sizes : Resize(size)
  \/ \E i \in DOMAIN pager.asked : Answer(i)
  \/ \E i \in DOMAIN pager.urls : Navigate(i)

Spec == Init /\ [][Next]_searchVars

TypeOK ==
  /\ field \in Found /\ search \in Found /\ due \in BOOLEAN
  /\ pager.at \in 1 .. Len(pager.urls) /\ Len(pager.urls) <= MaxUrls
  /\ pager.size \in Sizes

----------------------------------------------------------------------------
(* Properties.                                                             *)

\* Somebody who waits for each answer sees the page of results that the address and the
\* field are about, is told rightly whether there are more, and never ends on an empty page
\* of a search that finds something: whatever was searched, sized and turned, back and
\* forward. (As long as
\* no text which reads as another one is searched.)
ShownAsAddressed ==
  LET hits == Hits(Params(search))
      url == pager.urls[pager.at]
  IN waited /\ pager.asked = <<>> =>
       /\ url.params = Params(search) /\ url.from = pager.from /\ url.size = pager.size
       /\ pager.rows = Page(Read(hits, pager.from, pager.size), pager.size)
       /\ pager.next = (Len(hits) > pager.from + pager.size)
       /\ hits # <<>> => pager.rows # <<>>

\* Whatever the order of answers, the rows are those of one search and as many as the size
\* that is shown, and it is known whether there are more.
RowsOfOne ==
  \E t \in Found : \E params \in {Encoded(t), Params(t)} : \E from \in 0 .. Len(Hits(params)) :
    /\ pager.rows = Page(Read(Hits(params), from, pager.size), pager.size)
    /\ pager.next = (Len(Hits(params)) > from + pager.size)

\* Going back or forward keeps the addresses ahead, unless the address is one that was typed
\* another way, is that of a text which reads as another one, or is that of another search and not of its start.
BackKeepsForward == ~cut

SearchHolds == ShownAsAddressed /\ RowsOfOne /\ BackKeepsForward
=============================================================================
