--------------------------- MODULE MCSearchIndex ---------------------------
(* Instances of SearchIndex for TLC.                                       *)
EXTENDS SearchIndex, TLC

CONSTANTS a, w, g, c, site, api

OneAuthor == {a}
OneWork == {w}
OneGroup == {g}
OneCollection == {c}
NoKey == {}
SiteOnly == {site}
SiteAndApi == {site, api}
ByAuthor == w :> a
NoAuthor == <<>>
=============================================================================
