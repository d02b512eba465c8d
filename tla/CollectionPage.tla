--------------------------- MODULE CollectionPage ---------------------------
(***************************************************************************)
(* The page of a collection in the browser of its owner or a collaborator  *)
(* (src/client/components/pages/collection.js): items by the page, ticked  *)
(* to be removed, and the form that adds some                              *)
(* (parts/add-entity-to-collection-modal.js). Others change the collection *)
(* meanwhile. A request of the page is one step of the server here; its    *)
(* statements are in Collections.                                          *)
(***************************************************************************)
EXTENDS Pager

CONSTANTS
  Things,      \* entities of the collection's type
  NoThing,     \* the row of a form in which nothing is picked
  MaxPosts,    \* bound: requests not answered yet
  MaxRows      \* bound: rows of the form

VARIABLES
  items,       \* of the collection, in the order they were added
  pager,
  ticked,      \* selectedEntities
  adding,      \* whether the form is shown, over the page
  rows,        \* of the form
  posts,       \* requests that change the collection
  alone        \* history: nobody else changed it, and nothing was done while an answer was
               \* outstanding

collectionVars == <<items, pager, ticked, adding, rows, posts, alone>>

There == ToSet(items)
Same == "the collection"   \* the pager's parameters never change

\* The form always has a row.
Shown(rs) == IF rs = <<>> THEN <<NoThing>> ELSE rs

Init ==
  \E n \in 0 .. Cardinality(Things), from \in {0} \cup Sizes, size \in Sizes :
    /\ items \in {s \in [1 .. n -> Things] : IsInjective(s)}
    /\ from \in {0, size} /\ (from > 0 => from < n)
    /\ pager = Opened(Same, items, from, size, "pager")
    /\ ticked = {} /\ adding = FALSE /\ rows = <<NoThing>> /\ posts = {} /\ alone = TRUE

Waiting == pager.asked # <<>> \/ posts # {}
Acts == alone' = (alone /\ ~Waiting)

\* The pager becomes p.
Becomes(p) == Len(p.urls) <= MaxUrls /\ Len(p.asked) <= MaxAsked /\ pager' = p

----------------------------------------------------------------------------
(* Looking.                                                                *)

Turn(p) == Becomes(p) /\ Acts /\ UNCHANGED <<items, ticked, adding, rows, posts>>

TurnBack == ~adding /\ PreviousEnabled(pager) /\ Turn(Previous(pager, Same))
TurnOn == ~adding /\ NextShown(pager) /\ Turn(Next_(pager, Same))
Resize(size) == ~adding /\ pager.rows # <<>> /\ Turn(Resized(pager, Same, size))
Navigate(i) ==
  /\ i \in {pager.at - 1, pager.at + 1}
  /\ Turn(Navigated(pager, [pager EXCEPT !.at = i], pager.urls[i], Same))

\* router.get('/:collectionId/paginate')
ReadPage(i) ==
  /\ pager.asked[i].rows = Unread
  /\ pager' = Served(pager, i, items)
  /\ UNCHANGED <<items, ticked, adding, rows, posts, alone>>

ShowPage(i) ==
  /\ pager.asked[i].rows # Unread
  /\ pager' = Answered(pager, i)
  /\ UNCHANGED <<items, ticked, adding, rows, posts, alone>>

----------------------------------------------------------------------------
(* Removing.                                                               *)

\* toggleRow
Tick(x) ==
  /\ ~adding /\ x \in ToSet(pager.rows)
  /\ ticked' = IF x \in ticked THEN ticked \ {x} ELSE ticked \cup {x}
  /\ Acts /\ UNCHANGED <<items, pager, adding, rows, posts>>

Post(kind, on) == [kind |-> kind, on |-> on, answer |-> "none"]
Posted(post) == Cardinality(posts) < MaxPosts /\ post \notin posts /\ posts' = posts \cup {post}

\* handleRemoveEntities
RemoveTicked ==
  /\ ~adding /\ pager.rows # <<>> /\ ticked # {}
  /\ Posted(Post("remove", ticked))
  /\ Acts /\ UNCHANGED <<items, pager, ticked, adding, rows>>

----------------------------------------------------------------------------
(* The form.                                                               *)

ShowForm(shown) == adding' = shown /\ UNCHANGED <<items, pager, ticked, rows, posts, alone>>

Edit(rs) ==
  /\ adding /\ rows' = Shown(rs)
  /\ UNCHANGED <<items, pager, ticked, adding, posts, alone>>

\* handleAddEntity, handleChangeEntity, handleRemoveEntity
AddRow == Len(rows) < MaxRows /\ Edit(Append(rows, NoThing))
ChangeRow(i, x) == Edit([rows EXCEPT ![i] = x])
RemoveRow(i) == Edit(RemoveAt(rows, i))

\* Wrong: rows without an entity are sent as well.
Cleaned_All(rs) == ToSet(rs)

\* getCleanedEntities
Cleaned(rs) == ToSet(rs) \ {NoThing}

\* handleSubmit
SubmitForm ==
  /\ adding /\ Cleaned(rows) # {}
  /\ Posted(Post("add", Cleaned(rows)))
  /\ Acts /\ UNCHANGED <<items, pager, ticked, adding, rows>>

----------------------------------------------------------------------------
(* The server, and others.                                                 *)

\* What stays of the first n items.
Without(on) ==
  LET kept[n \in 0 .. Len(items)] ==
        IF n = 0 THEN <<>>
        ELSE IF items[n] \in on THEN kept[n - 1] ELSE Append(kept[n - 1], items[n])
  IN  kept[Len(items)]
With(on) == items \o SetToSeq(on \ There)

\* validateBBIDsForCollectionRemove
MayRemove(on) == on \subseteq There

\* A failure may come after some entities were added.
Handle(post, failed) ==
  /\ post \in posts /\ post.answer = "none"
  /\ LET refused == post.kind = "remove" /\ ~MayRemove(post.on)
     IN /\ posts' = (posts \ {post}) \cup
                      {[post EXCEPT !.answer = IF failed \/ refused THEN "error" ELSE "ok"]}
        /\ items' = IF refused \/ (failed /\ post.kind = "remove") THEN items
                    ELSE IF post.kind = "remove" THEN Without(post.on)
                    ELSE With(IF failed THEN {CHOOSE x \in post.on : TRUE} ELSE post.on)
        /\ alone' = (alone /\ ~(failed /\ post.kind = "add"))
  /\ UNCHANGED <<pager, ticked, adding, rows>>

\* Bound: others change it once, and before anything else that ends alone.
OthersChange ==
  /\ alone
  /\ \E x \in Things : items' = IF x \in There THEN Without({x}) ELSE Append(items, x)
  /\ alone' = FALSE /\ UNCHANGED <<pager, ticked, adding, rows, posts>>

\* Wrong: what was removed stays ticked.
TickedAfter_Kept(post) == ticked

\* What is ticked after an answer.
TickedAfter(post) == IF post.kind = "remove" THEN {} ELSE ticked

\* Success: the page that is shown is asked for again.
Succeeded(post) ==
  /\ post \in posts /\ post.answer = "ok"
  /\ posts' = posts \ {post}
  /\ ticked' = TickedAfter(post)
  /\ IF post.kind = "add" THEN rows' = Shown(<<>>) /\ adding' = FALSE
     ELSE UNCHANGED <<rows, adding>>
  /\ Becomes(Triggered(pager, Same, pager.from, pager.size))
  /\ UNCHANGED <<items, alone>>

Failed(post) ==
  /\ post \in posts /\ post.answer = "error"
  /\ posts' = posts \ {post}
  /\ UNCHANGED <<items, pager, ticked, adding, rows, alone>>

----------------------------------------------------------------------------
Next ==
  \/ TurnBack \/ TurnOn
  \/ \E size \in Sizes : Resize(size)
  \/ \E i \in DOMAIN pager.urls : Navigate(i)
  \/ \E i \in DOMAIN pager.asked : ReadPage(i) \/ ShowPage(i)
  \/ \E x \in Things : Tick(x)
  \/ RemoveTicked
  \/ \E shown \in BOOLEAN : ShowForm(shown)
  \/ AddRow \/ SubmitForm
  \/ \E i \in DOMAIN rows : RemoveRow(i) \/ \E x \in Things \cup {NoThing} : ChangeRow(i, x)
  \/ \E post \in posts : Succeeded(post) \/ Failed(post) \/ \E failed \in BOOLEAN : Handle(post, failed)
  \/ OthersChange

Spec == Init /\ [][Next]_collectionVars

TypeOK ==
  /\ IsInjective(items) /\ There \subseteq Things
  /\ ticked \subseteq Things /\ rows \in Seq(Things \cup {NoThing}) /\ rows # <<>>

----------------------------------------------------------------------------
(* Properties.                                                             *)

\* While nobody else changes the collection, and for one who waits for answers: the page
\* shows what the collection holds, also after it removed and added, on whichever page that
\* was; what is ticked can be removed, all of it, even on pages that are not shown.
ShowsTheCollection ==
  alone =>
    /\ ~Waiting =>
         /\ pager.rows = Page(Read(items, pager.from, pager.size), pager.size)
         /\ pager.next = (Len(items) > pager.from + pager.size)
         /\ ticked \subseteq There
    /\ \A post \in posts : post.answer = "none" /\ post.kind = "remove" => MayRemove(post.on)

\* A request is about something, and never about a row in which nothing was picked.
AsksSensibly ==
  \A post \in posts : post.on # {} /\ post.on \subseteq Things

CollectionHolds == ShowsTheCollection /\ AsksSensibly
=============================================================================
