------------------------- MODULE AchievementsProofs -------------------------
(***************************************************************************)
(* What holds of an editor's achievements for any number of requests,      *)
(* tracks and tiers, whatever meets and wherever the server stops.         *)
(*                                                                         *)
(* TransInv: what the transactions of changes have read. Each part of      *)
(* UnlockedAsEarned has an invariant of its own. OnceInv: what an open     *)
(* tier has looked up is still so, unless another request is at the track. *)
(* EarnedInv: what is open, or unlocked, was earned. MissedInv: what may   *)
(* be expected is unlocked or open, or the request that counts it has not  *)
(* measured its track yet. RankInv is about requests to rank that never    *)
(* met.                                                                    *)
(***************************************************************************)
EXTENDS Achievements, FiniteSetTheorems, SequenceTheorems, WellFoundedInduction, TLAPS

----------------------------------------------------------------------------
(* The inductive invariants.                                               *)

\* What a request is at: an award request has tracks left, each once, and open tiers of
\* the first of them; a request to rank has a form and the rank it is at.
TaskOK(t) ==
  /\ t.kind = "award" => t.tracks # <<>>
  /\ \A j, k \in DOMAIN t.tracks : t.tracks[j] = t.tracks[k] => j = k
  /\ t.open # {} => t.kind = "award"
  /\ \A o \in t.open :
       /\ o.tier \in Tiers[Head(t.tracks)]
       /\ o.step \in {"look title", "insert title"} => o.tier.title # NoTitle
       /\ \A p \in t.open : o.tier = p.tier => o = p
  /\ t.kind = "rank" => t.slot \in Ranks

TypeInv == TypeOK /\ \A w \in Workers : TaskOK(task[w])

\* The count that is kept loses revisions, but only if one was committed while another
\* was open; and revisions are not of days to come.
TransInv ==
  /\ applied <= edits /\ edited \subseteq 0..day
  /\ \A w \in Busy("edit") : task[w].read <= edits /\ task[w].since <= day
  /\ ~overlapped => applied = edits /\ \A w \in Busy("edit") : task[w].read = applied

\* What an open tier has found, or made, is so unless another request is at its track.
Holds(o, track) ==
  /\ o.step = "insert" /\ track \notin shared => unlocks[o.tier.award] = <<>>
  /\ o.step \in {"look title", "insert title"} => unlocks[o.tier.award] # <<>>
  /\ o.step = "insert title" /\ track \notin shared => titles[o.tier.title] = 0

OnceInv ==
  /\ UnlockedOnce
  /\ \A v, w \in Busy("award") : v # w => Pending(v) \cap Pending(w) \subseteq shared
  /\ \A w \in Workers : \A o \in task[w].open : Holds(o, Head(task[w].tracks))

\* What a tier of a track takes.
Earned(track, n) ==
  CASE track = Revisionist -> edits >= n
    [] track = Creator -> created + erased >= n
    [] track = Explorer -> Cardinality(visited) >= n
    [] track = FunRunner -> Streak(n)

EarnedInv ==
  /\ EarnedOnly /\ IsFiniteSet(visited)
  /\ \A w \in Workers : \A o \in task[w].open :
       Earned(Head(task[w].tracks), o.tier.threshold)

\* What is unlocked, or under way.
Done(t) == Unlocked(t.award) /\ (t.title # NoTitle => titles[t.title] > 0)
DueAt(w, track, t) ==
  /\ w \in Busy("award") /\ track \in Pending(w)
  /\ task[w].open = {} \/ Head(task[w].tracks) # track \/ \E o \in task[w].open : o.tier = t

Covered(track) ==
  \A t \in Tiers[track] :
    Expected(track, t.threshold) => Done(t) \/ \E w \in Workers : DueAt(w, track, t)

MissedInv == \A track \in Tracks \ missed : Covered(track)

AwardInv == TypeInv /\ TransInv /\ OnceInv /\ EarnedInv /\ MissedInv

\* Requests to rank that never met: a rank has one unlock at most, what was found is
\* still there, and the ranks before the one that is written are as the form says.
Shown(form, end, r, holders) ==
  /\ \A h \in holders : h[1] = form[r]
  /\ form[r] # NoAward /\ (\A s \in Ranks : s > r /\ s < end => form[s] # form[r])
       => holders # {}

\* What a request has made of a rank.
Ranked(t, r, holders) ==
  /\ r < t.slot => Shown(t.form, t.slot, r, holders)
  /\ r = t.slot /\ t.phase = "clear" => holders = t.held
  /\ r = t.slot /\ t.phase = "set" => holders = {}

RankInv ==
  ~crossed =>
    /\ \A v, w \in Busy("rank") : v = w
    /\ \A r \in Ranks : \A g, h \in Holders(r) : g = h
    /\ \A w \in Busy("rank") : \A r \in Ranks : Ranked(task[w], r, Holders(r))

----------------------------------------------------------------------------
(* Types.                                                                  *)

TrackLists == UNION {[1..n -> Tracks] : n \in 0..3}
Opens == [tier : Tier, step : Steps]
PendingOf(t) == {t.tracks[k] : k \in DOMAIN t.tracks}

LEMMA ListFacts ==
  ASSUME NEW l \in TrackLists
  PROVE  /\ l \in Seq(Tracks) /\ Len(l) \in 0..3 /\ DOMAIN l = 1..Len(l)
         /\ l # <<>> => /\ Head(l) \in Tracks /\ Head(l) = l[1] /\ Len(l) > 0
                        /\ Tail(l) \in TrackLists /\ Len(Tail(l)) = Len(l) - 1
                        /\ \A k \in 1..(Len(l) - 1) : Tail(l)[k] = l[k + 1]
<1>1. PICK n \in 0..3 : l \in [1..n -> Tracks]
  BY DEF TrackLists
<1>2. l \in Seq(Tracks) /\ Len(l) = n /\ DOMAIN l = 1..n
  BY <1>1
<1>3. ASSUME l # <<>>
      PROVE  /\ Head(l) \in Tracks /\ Head(l) = l[1] /\ Len(l) > 0
             /\ Tail(l) \in TrackLists /\ Len(Tail(l)) = Len(l) - 1
             /\ \A k \in 1..(Len(l) - 1) : Tail(l)[k] = l[k + 1]
  <2>1. Head(l) \in Tracks /\ Head(l) = l[1] /\ Len(l) > 0
    BY <1>2, <1>3
  <2>2. /\ Tail(l) \in Seq(Tracks) /\ Len(Tail(l)) = Len(l) - 1
        /\ \A k \in 1..Len(Tail(l)) : Tail(l)[k] = l[k + 1]
    BY <1>2, <1>3, HeadTailProperties
  <2>3. Tail(l) \in [1..(n - 1) -> Tracks] /\ n - 1 \in 0..3
    <3>1. Tail(l) \in [1..Len(Tail(l)) -> Tracks]
      BY <2>2, LenProperties
    <3>2. n \in 0..3 /\ n > 0 /\ Len(Tail(l)) = n - 1
      BY <1>2, <2>1, <2>2
    <3> QED BY <3>1, <3>2
  <2>4. Tail(l) \in TrackLists
    BY <2>3 DEF TrackLists
  <2> QED BY <2>1, <2>2, <2>4
<1> QED BY <1>1, <1>2, <1>3

LEMMA FormNone == NoForm \in [Ranks -> Awards \cup {NoAward}]
BY DEF NoForm

LEMMA IdleType == /\ Idle \in Task /\ Idle.kind = "idle" /\ Idle.tracks = <<>> /\ Idle.open = {}
                  /\ Idle.held = {} /\ Idle.phase = "fetch" /\ TaskOK(Idle)
<1>1. <<>> \in [1..0 -> Tracks] /\ 0 \in 0..3
  OBVIOUS
<1>2. <<>> \in UNION {[1..n -> Tracks] : n \in 0..3}
  BY <1>1
<1>3. Idle \in Task
  BY <1>2, FormNone DEF Idle, Task, Changes
<1>4. Idle.kind = "idle" /\ Idle.tracks = <<>> /\ Idle.open = {} /\ Idle.held = {} /\ Idle.phase = "fetch"
  BY DEF Idle
<1> QED BY <1>3, <1>4 DEF TaskOK

\* The fields of a task.
LEMMA TaskFields ==
  ASSUME NEW t \in Task
  PROVE  /\ t.kind \in {"idle", "edit", "award", "rank"} /\ t.tracks \in TrackLists
         /\ t.open \subseteq Opens /\ t.form \in [Ranks -> Awards \cup {NoAward}]
         /\ t.slot \in Ranks \cup {0} /\ t.phase \in {"fetch", "clear", "set"}
         /\ t.held \subseteq Awards \X (Nat \ {0}) /\ t.read \in Nat /\ t.since \in Nat
BY DEF Task, TrackLists, Opens

LEMMA Rows ==
  ASSUME TypeOK, NEW a \in Awards
  PROVE  /\ unlocks[a] \in Seq(Ranks \cup {0}) /\ Len(unlocks[a]) \in Nat
         /\ DOMAIN unlocks[a] = 1..Len(unlocks[a])
         /\ unlocks[a] = <<>> <=> Len(unlocks[a]) = 0
         /\ Unlocked(a) <=> Len(unlocks[a]) # 0
BY DEF TypeOK, Unlocked

LEMMA TierFacts ==
  ASSUME NEW track \in Tracks, NEW t \in Tiers[track]
  PROVE  /\ t \in Tier /\ t.award \in Awards /\ t.threshold \in Nat \ {0}
         /\ t.title \in Titles \cup {NoTitle}
<1>1. t \in Tier
  BY TierAssumption
<1> QED BY <1>1 DEF Tier

LEMMA SameTier ==
  ASSUME NEW p \in Tracks, NEW q \in Tracks, NEW t \in Tiers[p], NEW u \in Tiers[q],
         t.award = u.award \/ (t.title = u.title /\ t.title # NoTitle)
  PROVE  p = q /\ t = u
BY TierAssumption

\* A request for awards begins.
AwardTask(tracks) == [Idle EXCEPT !.kind = "award", !.tracks = tracks]
LEMMA AwardTaskFacts ==
  ASSUME NEW tracks \in TrackLists, NEW t, t = AwardTask(tracks)
  PROVE  /\ t \in Task /\ t.kind = "award" /\ t.tracks = tracks /\ t.open = {} /\ t.held = {}
<1>1. /\ t.kind = "award" /\ t.tracks = tracks /\ t.open = {} /\ t.held = {}
  BY DEF AwardTask, Idle
<1>2. t \in Task
  BY IdleType DEF AwardTask, Task, TrackLists
<1> QED BY <1>1, <1>2

LEMMA ListsOfTracks ==
  /\ EditTracks \in TrackLists /\ <<Explorer>> \in TrackLists
  /\ \A tracks \in {EditTracks, <<Explorer>>} :
       /\ tracks # <<>>
       /\ \A j, k \in DOMAIN tracks : tracks[j] = tracks[k] => j = k
<1>1. EditTracks \in [1..3 -> Tracks] /\ <<Explorer>> \in [1..1 -> Tracks]
  BY DEF EditTracks, Tracks
<1>2. \A j, k \in 1..3 : EditTracks[j] = EditTracks[k] => j = k
  BY TrackAssumption DEF EditTracks
<1>3. \A j, k \in 1..1 : <<Explorer>>[j] = <<Explorer>>[k] => j = k
  OBVIOUS
<1>4. EditTracks # <<>> /\ DOMAIN EditTracks = 1..3 /\ DOMAIN <<Explorer>> = 1..1
  BY DEF EditTracks
<1> QED BY <1>1, <1>2, <1>3, <1>4 DEF TrackLists

\* And goes on: with the tiers that are open, or the next track.
Onward(t, open) ==
  IF open # {} THEN [t EXCEPT !.open = open]
  ELSE IF Len(t.tracks) > 1 THEN [t EXCEPT !.open = {}, !.tracks = Tail(@)]
  ELSE Idle

LEMMA OnwardFacts ==
  ASSUME NEW t \in Task, TaskOK(t), t.kind = "award", NEW open \in SUBSET Opens,
         NEW n, n = Onward(t, open)
  PROVE  /\ n \in Task /\ n.kind \in {"idle", "award"} /\ n.open = open
         /\ n.held = t.held \/ n.held = {}
         /\ open # {} => n.kind = "award" /\ n.tracks = t.tracks
         /\ open = {} => /\ n.kind = "award" => PendingOf(n) = PendingOf(t) \ {Head(t.tracks)}
                         /\ n.kind = "idle" => PendingOf(t) = {Head(t.tracks)}
         /\ n.kind = "award" => n.tracks # <<>> /\ PendingOf(n) \subseteq PendingOf(t)
         /\ \A j, k \in DOMAIN n.tracks : n.tracks[j] = n.tracks[k] => j = k
         /\ Head(t.tracks) \in PendingOf(t) /\ Head(t.tracks) \in Tracks
<1>0. /\ t.tracks \in TrackLists /\ t.tracks # <<>>
      /\ \A j, k \in DOMAIN t.tracks : t.tracks[j] = t.tracks[k] => j = k
  BY TaskFields DEF TaskOK
<1> DEFINE l == t.tracks
<1>1. /\ Len(l) \in 1..3 /\ DOMAIN l = 1..Len(l) /\ Head(l) = l[1] /\ Head(l) \in Tracks
      /\ Tail(l) \in TrackLists /\ Len(Tail(l)) = Len(l) - 1
      /\ DOMAIN Tail(l) = 1..Len(Tail(l))
      /\ \A k \in 1..(Len(l) - 1) : Tail(l)[k] = l[k + 1]
  <2>1. /\ Len(l) \in 0..3 /\ Len(l) > 0 /\ DOMAIN l = 1..Len(l) /\ Head(l) = l[1]
        /\ Head(l) \in Tracks /\ Tail(l) \in TrackLists /\ Len(Tail(l)) = Len(l) - 1
        /\ \A k \in 1..(Len(l) - 1) : Tail(l)[k] = l[k + 1]
    BY <1>0, ListFacts
  <2>2. DOMAIN Tail(l) = 1..Len(Tail(l))
    BY <2>1, ListFacts
  <2> QED BY <2>1, <2>2
<1>2. Head(l) \in PendingOf(t)
  BY <1>1 DEF PendingOf
<1>3. CASE open # {}
  <2>1. n = [t EXCEPT !.open = open]
    BY <1>3 DEF Onward
  <2>2. /\ n.kind = "award" /\ n.open = open /\ n.tracks = t.tracks /\ n.held = t.held
    BY <2>1 DEF Task
  <2>3. n \in Task
    BY <2>1 DEF Task, Opens
  <2> QED BY SMTT(20), <1>0, <1>1, <1>2, <1>3, <2>2, <2>3 DEF PendingOf
<1>4. CASE open = {} /\ Len(l) > 1
  <2>1. n = [t EXCEPT !.open = {}, !.tracks = Tail(l)]
    BY <1>4 DEF Onward
  <2>2. /\ n.kind = "award" /\ n.open = open /\ n.tracks = Tail(l) /\ n.held = t.held
    BY <1>4, <2>1 DEF Task
  <2>3. n \in Task
    BY <1>1, <2>1 DEF Task, TrackLists
  <2>4. Tail(l) # <<>>
    <3>1. Len(Tail(l)) > 0
      BY <1>1, <1>4
    <3> QED BY <3>1
  <2>5. PendingOf(n) = PendingOf(t) \ {Head(l)}
    <3>1. ASSUME NEW k \in DOMAIN Tail(l)
          PROVE  Tail(l)[k] \in PendingOf(t) \ {Head(l)}
      <4>1. k + 1 \in DOMAIN l /\ Tail(l)[k] = l[k + 1] /\ k + 1 # 1 /\ 1 \in DOMAIN l
        BY <1>1, <3>1
      <4> QED BY <1>0, <1>1, <4>1 DEF PendingOf
    <3>2. ASSUME NEW k \in DOMAIN l, l[k] # Head(l)
          PROVE  \E j \in DOMAIN Tail(l) : Tail(l)[j] = l[k]
      <4>1. k - 1 \in 1..(Len(l) - 1) /\ (k - 1) + 1 = k
        BY <1>1, <3>2
      <4> QED BY <1>1, <4>1
    <3> QED BY <2>2, <3>1, <3>2 DEF PendingOf
  <2>6. ASSUME NEW j \in DOMAIN Tail(l), NEW k \in DOMAIN Tail(l), Tail(l)[j] = Tail(l)[k]
        PROVE  j = k
    <3>1. /\ j + 1 \in DOMAIN l /\ k + 1 \in DOMAIN l /\ l[j + 1] = l[k + 1] /\ j \in Nat /\ k \in Nat
      BY <1>1, <2>6
    <3>2. j + 1 = k + 1
      BY <1>0, <3>1
    <3> QED BY <3>1, <3>2
  <2>7. \A j, k \in DOMAIN n.tracks : n.tracks[j] = n.tracks[k] => j = k
    BY <2>2, <2>6
  <2>8. n.tracks # <<>> /\ PendingOf(n) \subseteq PendingOf(t)
    BY <2>2, <2>4, <2>5
  <2> QED BY <1>1, <1>2, <1>4, <2>2, <2>3, <2>5, <2>7, <2>8
<1>5. CASE open = {} /\ ~(Len(l) > 1)
  <2>0. n = Idle
    BY <1>5 DEF Onward
  <2>1. n = Idle /\ Len(l) = 1
    <3>1. \A m \in 1..3 : ~(m > 1) => m = 1
      OBVIOUS
    <3> QED BY <1>1, <1>5, <2>0, <3>1
  <2>2. PendingOf(t) = {Head(l)}
    BY <1>1, <2>1 DEF PendingOf
  <2>3. \A j, k \in DOMAIN Idle.tracks : Idle.tracks[j] = Idle.tracks[k] => j = k
    BY IdleType
  <2> QED BY <1>1, <1>2, <1>5, <2>1, <2>2, <2>3, IdleType
<1> QED BY <1>3, <1>4, <1>5

LEMMA InitTypeInv == Init => TypeInv
<1> SUFFICES ASSUME Init PROVE TypeInv
  OBVIOUS
<1>1. \A w \in Workers : task[w] \in Task /\ task[w].held = {} /\ task[w].open = {} /\ TaskOK(task[w])
  BY IdleType DEF Init
<1>2. task \in [Workers -> Task]
  BY IdleType DEF Init
<1>3. unlocks \in [Awards -> Seq(Ranks \cup {0})] /\ titles \in [Titles -> Nat]
  BY DEF Init
<1>4. /\ edits \in Nat /\ applied \in Nat /\ created \in Nat /\ erased \in Nat /\ day \in Nat
      /\ edited = {} /\ visited = {} /\ shared = {} /\ missed = {}
      /\ overlapped \in BOOLEAN /\ crossed \in BOOLEAN /\ posts \in Nat /\ crashes \in Nat
  BY DEF Init
<1>5. /\ {edits, applied, created, erased, day} \subseteq Nat
      /\ edited \subseteq Nat /\ visited \subseteq Entities /\ shared \subseteq Tracks
      /\ missed \subseteq Tracks
  BY <1>4
<1>6. \A w \in Workers : /\ \A h \in task[w].held : h[2] \in DOMAIN unlocks[h[1]]
                         /\ task[w].open # {} => task[w].tracks # <<>>
  BY <1>1
<1>7. TypeOK
  BY <1>2, <1>3, <1>4, <1>5, <1>6 DEF TypeOK
<1> QED BY <1>1, <1>7 DEF TypeInv

\* A worker takes up what is not ranking.
LEMMA AwardStepTypes ==
  ASSUME TypeInv, NEW w \in Workers, NEW t \in Task, TaskOK(t), t.held = {} \/ t.held = task[w].held,
         task' = [task EXCEPT ![w] = t],
         \A a \in Awards : DOMAIN unlocks[a] \subseteq DOMAIN unlocks'[a]
  PROVE  /\ task' \in [Workers -> Task]
         /\ \A v \in Workers : TaskOK(task[v])' /\ (task'[v].open # {} => task'[v].tracks # <<>>)
                               /\ \A h \in task'[v].held : h[2] \in DOMAIN unlocks'[h[1]]
<1>1. task \in [Workers -> Task] /\ \A v \in Workers : task[v] \in Task
  BY DEF TypeInv, TypeOK
<1>2. \A v \in Workers : task'[v] = IF v = w THEN t ELSE task[v]
  BY <1>1
<1>3. task' \in [Workers -> Task]
  BY <1>1
<1>4. \A v \in Workers : TaskOK(task'[v])
  BY <1>2 DEF TypeInv
<1>5. ASSUME NEW v \in Workers
      PROVE  /\ TaskOK(task[v])' /\ (task'[v].open # {} => task'[v].tracks # <<>>)
             /\ \A h \in task'[v].held : h[2] \in DOMAIN unlocks'[h[1]]
  <2>1. TaskOK(task[v])'
    BY <1>4 DEF TaskOK
  <2>2. task'[v].open # {} => task'[v].tracks # <<>>
    BY <1>4 DEF TaskOK
  <2>3. task'[v].held \subseteq task[v].held
    BY <1>2
  <2>4. \A h \in task[v].held : h[1] \in Awards /\ h[2] \in DOMAIN unlocks[h[1]]
    BY <1>1, TaskFields DEF TypeInv, TypeOK
  <2> QED BY <2>1, <2>2, <2>3, <2>4
<1> QED BY <1>3, <1>5

\* Requests begin.
LEMMA BeginAwardsFacts ==
  ASSUME TypeInv, NEW w \in Workers, NEW tracks \in {EditTracks, <<Explorer>>},
         BeginAwards(w, tracks)
  PROVE  \E t \in Task :
           /\ TaskOK(t) /\ t.kind = "award" /\ t.tracks = tracks /\ t.open = {} /\ t.held = {}
           /\ task' = [task EXCEPT ![w] = t]
           /\ shared' = shared \cup (PendingOf(t) \cap UNION {Pending(v) : v \in Busy("award")})
           /\ shared' \subseteq Tracks
<1> DEFINE t == AwardTask(tracks)
<1>1. tracks \in TrackLists /\ tracks # <<>>
      /\ \A j, k \in DOMAIN tracks : tracks[j] = tracks[k] => j = k
  BY ListsOfTracks
<1>2. t \in Task /\ t.kind = "award" /\ t.tracks = tracks /\ t.open = {} /\ t.held = {}
  BY <1>1, AwardTaskFacts
<1>3. task' = [task EXCEPT ![w] = t]
  BY DEF BeginAwards, AwardTask
<1> HIDE DEF t
<1>4. TaskOK(t)
  BY <1>1, <1>2 DEF TaskOK
<1>5. PendingOf(t) = {tracks[k] : k \in DOMAIN tracks}
  BY <1>2 DEF PendingOf
<1>6. shared' = shared \cup (PendingOf(t) \cap UNION {Pending(v) : v \in Busy("award")})
  BY <1>5 DEF BeginAwards
<1>7. PendingOf(t) \subseteq Tracks
  BY <1>1, <1>2, ListFacts DEF PendingOf
<1>8. shared' \subseteq Tracks
  BY <1>6, <1>7 DEF TypeInv, TypeOK
<1> QED BY <1>2, <1>3, <1>4, <1>6, <1>8

\* What leaves the requests for awards, and the rows, as they are.
Still ==
  /\ \A w \in Workers : /\ w \in Busy("award")' <=> w \in Busy("award")
                        /\ w \in Busy("award") => task'[w] = task[w]
                        /\ task'[w].open = task[w].open
  /\ \A a \in Awards : DOMAIN unlocks'[a] = DOMAIN unlocks[a]
  /\ UNCHANGED <<titles, shared>>

\* A transaction begins, or ends and no request for awards follows.
Quiet(w) ==
  /\ task[w].kind \in {"idle", "edit"}
  /\ \E t \in Task : /\ TaskOK(t) /\ t.kind \in {"idle", "edit"} /\ t.open = {} /\ t.held = {}
                     /\ task' = [task EXCEPT ![w] = t]
  /\ UNCHANGED <<unlocks, titles, shared, crossed>>

LEMMA QuietFacts ==
  ASSUME TypeInv, NEW w \in Workers, Quiet(w)
  PROVE  /\ Still /\ task' \in [Workers -> Task]
         /\ \A v \in Workers : TaskOK(task[v])' /\ (task'[v].open # {} => task'[v].tracks # <<>>)
                               /\ \A h \in task'[v].held : h[2] \in DOMAIN unlocks'[h[1]]
<1>1. PICK t \in Task : /\ TaskOK(t) /\ t.kind \in {"idle", "edit"} /\ t.open = {} /\ t.held = {}
                       /\ task' = [task EXCEPT ![w] = t]
  BY DEF Quiet
<1>2. \A v \in Workers : task'[v] = IF v = w THEN t ELSE task[v]
  BY <1>1 DEF TypeInv, TypeOK
<1>3. task[w].kind # "award" /\ task[w].open = {} /\ UNCHANGED <<unlocks, titles, shared>>
  BY DEF Quiet, TypeInv, TaskOK
<1>4. Still
  BY <1>1, <1>2, <1>3 DEF Still, Busy
<1>5. \A a \in Awards : DOMAIN unlocks[a] \subseteq DOMAIN unlocks'[a]
  BY <1>3
<1> QED BY <1>1, <1>4, <1>5, AwardStepTypes

EditTask(change) == [Idle EXCEPT !.kind = "edit", !.change = change, !.read = applied, !.since = day]

LEMMA EditTaskFacts ==
  ASSUME TypeOK, NEW change \in Changes, NEW t, t = EditTask(change)
  PROVE  /\ t \in Task /\ TaskOK(t) /\ t.kind = "edit" /\ t.open = {} /\ t.held = {}
         /\ t.read = applied /\ t.since = day
<1>1. /\ t.kind = "edit" /\ t.open = {} /\ t.held = {} /\ t.tracks = <<>>
      /\ t.read = applied /\ t.since = day
  BY DEF EditTask, Idle
<1>2. applied \in Nat /\ day \in Nat
  BY DEF TypeOK
<1>3. t \in Task
  BY <1>2, IdleType DEF EditTask, Task
<1>4. TaskOK(t)
  BY <1>1 DEF TaskOK
<1> QED BY <1>1, <1>3, <1>4

LEMMA EditFacts ==
  ASSUME TypeInv, NEW w \in Workers, NEW change \in Changes, Edit(w, change)
  PROVE  /\ Quiet(w) /\ task[w].kind = "idle"
         /\ task' = [task EXCEPT ![w] = EditTask(change)]
         /\ UNCHANGED <<counts, day, visited, crossed, missed, posts, crashes>>
<1>1. PICK t : t = EditTask(change)
  OBVIOUS
<1>2. /\ task' = [task EXCEPT ![w] = t] /\ task[w].kind = "idle"
      /\ UNCHANGED <<counts, day, visited, unlocks, titles, shared, crossed, missed, posts, crashes>>
  BY <1>1 DEF Edit, Begin, EditTask, tables
<1>3. t \in Task /\ TaskOK(t) /\ t.kind = "edit" /\ t.open = {} /\ t.held = {}
  BY <1>1, EditTaskFacts DEF TypeInv
<1>4. Quiet(w)
  BY <1>2, <1>3 DEF Quiet
<1> QED BY <1>1, <1>2, <1>4

\* A transaction is committed: what is counted, and what follows.
LEMMA CommitFacts ==
  ASSUME TypeInv, NEW w \in Workers, Commit(w)
  PROVE  /\ task[w] \in Task /\ task[w].kind = "edit"
         /\ edits' = edits + 1 /\ applied' = task[w].read + 1
         /\ created' \in {created, created + 1} /\ erased' \in {erased, erased + 1}
         /\ task[w].change.deletes => created' = created
         /\ edited' = edited \cup {task[w].since}
         /\ overlapped' = (overlapped \/ Busy("edit") # {w})
         /\ \/ BeginAwards(w, EditTracks) /\ missed' = missed
            \/ /\ Quiet(w) /\ task' = [task EXCEPT ![w] = Idle]
               /\ missed' = missed \cup IF task[w].change.deletes THEN {Revisionist}
                                        ELSE {Revisionist, Creator, FunRunner}
         /\ UNCHANGED <<day, visited, unlocks, titles, crossed, posts, crashes>>
<1>1. task[w] \in Task /\ task[w].kind = "edit" /\ w \in Busy("edit")
  BY DEF Commit, Busy, TypeInv, TypeOK
<1>2. created \in Nat /\ erased \in Nat
  BY DEF TypeInv, TypeOK
<1> DEFINE alone(deletes) ==
             IF task[w].change = [deletes |-> deletes, parents |-> FALSE] THEN 1 ELSE 0
<1>3. /\ edits' = edits + 1 /\ applied' = task[w].read + 1
      /\ created' = created + alone(FALSE) /\ erased' = erased + alone(TRUE)
      /\ edited' = edited \cup {task[w].since}
      /\ overlapped' = (overlapped \/ Busy("edit") # {w})
      /\ Follow(w, task[w].change)
      /\ UNCHANGED <<day, visited, unlocks, titles, crossed, posts, crashes>>
  BY DEF Commit, Applied, tables
<1>4. task[w].change.deletes => alone(FALSE) = 0
  BY DEF Changes
<1>5. created + 0 = created /\ erased + 0 = erased
  BY <1>2
<1>6. /\ created' \in {created, created + 1} /\ erased' \in {erased, erased + 1}
      /\ task[w].change.deletes => created' = created
  BY <1>3, <1>4, <1>5
<1>7. \/ BeginAwards(w, EditTracks) /\ missed' = missed
      \/ /\ Quiet(w) /\ task' = [task EXCEPT ![w] = Idle]
         /\ missed' = missed \cup IF task[w].change.deletes THEN {Revisionist}
                                  ELSE {Revisionist, Creator, FunRunner}
  <2>1. CASE ~task[w].change.deletes /\ BeginAwards(w, EditTracks) /\ missed' = missed
    BY <2>1
  <2>2. CASE /\ task' = [task EXCEPT ![w] = Idle] /\ shared' = shared
             /\ missed' = missed \cup IF task[w].change.deletes THEN {Revisionist}
                                      ELSE {Revisionist, Creator, FunRunner}
    <3>1. Quiet(w)
      BY <1>1, <1>3, <2>2, IdleType DEF Quiet
    <3> QED BY <2>2, <3>1
  <2> QED BY <1>3, <2>1, <2>2 DEF Follow
<1> QED BY <1>1, <1>3, <1>6, <1>7

LEMMA BeginKeepsTypeInv ==
  ASSUME TypeInv,
         \/ \E w \in Workers, change \in Changes : Edit(w, change)
         \/ \E w \in Workers : Commit(w)
         \/ \E w \in Workers, x \in Entities : Visit(w, x)
  PROVE  TypeInv'
<1>1. ASSUME NEW w \in Workers, NEW tracks \in {EditTracks, <<Explorer>>}, BeginAwards(w, tracks),
             UNCHANGED unlocks
      PROVE  /\ task' \in [Workers -> Task] /\ shared' \subseteq Tracks
             /\ \A v \in Workers : TaskOK(task[v])' /\ (task'[v].open # {} => task'[v].tracks # <<>>)
                                   /\ \A h \in task'[v].held : h[2] \in DOMAIN unlocks'[h[1]]
  <2>1. PICK t \in Task :
          /\ TaskOK(t) /\ t.held = {} /\ task' = [task EXCEPT ![w] = t] /\ shared' \subseteq Tracks
    BY <1>1, BeginAwardsFacts
  <2> QED BY <1>1, <2>1, AwardStepTypes
<1>2. ASSUME NEW w \in Workers, Quiet(w)
      PROVE  /\ task' \in [Workers -> Task] /\ shared' \subseteq Tracks
             /\ \A v \in Workers : TaskOK(task[v])' /\ (task'[v].open # {} => task'[v].tracks # <<>>)
                                   /\ \A h \in task'[v].held : h[2] \in DOMAIN unlocks'[h[1]]
  <2>1. shared' \subseteq Tracks
    BY <1>2 DEF Quiet, TypeInv, TypeOK
  <2> QED BY <1>2, <2>1, QuietFacts
<1>3. ASSUME NEW w \in Workers, NEW change \in Changes, Edit(w, change)
      PROVE  TypeInv'
  <2>1. /\ Quiet(w) /\ UNCHANGED <<unlocks, titles>>
        /\ UNCHANGED <<counts, day, visited, crossed, missed, posts, crashes>>
    BY <1>3, EditFacts DEF Quiet
  <2>2. /\ task' \in [Workers -> Task] /\ shared' \subseteq Tracks
        /\ \A v \in Workers : TaskOK(task[v])' /\ (task'[v].open # {} => task'[v].tracks # <<>>)
                              /\ \A h \in task'[v].held : h[2] \in DOMAIN unlocks'[h[1]]
    BY <1>2, <2>1
  <2> QED BY <2>1, <2>2 DEF TypeInv, TypeOK, counts
<1>4. ASSUME NEW w \in Workers, Commit(w)
      PROVE  TypeInv'
  <2>1. /\ task[w] \in Task /\ edits' = edits + 1 /\ applied' = task[w].read + 1
        /\ created' \in {created, created + 1} /\ erased' \in {erased, erased + 1}
        /\ edited' = edited \cup {task[w].since}
        /\ overlapped' = (overlapped \/ Busy("edit") # {w})
        /\ BeginAwards(w, EditTracks) \/ Quiet(w)
        /\ missed' \subseteq missed \cup {Revisionist, Creator, FunRunner}
        /\ UNCHANGED <<day, visited, unlocks, titles, crossed, posts, crashes>>
    BY <1>4, CommitFacts
  <2>2. /\ task' \in [Workers -> Task] /\ shared' \subseteq Tracks
        /\ \A v \in Workers : TaskOK(task[v])' /\ (task'[v].open # {} => task'[v].tracks # <<>>)
                              /\ \A h \in task'[v].held : h[2] \in DOMAIN unlocks'[h[1]]
    BY <1>1, <1>2, <2>1
  <2>3. {edits', applied', created', erased', day'} \subseteq Nat
    <3>1. /\ edits \in Nat /\ created \in Nat /\ erased \in Nat /\ day \in Nat
          /\ task[w].read \in Nat
      BY <2>1, TaskFields DEF TypeInv, TypeOK
    <3> QED BY <2>1, <3>1
  <2>4. edited' \subseteq Nat /\ overlapped' \in BOOLEAN /\ missed' \subseteq Tracks
    <3>1. task[w].since \in Nat
      BY <2>1, TaskFields
    <3> QED BY <2>1, <3>1 DEF TypeInv, TypeOK, Tracks
  <2> QED BY <2>1, <2>2, <2>3, <2>4 DEF TypeInv, TypeOK
<1>5. ASSUME NEW w \in Workers, NEW x \in Entities, Visit(w, x)
      PROVE  TypeInv'
  <2>1. /\ BeginAwards(w, <<Explorer>>) /\ visited' = visited \cup {x}
        /\ UNCHANGED <<counts, day, unlocks, titles, crossed, missed, posts, crashes>>
    BY <1>5 DEF Visit, tables
  <2>2. /\ task' \in [Workers -> Task] /\ shared' \subseteq Tracks
        /\ \A v \in Workers : TaskOK(task[v])' /\ (task'[v].open # {} => task'[v].tracks # <<>>)
                              /\ \A h \in task'[v].held : h[2] \in DOMAIN unlocks'[h[1]]
    BY <1>1, <2>1
  <2> QED BY <2>1, <2>2 DEF TypeInv, TypeOK, counts
<1> QED BY <1>3, <1>4, <1>5

\* An open tier, and what the request does about it.
LEMMA AfterFacts ==
  ASSUME NEW o \in Opens
  PROVE  /\ After(o) \in Steps \cup {"over"} /\ After(o) # "look"
         /\ After(o) \in {"look title", "insert title"} /\ o.step # "look title" => o.tier.title # NoTitle
         /\ After(o) = "insert title" => o.step = "look title" /\ ~(titles[o.tier.title] > 0)
         /\ After(o) = "insert" => o.step = "look" /\ ~Unlocked(o.tier.award)
         /\ After(o) = "look title" => o.step = "insert" \/ Unlocked(o.tier.award)
         /\ After(o) = "over" /\ o.step \in {"look", "insert"} => o.tier.title = NoTitle
         /\ After(o) = "over" /\ o.step = "look" => Unlocked(o.tier.award)
         /\ After(o) = "over" /\ o.step = "look title" => titles[o.tier.title] > 0
<1>1. o.step \in Steps
  BY DEF Opens
<1> QED BY <1>1 DEF After, Steps

Left(w, o) ==
  (task[w].open \ {o}) \cup IF After(o) = "over" THEN {} ELSE {[o EXCEPT !.step = After(o)]}

LEMMA LeftFacts ==
  ASSUME TypeInv, NEW w \in Workers, NEW o \in task[w].open
  PROVE  /\ Left(w, o) \subseteq Opens /\ o \in Opens
         /\ \A p : p \in Left(w, o) <=> \/ p \in task[w].open /\ p # o
                                        \/ After(o) # "over" /\ p = [o EXCEPT !.step = After(o)]
         /\ \A p \in Left(w, o) :
              \/ p \in task[w].open /\ p # o /\ p.tier # o.tier
              \/ After(o) # "over" /\ p.tier = o.tier /\ p.step = After(o)
         /\ \A p, q \in Left(w, o) : p.tier = q.tier => p = q
         /\ After(o) # "over" => \E p \in Left(w, o) : p.tier = o.tier
<1> DEFINE p0 == [o EXCEPT !.step = After(o)]
<1>1. task[w].open \subseteq Opens /\ \A p, q \in task[w].open : p.tier = q.tier => p = q
  BY TaskFields DEF TypeInv, TypeOK, TaskOK
<1>2. o \in Opens /\ (After(o) # "over" => p0 \in Opens) /\ p0.tier = o.tier /\ p0.step = After(o)
  BY <1>1, AfterFacts DEF Opens
<1> HIDE DEF p0
<1>3. \A p : p \in Left(w, o) <=> (p \in task[w].open /\ p # o) \/ (After(o) # "over" /\ p = p0)
  BY DEF Left, p0
<1>4. /\ Left(w, o) \subseteq Opens
      /\ \A p \in Left(w, o) :
           \/ p \in task[w].open /\ p # o /\ p.tier # o.tier
           \/ After(o) # "over" /\ p.tier = o.tier /\ p.step = After(o)
      /\ \A p, q \in Left(w, o) : p.tier = q.tier => p = q
      /\ After(o) # "over" => \E p \in Left(w, o) : p.tier = o.tier
  BY <1>1, <1>2, <1>3
<1> QED BY <1>2, <1>3, <1>4 DEF p0

\* A request for awards goes on.
MovesOn(w, open, n) ==
  /\ task' = [task EXCEPT ![w] = n]
  /\ n.kind \in {"idle", "award"} /\ n.open = open
  /\ n.held = task[w].held \/ n.held = {}
  /\ open # {} => n.kind = "award" /\ n.tracks = task[w].tracks
  /\ open = {} => /\ n.kind = "award" => PendingOf(n) = Pending(w) \ {Head(task[w].tracks)}
                  /\ n.kind = "idle" => Pending(w) = {Head(task[w].tracks)}
  /\ n.kind = "award" => n.tracks # <<>> /\ PendingOf(n) \subseteq Pending(w)
  /\ \A j, k \in DOMAIN n.tracks : n.tracks[j] = n.tracks[k] => j = k
  /\ Head(task[w].tracks) \in Pending(w) /\ Head(task[w].tracks) \in Tracks
  /\ UNCHANGED <<counts, day, visited, shared, crossed, posts, crashes>>

LEMMA ProgressFacts ==
  ASSUME TypeInv, NEW w \in Workers, w \in Busy("award"), NEW open \in SUBSET Opens,
         Progress(w, open)
  PROVE  \E n \in Task : MovesOn(w, open, n)
<1> DEFINE n == Onward(task[w], open)
<1>1. task[w] \in Task /\ TaskOK(task[w]) /\ task[w].kind = "award" /\ Pending(w) = PendingOf(task[w])
  BY DEF TypeInv, TypeOK, Busy, Pending, PendingOf
<1>2. /\ task' = [task EXCEPT ![w] = n]
      /\ UNCHANGED <<counts, day, visited, shared, crossed, posts, crashes>>
  BY DEF Progress, Onward
<1>3. n = Onward(task[w], open)
  OBVIOUS
<1> HIDE DEF n
<1>4. /\ n \in Task /\ n.kind \in {"idle", "award"} /\ n.open = open
      /\ n.held = task[w].held \/ n.held = {}
      /\ open # {} => n.kind = "award" /\ n.tracks = task[w].tracks
      /\ open = {} => /\ n.kind = "award" => PendingOf(n) = Pending(w) \ {Head(task[w].tracks)}
                      /\ n.kind = "idle" => Pending(w) = {Head(task[w].tracks)}
      /\ n.kind = "award" => n.tracks # <<>> /\ PendingOf(n) \subseteq Pending(w)
      /\ \A j, k \in DOMAIN n.tracks : n.tracks[j] = n.tracks[k] => j = k
      /\ Head(task[w].tracks) \in Pending(w) /\ Head(task[w].tracks) \in Tracks
  BY <1>1, <1>3, OnwardFacts
<1>5. MovesOn(w, open, n)
  BY <1>2, <1>4 DEF MovesOn
<1> QED BY <1>4, <1>5

LEMMA ProgressKeepsTypeInv ==
  ASSUME TypeInv, NEW w \in Workers, w \in Busy("award"), NEW open \in SUBSET Opens,
         Progress(w, open),
         \A o \in open : /\ o.tier \in Tiers[Head(task[w].tracks)]
                         /\ o.step \in {"look title", "insert title"} => o.tier.title # NoTitle
                         /\ \A p \in open : o.tier = p.tier => o = p,
         unlocks' \in [Awards -> Seq(Ranks \cup {0})], titles' \in [Titles -> Nat],
         missed' \subseteq missed,
         \A a \in Awards : DOMAIN unlocks[a] \subseteq DOMAIN unlocks'[a]
  PROVE  TypeInv'
<1>0. PICK n \in Task : MovesOn(w, open, n)
  BY ProgressFacts
<1>1. /\ task' = [task EXCEPT ![w] = n]
      /\ n.kind \in {"idle", "award"} /\ n.open = open
      /\ n.held = task[w].held \/ n.held = {}
      /\ open # {} => n.kind = "award" /\ n.tracks = task[w].tracks
      /\ n.kind = "award" => n.tracks # <<>>
      /\ \A j, k \in DOMAIN n.tracks : n.tracks[j] = n.tracks[k] => j = k
      /\ UNCHANGED <<counts, day, visited, shared, crossed, posts, crashes>>
  BY <1>0 DEF MovesOn
<1>2. TaskOK(n)
  <2>1. \A o \in n.open : /\ o.tier \in Tiers[Head(n.tracks)]
                          /\ o.step \in {"look title", "insert title"} => o.tier.title # NoTitle
                          /\ \A p \in n.open : o.tier = p.tier => o = p
    BY <1>1
  <2> QED BY <1>1, <2>1 DEF TaskOK
<1>3. /\ task' \in [Workers -> Task]
      /\ \A v \in Workers : TaskOK(task[v])' /\ (task'[v].open # {} => task'[v].tracks # <<>>)
                            /\ \A h \in task'[v].held : h[2] \in DOMAIN unlocks'[h[1]]
  BY <1>1, <1>2, AwardStepTypes
<1> QED BY <1>1, <1>3 DEF TypeInv, TypeOK, counts

Opened(w, signal) ==
  {[tier |-> t, step |-> "look"] : t \in Reached(Head(task[w].tracks), signal)}

LEMMA MeasureOpens ==
  ASSUME TypeInv, NEW w \in Workers, w \in Busy("award"), NEW signal,
         NEW open, open = Opened(w, signal)
  PROVE  /\ open \in SUBSET Opens
         /\ \A o \in open : /\ o.tier \in Tiers[Head(task[w].tracks)] /\ o.step = "look"
                            /\ o.tier.threshold <= signal
                            /\ \A p \in open : o.tier = p.tier => o = p
         /\ \A t \in Tiers[Head(task[w].tracks)] : t.threshold <= signal =>
              \E o \in open : o.tier = t
<1>1. task[w] \in Task /\ TaskOK(task[w]) /\ task[w].kind = "award"
  BY DEF TypeInv, TypeOK, Busy
<1>2. Head(task[w].tracks) \in Tracks
  BY <1>1, TaskFields, ListFacts DEF TaskOK
<1>3. \A t \in Reached(Head(task[w].tracks), signal) :
        t \in Tiers[Head(task[w].tracks)] /\ t \in Tier /\ t.threshold <= signal
  BY <1>2, TierFacts DEF Reached
<1>4. \A o \in open : \E t \in Reached(Head(task[w].tracks), signal) :
        o = [tier |-> t, step |-> "look"] /\ o.tier = t /\ o.step = "look"
  BY DEF Opened
<1>5. open \in SUBSET Opens
  <2>1. ASSUME NEW t \in Tier
        PROVE  [tier |-> t, step |-> "look"] \in Opens
    BY DEF Opens, Steps
  <2>2. \A o \in open : o \in Opens
    BY <1>3, <1>4, <2>1
  <2> QED BY <2>2
<1>6. \A o \in open : /\ o.tier \in Tiers[Head(task[w].tracks)] /\ o.step = "look"
                      /\ o.tier.threshold <= signal
                      /\ \A p \in open : o.tier = p.tier => o = p
  BY <1>3, <1>4
<1>7. ASSUME NEW t \in Tiers[Head(task[w].tracks)], t.threshold <= signal
      PROVE  \E o \in open : o.tier = t
  <2>1. t \in Reached(Head(task[w].tracks), signal)
    BY <1>7 DEF Reached
  <2>2. [tier |-> t, step |-> "look"] \in open
    BY <2>1 DEF Opened
  <2> QED BY <2>2
<1> QED BY <1>5, <1>6, <1>7

LEMMA MeasureKeepsTypeInv ==
  ASSUME TypeInv, NEW w \in Workers, Measure(w)
  PROVE  TypeInv'
<1>1. PICK signal \in Signals(Head(task[w].tracks)) : Progress(w, Opened(w, signal))
  BY DEF Measure, Opened
<1>2. w \in Busy("award") /\ UNCHANGED <<unlocks, titles>> /\ missed' \subseteq missed
  BY DEF Measure, tables
<1>3. PICK open : open = Opened(w, signal)
  OBVIOUS
<1>4. /\ open \in SUBSET Opens
      /\ \A o \in open : /\ o.tier \in Tiers[Head(task[w].tracks)] /\ o.step = "look"
                         /\ \A p \in open : o.tier = p.tier => o = p
  BY <1>2, <1>3, MeasureOpens
<1>5. unlocks' \in [Awards -> Seq(Ranks \cup {0})] /\ titles' \in [Titles -> Nat]
      /\ \A a \in Awards : DOMAIN unlocks[a] \subseteq DOMAIN unlocks'[a]
  BY <1>2 DEF TypeInv, TypeOK
<1> QED BY <1>1, <1>2, <1>3, <1>4, <1>5, ProgressKeepsTypeInv

\* What one statement does to the tables.
LEMMA AwardWrites ==
  ASSUME TypeInv, NEW w \in Workers, Award(w)
  PROVE  \E o \in task[w].open :
           /\ w \in Busy("award") /\ Progress(w, Left(w, o))
           /\ unlocks' \in [Awards -> Seq(Ranks \cup {0})] /\ titles' \in [Titles -> Nat]
           /\ \A a \in Awards :
                IF o.step = "insert" /\ a = o.tier.award
                THEN unlocks'[a] = Append(unlocks[a], 0) ELSE unlocks'[a] = unlocks[a]
           /\ \A t \in Titles :
                IF o.step = "insert title" /\ t = o.tier.title
                THEN titles'[t] = titles[t] + 1 ELSE titles'[t] = titles[t]
           /\ o.tier \in Tiers[Head(task[w].tracks)] /\ Head(task[w].tracks) \in Tracks
           /\ o.tier.award \in Awards
<1>1. PICK o \in task[w].open :
        /\ Progress(w, Left(w, o))
        /\ unlocks' = IF o.step = "insert" THEN [unlocks EXCEPT ![o.tier.award] = Append(@, 0)]
                      ELSE unlocks
        /\ titles' = IF o.step = "insert title" THEN [titles EXCEPT ![o.tier.title] = @ + 1]
                     ELSE titles
  BY DEF Award, Left
<1>2. w \in Busy("award") /\ task[w] \in Task /\ TaskOK(task[w]) /\ task[w].kind = "award"
  BY DEF Award, TypeInv, TypeOK, Busy
<1>3. Head(task[w].tracks) \in Tracks
  BY <1>2, TaskFields, ListFacts DEF TaskOK
<1>4. o.tier \in Tiers[Head(task[w].tracks)] /\ o.tier.award \in Awards
      /\ (o.step = "insert title" => o.tier.title \in Titles)
  BY <1>2, <1>3, TierFacts DEF TaskOK
<1>5. unlocks \in [Awards -> Seq(Ranks \cup {0})] /\ titles \in [Titles -> Nat]
  BY DEF TypeInv, TypeOK
<1>6. Append(unlocks[o.tier.award], 0) \in Seq(Ranks \cup {0})
  BY <1>4, <1>5, AppendProperties
<1>7. unlocks' \in [Awards -> Seq(Ranks \cup {0})] /\ titles' \in [Titles -> Nat]
  <2>1. unlocks' \in [Awards -> Seq(Ranks \cup {0})]
    BY <1>1, <1>4, <1>5, <1>6
  <2>2. titles' \in [Titles -> Nat]
    <3>1. CASE o.step = "insert title"
      <4>0. o.tier.title \in Titles
        BY <1>4, <3>1
      <4>1. titles[o.tier.title] + 1 \in Nat
        BY <1>5, <4>0
      <4> QED BY <1>1, <1>5, <3>1, <4>1
    <3> QED BY <1>1, <1>5, <3>1
  <2> QED BY <2>1, <2>2
<1>8. \A a \in Awards :
        IF o.step = "insert" /\ a = o.tier.award
        THEN unlocks'[a] = Append(unlocks[a], 0) ELSE unlocks'[a] = unlocks[a]
  BY <1>1, <1>4, <1>5
<1>9. \A t \in Titles :
        IF o.step = "insert title" /\ t = o.tier.title
        THEN titles'[t] = titles[t] + 1 ELSE titles'[t] = titles[t]
  BY <1>1, <1>4, <1>5
<1> QED BY <1>1, <1>2, <1>3, <1>4, <1>7, <1>8, <1>9

LEMMA RowAppended ==
  ASSUME TypeOK, NEW a \in Awards, NEW s, s = Append(unlocks[a], 0)
  PROVE  /\ Len(s) = Len(unlocks[a]) + 1 /\ DOMAIN s = 1..(Len(unlocks[a]) + 1)
         /\ s # <<>> /\ s[Len(unlocks[a]) + 1] = 0
         /\ \A k \in DOMAIN unlocks[a] : s[k] = unlocks[a][k]
         /\ DOMAIN unlocks[a] \subseteq DOMAIN s
<1>1. unlocks[a] \in Seq(Ranks \cup {0})
  BY DEF TypeOK
<1> QED BY <1>1, AppendProperties

LEMMA AwardKeepsTypeInv ==
  ASSUME TypeInv, NEW w \in Workers, Award(w)
  PROVE  TypeInv'
<1>1. PICK o \in task[w].open :
        /\ w \in Busy("award") /\ Progress(w, Left(w, o))
        /\ unlocks' \in [Awards -> Seq(Ranks \cup {0})] /\ titles' \in [Titles -> Nat]
        /\ \A a \in Awards :
             IF o.step = "insert" /\ a = o.tier.award
             THEN unlocks'[a] = Append(unlocks[a], 0) ELSE unlocks'[a] = unlocks[a]
        /\ o.tier \in Tiers[Head(task[w].tracks)]
  BY AwardWrites
<1>2. \A a \in Awards : DOMAIN unlocks[a] \subseteq DOMAIN unlocks'[a]
  BY <1>1, RowAppended DEF TypeInv
<1>3. /\ Left(w, o) \in SUBSET Opens /\ o \in Opens
      /\ \A p \in Left(w, o) :
           \/ p \in task[w].open /\ p # o /\ p.tier # o.tier
           \/ After(o) # "over" /\ p.tier = o.tier /\ p.step = After(o)
      /\ \A p, q \in Left(w, o) : p.tier = q.tier => p = q
  BY LeftFacts
<1>4. ASSUME NEW p \in Left(w, o)
      PROVE  /\ p.tier \in Tiers[Head(task[w].tracks)]
             /\ p.step \in {"look title", "insert title"} => p.tier.title # NoTitle
             /\ \A q \in Left(w, o) : p.tier = q.tier => p = q
  <2>1. \A q \in task[w].open : /\ q.tier \in Tiers[Head(task[w].tracks)]
                                /\ q.step \in {"look title", "insert title"} => q.tier.title # NoTitle
    BY DEF TypeInv, TaskOK
  <2>2. After(o) \in {"look title", "insert title"} => o.tier.title # NoTitle
    BY <1>3, <2>1, AfterFacts
  <2> QED BY <1>1, <1>3, <2>1, <2>2
<1>5. missed' \subseteq missed
  BY DEF Award
<1> QED BY <1>1, <1>2, <1>3, <1>4, <1>5, ProgressKeepsTypeInv

\* Requests to rank leave the rows where they are, and awarding alone.
RankMoves ==
  /\ Still /\ UNCHANGED <<counts, day, visited, missed>>
  /\ \A w \in Workers : w \in Busy("edit")' => w \in Busy("edit") /\ task'[w] = task[w]

Ranking ==
  \E w \in Workers : (\E form \in Forms : Rank(w, form)) \/ Fetch(w) \/ Clear(w) \/ Set(w)

RankTask(form) == [Idle EXCEPT !.kind = "rank", !.form = form, !.slot = 1]

LEMMA RankTaskFacts ==
  ASSUME NEW form \in Forms, NEW t, t = RankTask(form)
  PROVE  /\ t \in Task /\ TaskOK(t) /\ t.kind = "rank" /\ t.open = {} /\ t.held = {}
         /\ t.slot = 1 /\ t.phase = "fetch" /\ t.form = form
<1>1. /\ t.kind = "rank" /\ t.open = {} /\ t.held = {} /\ t.tracks = <<>>
      /\ t.slot = 1 /\ t.phase = "fetch" /\ t.form = form
  BY DEF RankTask, Idle
<1>2. form \in [Ranks -> Awards \cup {NoAward}] /\ 1 \in Ranks
  BY BoundAssumption DEF Forms, Ranks
<1>3. t \in Task
  BY <1>2, IdleType DEF RankTask, Task
<1>4. TaskOK(t)
  BY <1>1, <1>2 DEF TaskOK
<1> QED BY <1>1, <1>3, <1>4

\* The requests to rank, their writes by row.
LEMMA FetchFacts ==
  ASSUME TypeInv, NEW w \in Workers, Fetch(w)
  PROVE  \E n \in Task :
           /\ task' = [task EXCEPT ![w] = n] /\ n.kind = "rank" /\ task[w].kind = "rank"
           /\ n.open = task[w].open /\ n.tracks = task[w].tracks /\ n.form = task[w].form
           /\ n.slot = task[w].slot
           /\ \/ n.phase = "set" /\ n.held = task[w].held /\ Holders(task[w].slot) = {}
              \/ \E h \in Holders(task[w].slot) : n.phase = "clear" /\ n.held = {h}
           /\ UNCHANGED <<counts, day, visited, tables, shared, crossed, missed, posts, crashes>>
<1>1. task[w] \in Task /\ task[w].kind = "rank" /\ task \in [Workers -> Task]
  BY DEF Fetch, Busy, TypeInv, TypeOK
<1>2. \A h \in Holders(task[w].slot) : h \in Awards \X (Nat \ {0})
  <2> SUFFICES ASSUME NEW a \in Awards, NEW k \in DOMAIN unlocks[a]
               PROVE  <<a, k>> \in Awards \X (Nat \ {0})
    BY DEF Holders
  <2>1. k \in 1..Len(unlocks[a]) /\ Len(unlocks[a]) \in Nat
    BY Rows DEF TypeInv
  <2> QED BY <2>1
<1>3. CASE Holders(task[w].slot) = {}
  <2> DEFINE n == [task[w] EXCEPT !.phase = "set"]
  <2>1. task' = [task EXCEPT ![w] = n]
    BY <1>1, <1>3 DEF Fetch, Displaced
  <2>2. /\ n \in Task /\ n.kind = "rank" /\ n.open = task[w].open /\ n.tracks = task[w].tracks
        /\ n.form = task[w].form /\ n.slot = task[w].slot /\ n.phase = "set"
        /\ n.held = task[w].held
    BY <1>1 DEF Task
  <2> HIDE DEF n
  <2> QED BY <1>1, <1>3, <2>1, <2>2 DEF Fetch
<1>4. CASE Holders(task[w].slot) # {}
  <2>1. PICK h \in Holders(task[w].slot) :
          task' = [task EXCEPT ![w].phase = "clear", ![w].held = {h}]
    BY <1>4 DEF Fetch, Displaced
  <2> DEFINE n == [task[w] EXCEPT !.phase = "clear", !.held = {h}]
  <2>2. task' = [task EXCEPT ![w] = n]
    BY <1>1, <2>1
  <2>3. {h} \in SUBSET (Awards \X (Nat \ {0}))
    BY <1>2
  <2>4. /\ n \in Task /\ n.kind = "rank" /\ n.open = task[w].open /\ n.tracks = task[w].tracks
        /\ n.form = task[w].form /\ n.slot = task[w].slot /\ n.phase = "clear" /\ n.held = {h}
    BY <1>1, <2>3 DEF Task
  <2> HIDE DEF n
  <2> QED BY <1>1, <1>4, <2>2, <2>4 DEF Fetch
<1> QED BY <1>3, <1>4

LEMMA ClearFacts ==
  ASSUME TypeInv, NEW w \in Workers, Clear(w)
  PROVE  /\ \E n \in Task :
              /\ task' = [task EXCEPT ![w] = n] /\ n.kind = "rank" /\ task[w].kind = "rank"
              /\ n.open = task[w].open /\ n.tracks = task[w].tracks /\ n.form = task[w].form
              /\ n.slot = task[w].slot /\ n.phase = "set" /\ n.held = {}
         /\ task[w].phase = "clear"
         /\ \A a \in Awards :
              /\ unlocks'[a] \in Seq(Ranks \cup {0}) /\ DOMAIN unlocks'[a] = DOMAIN unlocks[a]
              /\ \A k \in DOMAIN unlocks[a] :
                   unlocks'[a][k] = IF <<a, k>> \in task[w].held THEN 0 ELSE unlocks[a][k]
         /\ unlocks' \in [Awards -> Seq(Ranks \cup {0})]
         /\ UNCHANGED <<counts, day, visited, titles, shared, crossed, missed, posts, crashes>>
<1>1. task[w] \in Task /\ task[w].kind = "rank" /\ task \in [Workers -> Task]
  BY DEF Clear, Busy, TypeInv, TypeOK
<1> DEFINE n == [task[w] EXCEPT !.phase = "set", !.held = {}]
<1>2. task' = [task EXCEPT ![w] = n]
  BY <1>1 DEF Clear
<1>3. /\ n \in Task /\ n.kind = "rank" /\ n.open = task[w].open /\ n.tracks = task[w].tracks
      /\ n.form = task[w].form /\ n.slot = task[w].slot /\ n.phase = "set" /\ n.held = {}
  BY <1>1 DEF Task
<1> HIDE DEF n
<1>4. unlocks' = [a \in Awards |-> [k \in DOMAIN unlocks[a] |->
                   IF <<a, k>> \in task[w].held THEN 0 ELSE unlocks[a][k]]]
  BY DEF Clear, Cleared
<1>5. ASSUME NEW a \in Awards
      PROVE  /\ unlocks'[a] \in Seq(Ranks \cup {0}) /\ DOMAIN unlocks'[a] = DOMAIN unlocks[a]
             /\ \A k \in DOMAIN unlocks[a] :
                  unlocks'[a][k] = IF <<a, k>> \in task[w].held THEN 0 ELSE unlocks[a][k]
  <2>1. unlocks[a] \in [1..Len(unlocks[a]) -> Ranks \cup {0}] /\ Len(unlocks[a]) \in Nat
    BY Rows, LenProperties DEF TypeInv
  <2>2. unlocks'[a] = [k \in 1..Len(unlocks[a]) |->
                         IF <<a, k>> \in task[w].held THEN 0 ELSE unlocks[a][k]]
    BY <1>4, <2>1
  <2>3. unlocks'[a] \in [1..Len(unlocks[a]) -> Ranks \cup {0}]
    BY <2>1, <2>2
  <2>4. unlocks'[a] \in Seq(Ranks \cup {0})
    BY <2>1, <2>3
  <2> QED BY <2>1, <2>2, <2>4
<1>6. unlocks' \in [Awards -> Seq(Ranks \cup {0})]
  BY <1>4, <1>5
<1> QED BY <1>1, <1>2, <1>3, <1>5, <1>6 DEF Clear

\* The next rank, if any.
NextRank(t) ==
  IF t.slot + 1 \in Ranks THEN [t EXCEPT !.phase = "fetch", !.slot = @ + 1] ELSE Idle

LEMMA NextRankFacts ==
  ASSUME NEW t \in Task, TaskOK(t), t.kind = "rank", NEW n, n = NextRank(t)
  PROVE  /\ n \in Task /\ TaskOK(n) /\ n.kind \in {"rank", "idle"} /\ n.open = t.open /\ t.open = {}
         /\ n.held = t.held \/ n.held = {}
         /\ n.kind = "rank" => n.slot = t.slot + 1 /\ n.phase = "fetch" /\ n.form = t.form
         /\ n.kind = "idle" => t.slot = MaxRank
<1>0. t.open = {} /\ t.slot \in 1..MaxRank /\ MaxRank \in Nat
  BY BoundAssumption DEF TaskOK, Ranks
<1>1. CASE t.slot + 1 \in Ranks
  <2>1. n = [t EXCEPT !.phase = "fetch", !.slot = t.slot + 1]
    BY <1>1 DEF NextRank
  <2>2. n \in Task /\ n.kind = "rank" /\ n.open = {} /\ n.held = t.held /\ n.slot = t.slot + 1
        /\ n.phase = "fetch" /\ n.form = t.form /\ n.tracks = t.tracks
    BY <1>0, <1>1, <2>1 DEF Task
  <2>3. TaskOK(n)
    <3>0. n.tracks = t.tracks
      BY <2>2
    <3>1. \A j, k \in DOMAIN n.tracks : n.tracks[j] = n.tracks[k] => j = k
      BY <3>0 DEF TaskOK
    <3>2. n.slot \in Ranks /\ n.kind = "rank" /\ n.open = {}
      BY <1>1, <2>2
    <3> QED BY <3>1, <3>2 DEF TaskOK
  <2> QED BY <1>0, <2>2, <2>3
<1>2. CASE t.slot + 1 \notin Ranks
  <2>1. n = Idle
    BY <1>2 DEF NextRank
  <2>2. t.slot = MaxRank
    BY <1>0, <1>2 DEF Ranks
  <2> QED BY <1>0, <2>1, <2>2, IdleType
<1> QED BY <1>1, <1>2

LEMMA SetFacts ==
  ASSUME TypeInv, NEW w \in Workers, Set(w)
  PROVE  /\ task[w].kind = "rank" /\ task[w].phase = "set" /\ task[w].slot \in Ranks
         /\ task' = [task EXCEPT ![w] = NextRank(task[w])]
         /\ \/ task[w].form[task[w].slot] = NoAward /\ UNCHANGED unlocks
            \/ /\ task[w].form[task[w].slot] \in Awards
               /\ \E i \in DOMAIN unlocks[task[w].form[task[w].slot]] :
                    \A a \in Awards :
                      /\ unlocks'[a] \in Seq(Ranks \cup {0}) /\ DOMAIN unlocks'[a] = DOMAIN unlocks[a]
                      /\ \A k \in DOMAIN unlocks[a] :
                           unlocks'[a][k] = IF a = task[w].form[task[w].slot] /\ k = i
                                            THEN task[w].slot ELSE unlocks[a][k]
         /\ unlocks' \in [Awards -> Seq(Ranks \cup {0})]
         /\ UNCHANGED <<counts, day, visited, titles, shared, crossed, missed, posts, crashes>>
<1>1. task[w] \in Task /\ TaskOK(task[w]) /\ task[w].kind = "rank" /\ task[w].phase = "set"
  BY DEF Set, Busy, TypeInv, TypeOK
<1> DEFINE r == task[w].slot
           asked == task[w].form[r]
<1>2. r \in Ranks /\ asked \in Awards \cup {NoAward}
  BY <1>1, TaskFields DEF TaskOK
<1>3. /\ task' = [task EXCEPT ![w] = NextRank(task[w])]
      /\ IF asked = NoAward THEN unlocks' = unlocks
         ELSE \E k \in DOMAIN unlocks[asked] : unlocks' = [unlocks EXCEPT ![asked][k] = r]
      /\ UNCHANGED <<counts, day, visited, titles, shared, crossed, missed, posts, crashes>>
  BY DEF Set, NextRank
<1> HIDE DEF r, asked
<1>4. CASE asked = NoAward
  <2>1. UNCHANGED unlocks
    BY <1>3, <1>4
  <2>2. unlocks' \in [Awards -> Seq(Ranks \cup {0})]
    BY <2>1 DEF TypeInv, TypeOK
  <2> QED BY <1>1, <1>2, <1>3, <1>4, <2>1, <2>2 DEF r, asked
<1>5. CASE asked # NoAward
  <2>1. PICK i \in DOMAIN unlocks[asked] : unlocks' = [unlocks EXCEPT ![asked][i] = r]
    BY <1>3, <1>5
  <2>2. asked \in Awards
    BY <1>2, <1>5
  <2>3. /\ unlocks \in [Awards -> Seq(Ranks \cup {0})] /\ unlocks[asked] \in Seq(Ranks \cup {0})
        /\ i \in 1..Len(unlocks[asked])
    BY <2>1, <2>2, Rows DEF TypeInv, TypeOK
  <2>4. PICK s : s = [unlocks[asked] EXCEPT ![i] = r]
    OBVIOUS
  <2>5. s \in Seq(Ranks \cup {0}) /\ DOMAIN s = DOMAIN unlocks[asked]
        /\ \A k \in DOMAIN unlocks[asked] : s[k] = IF k = i THEN r ELSE unlocks[asked][k]
    <3>1. s \in Seq(Ranks \cup {0}) /\ Len(s) = Len(unlocks[asked])
      BY <1>2, <2>3, <2>4, ExceptSeq
    <3> QED BY <2>3, <2>4, <3>1
  <2>6. unlocks' = [unlocks EXCEPT ![asked] = s]
    BY <2>1, <2>2, <2>3, <2>4
  <2>7. unlocks' \in [Awards -> Seq(Ranks \cup {0})]
    BY <2>3, <2>5, <2>6
  <2>8. \A a \in Awards :
          /\ unlocks'[a] \in Seq(Ranks \cup {0}) /\ DOMAIN unlocks'[a] = DOMAIN unlocks[a]
          /\ \A k \in DOMAIN unlocks[a] :
               unlocks'[a][k] = IF a = asked /\ k = i THEN r ELSE unlocks[a][k]
    BY <2>3, <2>5, <2>6
  <2> QED BY <1>1, <1>2, <1>3, <2>1, <2>2, <2>7, <2>8 DEF r, asked
<1> QED BY <1>4, <1>5

LEMMA RankingMoves ==
  ASSUME TypeInv, Ranking
  PROVE  RankMoves /\ TypeInv'
<1>0. task \in [Workers -> Task] /\ \A w \in Workers : task[w] \in Task /\ TaskOK(task[w])
  BY DEF TypeInv, TypeOK
<1>1. ASSUME NEW w \in Workers, NEW n \in Task, TaskOK(n), n.kind \in {"idle", "rank"},
             task[w].kind # "award",
             n.open = {}, task[w].open = {},
             \A h \in n.held : h[2] \in DOMAIN unlocks[h[1]],
             task' = [task EXCEPT ![w] = n],
             unlocks' \in [Awards -> Seq(Ranks \cup {0})],
             \A a \in Awards : DOMAIN unlocks'[a] = DOMAIN unlocks[a],
             UNCHANGED <<counts, day, visited, titles, shared, missed>>,
             crossed' \in BOOLEAN, posts' \in Nat, crashes' \in Nat
      PROVE  RankMoves /\ TypeInv'
  <2>1. \A v \in Workers : task'[v] = IF v = w THEN n ELSE task[v]
    BY <1>0, <1>1
  <2>2. task' \in [Workers -> Task]
    BY <1>0, <1>1
  <2>3. RankMoves
    BY <1>1, <2>1 DEF RankMoves, Still, Busy
  <2>4. \A v \in Workers : TaskOK(task'[v]) /\ (task'[v].open # {} => task'[v].tracks # <<>>)
    BY <1>0, <1>1, <2>1 DEF TypeInv, TypeOK
  <2>5. ASSUME NEW v \in Workers, NEW h \in task'[v].held
        PROVE  h[2] \in DOMAIN unlocks'[h[1]]
    <3>1. h[1] \in Awards
      BY <1>0, <1>1, <2>1, <2>5, TaskFields
    <3>2. h[2] \in DOMAIN unlocks[h[1]]
      BY <1>1, <2>1, <2>5 DEF TypeInv, TypeOK
    <3> QED BY <1>1, <3>1, <3>2
  <2>6. \A v \in Workers : TaskOK(task[v])'
    BY <2>4 DEF TaskOK
  <2>7. TypeOK'
    BY <1>1, <2>2, <2>4, <2>5 DEF TypeInv, TypeOK, counts
  <2> QED BY <2>3, <2>6, <2>7 DEF TypeInv
<1>2. ASSUME NEW w \in Workers, NEW form \in Forms, Rank(w, form)
      PROVE  RankMoves /\ TypeInv'
  <2>1. PICK n : n = RankTask(form)
    OBVIOUS
  <2>2. n \in Task /\ TaskOK(n) /\ n.kind = "rank" /\ n.open = {} /\ n.held = {}
    BY <2>1, RankTaskFacts
  <2>3. /\ task' = [task EXCEPT ![w] = n] /\ task[w].kind = "idle"
        /\ UNCHANGED <<counts, day, visited, unlocks, titles, shared, missed, crashes>>
        /\ posts' = posts + 1 /\ crossed' = (crossed \/ Busy("rank") # {})
    BY <1>2, <2>1 DEF Rank, Begin, RankTask, tables
  <2>4. crossed' \in BOOLEAN /\ posts' \in Nat /\ crashes' \in Nat
    BY <2>3 DEF TypeInv, TypeOK
  <2>5. task[w].open = {}
    BY <1>0, <2>3 DEF TaskOK
  <2>6. unlocks' \in [Awards -> Seq(Ranks \cup {0})]
    BY <2>3 DEF TypeInv, TypeOK
  <2> QED BY <1>1, <2>2, <2>3, <2>4, <2>5, <2>6
<1>3. ASSUME NEW w \in Workers, Fetch(w)
      PROVE  RankMoves /\ TypeInv'
  <2>1. PICK n \in Task :
          /\ task' = [task EXCEPT ![w] = n] /\ n.kind = "rank" /\ task[w].kind = "rank"
          /\ n.open = task[w].open /\ n.tracks = task[w].tracks /\ n.form = task[w].form
          /\ n.slot = task[w].slot
          /\ \/ n.phase = "set" /\ n.held = task[w].held /\ Holders(task[w].slot) = {}
             \/ \E h \in Holders(task[w].slot) : n.phase = "clear" /\ n.held = {h}
          /\ UNCHANGED <<counts, day, visited, tables, shared, crossed, missed, posts, crashes>>
    BY <1>3, FetchFacts
  <2>2. task[w].open = {} /\ TaskOK(n)
    BY <1>0, <2>1 DEF TaskOK
  <2>3. ASSUME NEW h \in n.held
        PROVE  h[2] \in DOMAIN unlocks[h[1]]
    <3>1. CASE n.held = task[w].held
      BY <2>3, <3>1 DEF TypeInv, TypeOK
    <3>2. CASE h \in Holders(task[w].slot)
      BY <3>2 DEF Holders
    <3> QED BY <2>1, <2>3, <3>1, <3>2
  <2>4. /\ unlocks' \in [Awards -> Seq(Ranks \cup {0})]
        /\ \A a \in Awards : DOMAIN unlocks'[a] = DOMAIN unlocks[a]
        /\ UNCHANGED <<counts, day, visited, titles, shared, missed>>
        /\ crossed' \in BOOLEAN /\ posts' \in Nat /\ crashes' \in Nat
    BY <2>1 DEF TypeInv, TypeOK, tables
  <2> QED BY <1>1, <2>1, <2>2, <2>3, <2>4
<1>4. ASSUME NEW w \in Workers, Clear(w)
      PROVE  RankMoves /\ TypeInv'
  <2>1. PICK n \in Task :
          /\ task' = [task EXCEPT ![w] = n] /\ n.kind = "rank" /\ task[w].kind = "rank"
          /\ n.open = task[w].open /\ n.tracks = task[w].tracks /\ n.form = task[w].form
          /\ n.slot = task[w].slot /\ n.phase = "set" /\ n.held = {}
    BY <1>4, ClearFacts
  <2>2. task[w].open = {} /\ TaskOK(n)
    BY <1>0, <2>1 DEF TaskOK
  <2>3. /\ unlocks' \in [Awards -> Seq(Ranks \cup {0})]
        /\ \A a \in Awards : DOMAIN unlocks'[a] = DOMAIN unlocks[a]
        /\ UNCHANGED <<counts, day, visited, titles, shared, crossed, missed, posts, crashes>>
    BY <1>4, ClearFacts
  <2>4. crossed' \in BOOLEAN /\ posts' \in Nat /\ crashes' \in Nat
    BY <2>3 DEF TypeInv, TypeOK
  <2> QED BY <1>1, <2>1, <2>2, <2>3, <2>4
<1>5. ASSUME NEW w \in Workers, Set(w)
      PROVE  RankMoves /\ TypeInv'
  <2>1. PICK n : n = NextRank(task[w])
    OBVIOUS
  <2>2. task[w].kind = "rank" /\ task' = [task EXCEPT ![w] = n]
    BY <1>5, <2>1, SetFacts
  <2>3. /\ n \in Task /\ TaskOK(n) /\ n.kind \in {"rank", "idle"} /\ n.open = {} /\ task[w].open = {}
        /\ n.held = task[w].held \/ n.held = {}
    BY <1>0, <2>1, <2>2, NextRankFacts
  <2>4. /\ unlocks' \in [Awards -> Seq(Ranks \cup {0})]
        /\ \A a \in Awards : DOMAIN unlocks'[a] = DOMAIN unlocks[a]
        /\ UNCHANGED <<counts, day, visited, titles, shared, crossed, missed, posts, crashes>>
    <3>1. UNCHANGED unlocks \/ \A a \in Awards : DOMAIN unlocks'[a] = DOMAIN unlocks[a]
      BY <1>5, SetFacts
    <3> QED BY <1>5, <3>1, SetFacts
  <2>5. crossed' \in BOOLEAN /\ posts' \in Nat /\ crashes' \in Nat
    BY <2>4 DEF TypeInv, TypeOK
  <2>6. \A h \in n.held : h[2] \in DOMAIN unlocks[h[1]]
    BY <2>3 DEF TypeInv, TypeOK
  <2> QED BY <1>1, <2>2, <2>3, <2>4, <2>5, <2>6
<1> QED BY <1>2, <1>3, <1>4, <1>5 DEF Ranking

LEMMA CrashKeepsTypeInv ==
  ASSUME TypeInv, Crash
  PROVE  TypeInv'
<1>1. task' = [w \in Workers |-> Idle] /\ crashes' = crashes + 1
      /\ missed' = missed \cup UNION {Pending(w) : w \in Busy("award")}
      /\ UNCHANGED <<counts, day, visited, tables, shared, crossed, posts>>
  BY DEF Crash
<1>2. \A w \in Workers : task'[w] = Idle
  BY <1>1
<1>3. task' \in [Workers -> Task]
  BY <1>1, IdleType
<1>4. \A w \in Workers : TaskOK(task[w])'
  BY <1>2, IdleType DEF TaskOK
<1>5. \A w \in Busy("award") : Pending(w) \subseteq Tracks
  BY TaskFields, ListFacts DEF Busy, Pending, TypeInv, TypeOK
<1>6. missed' \subseteq Tracks
  BY <1>1, <1>5 DEF TypeInv, TypeOK
<1>7. \A w \in Workers : task'[w].held = {} /\ task'[w].open = {}
  BY <1>2, IdleType
<1> QED BY <1>1, <1>3, <1>4, <1>6, <1>7 DEF TypeInv, TypeOK, counts, tables

LEMMA NextKeepsTypeInv ==
  ASSUME TypeInv, [Next]_vars
  PROVE  TypeInv'
<1>1. CASE UNCHANGED vars
  BY <1>1 DEF vars, counts, tables, TypeInv, TypeOK, TaskOK
<1>2. CASE NextDay
  <2>1. day' \in Nat
    BY <1>2 DEF NextDay, TypeInv, TypeOK
  <2> QED BY <1>2, <2>1 DEF NextDay, counts, tables, TypeInv, TypeOK, TaskOK
<1> QED BY <1>1, <1>2, BeginKeepsTypeInv, MeasureKeepsTypeInv, AwardKeepsTypeInv, RankingMoves,
           CrashKeepsTypeInv DEF Next, Ranking

\* What the tables and the requests of the server hold (achievement.js, editor.tsx): the
\* rows that a request to rank refers to are there, whatever is written meanwhile.
THEOREM TypesOfAwards == Spec => []TypeOK
<1>1. TypeInv => TypeOK
  BY DEF TypeInv
<1> QED BY <1>1, InitTypeInv, NextKeepsTypeInv, PTL DEF Spec

----------------------------------------------------------------------------
(* What transactions have read.                                            *)

LEMMA RestKeepsTrans ==
  ASSUME TransInv, TypeOK, UNCHANGED counts, day' \in {day, day + 1},
         \A w \in Workers : w \in Busy("edit")' => w \in Busy("edit") /\ task'[w] = task[w]
  PROVE  TransInv'
<1>1. day \in Nat /\ UNCHANGED <<edits, applied, edited, overlapped>>
  BY DEF TypeOK, counts
<1>2. \A n \in 0..day : n \in 0..day'
  BY <1>1
<1>3. \A w \in Busy("edit")' : w \in Busy("edit") /\ task'[w] = task[w]
  BY DEF Busy
<1>4. \A w \in Busy("edit")' : task'[w].read <= edits' /\ task'[w].since <= day'
  <2> SUFFICES ASSUME NEW w \in Busy("edit")'
               PROVE  task'[w].read <= edits' /\ task'[w].since <= day'
    OBVIOUS
  <2>1. task[w].read <= edits /\ task[w].since <= day /\ task[w] \in Task
    BY <1>3 DEF TransInv, TypeOK, Busy
  <2>2. task[w].since \in Nat
    BY <2>1, TaskFields
  <2> QED BY <1>1, <1>3, <2>1, <2>2
<1>5. applied' <= edits' /\ edited' \subseteq 0..day'
  BY <1>1, <1>2 DEF TransInv
<1>6. ~overlapped' => applied' = edits' /\ \A w \in Busy("edit")' : task'[w].read = applied'
  BY <1>1, <1>3 DEF TransInv
<1> QED BY <1>4, <1>5, <1>6 DEF TransInv

LEMMA EditKeepsTrans ==
  ASSUME TypeInv, TransInv, NEW w \in Workers, NEW change \in Changes, Edit(w, change)
  PROVE  TransInv'
<1>1. PICK t : t = EditTask(change)
  OBVIOUS
<1>2. task' = [task EXCEPT ![w] = t] /\ UNCHANGED <<counts, day>>
  BY <1>1, EditFacts
<1>3. t.read = applied /\ t.since = day
  BY <1>1, EditTaskFacts DEF TypeInv
<1>4. \A v \in Workers : task'[v] = IF v = w THEN t ELSE task[v]
  BY <1>2 DEF TypeInv, TypeOK
<1>5. day \in Nat /\ day <= day /\ UNCHANGED <<edits, applied, edited, overlapped, day>>
  BY <1>2 DEF TypeInv, TypeOK, counts
<1>6. \A v \in Busy("edit")' : v = w \/ (v \in Busy("edit") /\ task'[v] = task[v])
  BY <1>4 DEF Busy
<1>7. \A v \in Busy("edit")' : task'[v].read <= edits' /\ task'[v].since <= day'
  BY <1>3, <1>4, <1>5, <1>6 DEF TransInv
<1>8. applied' <= edits' /\ edited' \subseteq 0..day'
  BY <1>5 DEF TransInv
<1>9. ~overlapped' => applied' = edits' /\ \A v \in Busy("edit")' : task'[v].read = applied'
  BY <1>3, <1>4, <1>5, <1>6 DEF TransInv
<1> QED BY <1>7, <1>8, <1>9 DEF TransInv

LEMMA CommitKeepsTrans ==
  ASSUME TypeInv, TransInv, NEW w \in Workers, Commit(w)
  PROVE  TransInv'
<1>1. /\ task[w] \in Task /\ w \in Busy("edit")
      /\ edits' = edits + 1 /\ applied' = task[w].read + 1
      /\ edited' = edited \cup {task[w].since} /\ day' = day
      /\ overlapped' = (overlapped \/ Busy("edit") # {w})
      /\ BeginAwards(w, EditTracks) \/ (Quiet(w) /\ task' = [task EXCEPT ![w] = Idle])
  BY CommitFacts DEF Busy
<1>2. /\ edits \in Nat /\ task[w].read \in Nat /\ task[w].since \in Nat /\ day \in Nat
      /\ task[w].read <= edits /\ task[w].since <= day
  BY <1>1, TaskFields DEF TypeInv, TypeOK, TransInv
<1>3. PICK n \in Task : task' = [task EXCEPT ![w] = n] /\ n.kind # "edit"
  <2>1. CASE BeginAwards(w, EditTracks)
    <3>1. PICK t \in Task : t.kind = "award" /\ task' = [task EXCEPT ![w] = t]
      BY <2>1, BeginAwardsFacts
    <3> QED BY <3>1
  <2>2. CASE task' = [task EXCEPT ![w] = Idle]
    BY <2>2, IdleType
  <2> QED BY <1>1, <2>1, <2>2
<1>4. \A v \in Workers : task'[v] = IF v = w THEN n ELSE task[v]
  BY <1>3 DEF TypeInv, TypeOK
<1>5. \A v \in Busy("edit")' : /\ v \in Busy("edit") /\ v # w /\ task'[v] = task[v]
                               /\ task[v].read \in Nat
  <2>1. \A v \in Workers : task[v].read \in Nat
    BY TaskFields DEF TypeInv, TypeOK
  <2> QED BY <1>3, <1>4, <2>1 DEF Busy
<1>6. \A m, n1 \in Nat : m <= n1 => m <= n1 + 1 /\ m + 1 <= n1 + 1
  OBVIOUS
<1>7. \A v \in Busy("edit")' : task'[v].read <= edits' /\ task'[v].since <= day'
  BY <1>1, <1>2, <1>5, <1>6 DEF TransInv
<1>8. applied' <= edits'
  BY <1>1, <1>2, <1>6
<1>9. edited' \subseteq 0..day'
  <2>1. task[w].since \in 0..day
    BY <1>2
  <2> QED BY <1>1, <2>1 DEF TransInv
<1>10. ~overlapped' => applied' = edits' /\ \A v \in Busy("edit")' : task'[v].read = applied'
  <2> SUFFICES ASSUME ~overlapped' PROVE applied' = edits' /\ Busy("edit")' = {}
    OBVIOUS
  <2>1. ~overlapped /\ Busy("edit") = {w}
    BY <1>1
  <2>2. task[w].read = edits
    BY <1>1, <2>1 DEF TransInv
  <2>3. Busy("edit")' = {}
    BY <1>5, <2>1
  <2> QED BY <1>1, <2>2, <2>3
<1> QED BY <1>7, <1>8, <1>9, <1>10 DEF TransInv

LEMMA NextKeepsTrans ==
  ASSUME TypeInv, TransInv, [Next]_vars
  PROVE  TransInv'
<1>0. TypeOK
  BY DEF TypeInv
<1>1. CASE UNCHANGED vars \/ NextDay
  <2>1. UNCHANGED <<counts, task>> /\ day' \in {day, day + 1}
    BY <1>1 DEF vars, NextDay
  <2> QED BY <1>0, <2>1, RestKeepsTrans DEF Busy
<1>2. ASSUME NEW w \in Workers, NEW n \in Task, task' = [task EXCEPT ![w] = n], n.kind # "edit",
             UNCHANGED <<counts, day>>
      PROVE  TransInv'
  <2>1. \A v \in Workers : task'[v] = IF v = w THEN n ELSE task[v]
    BY <1>2 DEF TypeInv, TypeOK
  <2>2. \A v \in Workers : v \in Busy("edit")' => v \in Busy("edit") /\ task'[v] = task[v]
    BY <1>2, <2>1 DEF Busy
  <2> QED BY <1>0, <1>2, <2>2, RestKeepsTrans
<1>3. ASSUME NEW w \in Workers, NEW x \in Entities, Visit(w, x)
      PROVE  TransInv'
  <2>1. BeginAwards(w, <<Explorer>>) /\ UNCHANGED <<counts, day>>
    BY <1>3 DEF Visit
  <2>2. PICK t \in Task : t.kind = "award" /\ task' = [task EXCEPT ![w] = t]
    BY <2>1, BeginAwardsFacts
  <2> QED BY <1>2, <2>1, <2>2
<1>4. ASSUME NEW w \in Workers, w \in Busy("award"), NEW open \in SUBSET Opens, Progress(w, open)
      PROVE  TransInv'
  <2>1. PICK n \in Task : MovesOn(w, open, n)
    BY <1>4, ProgressFacts
  <2>2. /\ task' = [task EXCEPT ![w] = n] /\ n.kind # "edit" /\ UNCHANGED <<counts, day>>
    BY <2>1 DEF MovesOn
  <2> QED BY <1>2, <2>2
<1>5. ASSUME NEW w \in Workers, Measure(w)
      PROVE  TransInv'
  <2>1. PICK signal \in Signals(Head(task[w].tracks)) : Progress(w, Opened(w, signal))
    BY <1>5 DEF Measure, Opened
  <2>2. w \in Busy("award")
    BY <1>5 DEF Measure
  <2>3. PICK open : open = Opened(w, signal)
    OBVIOUS
  <2>4. open \in SUBSET Opens
    BY <2>2, <2>3, MeasureOpens
  <2> QED BY <1>4, <2>1, <2>2, <2>3, <2>4
<1>6. ASSUME NEW w \in Workers, Award(w)
      PROVE  TransInv'
  <2>1. PICK o \in task[w].open : w \in Busy("award") /\ Progress(w, Left(w, o))
    BY <1>6, AwardWrites
  <2>2. Left(w, o) \in SUBSET Opens
    BY LeftFacts
  <2> QED BY <1>4, <2>1, <2>2
<1>7. CASE Ranking
  <2>1. RankMoves
    BY <1>7, RankingMoves
  <2> QED BY <1>0, <2>1, RestKeepsTrans DEF RankMoves
<1>8. CASE Crash
  <2>1. \A w \in Workers : task'[w].kind = "idle"
    BY <1>8, IdleType DEF Crash
  <2>2. UNCHANGED <<counts, day>>
    BY <1>8 DEF Crash
  <2>3. \A w \in Workers : w \notin Busy("edit")'
    BY <2>1 DEF Busy
  <2> QED BY <1>0, <2>2, <2>3, RestKeepsTrans
<1> QED BY <1>1, <1>3, <1>5, <1>6, <1>7, <1>8, EditKeepsTrans, CommitKeepsTrans DEF Next, Ranking

LEMMA InitTrans == Init => TransInv
<1> SUFFICES ASSUME Init PROVE TransInv
  OBVIOUS
<1>1. \A w \in Workers : task[w].kind = "idle"
  BY IdleType DEF Init
<1>2. Busy("edit") = {}
  BY <1>1 DEF Busy
<1> QED BY <1>2 DEF Init, TransInv

----------------------------------------------------------------------------
(* What is unlocked once.                                                  *)

LEMMA NoneOfThem == \A n \in Nat : ~(n > 0) => n = 0
OBVIOUS

LEMMA SameRows ==
  ASSUME TypeInv, TypeInv', \A a \in Awards : DOMAIN unlocks'[a] = DOMAIN unlocks[a]
  PROVE  \A a \in Awards : /\ Len(unlocks'[a]) = Len(unlocks[a])
                           /\ unlocks'[a] = <<>> <=> unlocks[a] = <<>>
                           /\ Unlocked(a)' <=> Unlocked(a)
<1> SUFFICES ASSUME NEW a \in Awards
             PROVE  /\ Len(unlocks'[a]) = Len(unlocks[a])
                    /\ unlocks'[a] = <<>> <=> unlocks[a] = <<>>
                    /\ Unlocked(a)' <=> Unlocked(a)
  OBVIOUS
<1>1. /\ Len(unlocks[a]) \in Nat /\ DOMAIN unlocks[a] = 1..Len(unlocks[a])
      /\ unlocks[a] = <<>> <=> Len(unlocks[a]) = 0
  BY Rows DEF TypeInv
<1>2. /\ Len(unlocks'[a]) \in Nat /\ DOMAIN unlocks'[a] = 1..Len(unlocks'[a])
      /\ unlocks'[a] = <<>> <=> Len(unlocks'[a]) = 0
  <2>1. unlocks'[a] \in Seq(Ranks \cup {0})
    BY DEF TypeInv, TypeOK
  <2> QED BY <2>1
<1>3. \A m, n \in Nat : 1..m = 1..n => m = n
  <2> SUFFICES ASSUME NEW m \in Nat, NEW n \in Nat, 1..m = 1..n
               PROVE  m = n
    OBVIOUS
  <2>1. ~(m < n)
    <3>1. m < n => n \in 1..n /\ n \notin 1..m
      OBVIOUS
    <3> QED BY <3>1
  <2>2. ~(n < m)
    <3>1. n < m => m \in 1..m /\ m \notin 1..n
      OBVIOUS
    <3> QED BY <3>1
  <2> QED BY <2>1, <2>2
<1>4. Len(unlocks'[a]) = Len(unlocks[a])
  BY <1>1, <1>2, <1>3
<1> QED BY <1>1, <1>2, <1>4 DEF Unlocked

\* An open tier belongs to the track that its request is at.
LEMMA OpenFacts ==
  ASSUME TypeInv, NEW w \in Workers, NEW o \in task[w].open
  PROVE  /\ w \in Busy("award") /\ Head(task[w].tracks) \in Tracks
         /\ Head(task[w].tracks) \in Pending(w)
         /\ o \in Opens /\ o.tier \in Tiers[Head(task[w].tracks)] /\ o.tier.award \in Awards
         /\ o.tier.title \in Titles \cup {NoTitle} /\ o.tier.threshold \in Nat \ {0}
         /\ o.step \in Steps
         /\ o.step \in {"look title", "insert title"} => o.tier.title # NoTitle
         /\ \A p \in task[w].open : o.tier = p.tier => o = p
<1>1. task[w] \in Task /\ TaskOK(task[w])
  BY DEF TypeInv, TypeOK
<1>2. /\ task[w].kind = "award" /\ task[w].tracks # <<>>
      /\ o.tier \in Tiers[Head(task[w].tracks)]
      /\ o.step \in {"look title", "insert title"} => o.tier.title # NoTitle
      /\ \A p \in task[w].open : o.tier = p.tier => o = p
  BY <1>1 DEF TaskOK
<1>3. /\ task[w].tracks \in TrackLists /\ o \in Opens
  BY <1>1, TaskFields
<1>4. /\ Head(task[w].tracks) \in Tracks /\ Head(task[w].tracks) = task[w].tracks[1]
      /\ 1 \in DOMAIN task[w].tracks
  <2>1. /\ Head(task[w].tracks) \in Tracks /\ Head(task[w].tracks) = task[w].tracks[1]
        /\ Len(task[w].tracks) \in 0..3 /\ Len(task[w].tracks) > 0
        /\ DOMAIN task[w].tracks = 1..Len(task[w].tracks)
    BY <1>2, <1>3, ListFacts
  <2> QED BY <2>1
<1>5. o.tier.award \in Awards /\ o.tier.title \in Titles \cup {NoTitle} /\ o.tier.threshold \in Nat \ {0}
  BY <1>2, <1>4, TierFacts
<1>6. o.step \in Steps
  BY <1>3 DEF Opens
<1> QED BY <1>2, <1>3, <1>4, <1>5, <1>6 DEF Busy, Pending

LEMMA StillKeepsOnce ==
  ASSUME TypeInv, TypeInv', OnceInv, Still
  PROVE  OnceInv'
<1>1. \A a \in Awards : /\ Len(unlocks'[a]) = Len(unlocks[a])
                        /\ unlocks'[a] = <<>> <=> unlocks[a] = <<>>
  BY SameRows DEF Still
<1>2. UnlockedOnce'
  <2>1. \A track \in Tracks : \A t \in Tiers[track] : t.award \in Awards
    BY TierFacts
  <2> QED BY <1>1, <2>1 DEF OnceInv, UnlockedOnce, Still
<1>3. \A w \in Workers : Pending(w)' = Pending(w) \/ w \notin Busy("award")
  BY DEF Still, Pending
<1>4. \A v, w \in Busy("award")' : v # w => Pending(v)' \cap Pending(w)' \subseteq shared'
  BY <1>3 DEF Still, OnceInv, Busy
<1>5. ASSUME NEW w \in Workers, NEW o \in task'[w].open
      PROVE  Holds(o, Head(task[w].tracks))'
  <2>1. o \in task[w].open
    BY DEF Still
  <2>2. o.tier.award \in Awards /\ task'[w] = task[w]
    BY <2>1, OpenFacts DEF Still
  <2>3. Holds(o, Head(task[w].tracks))
    BY <2>1 DEF OnceInv
  <2> QED BY <1>1, <2>2, <2>3 DEF Holds, Still
<1> QED BY <1>2, <1>4, <1>5 DEF OnceInv

LEMMA BeginKeepsOnce ==
  ASSUME TypeInv, OnceInv, NEW w \in Workers, NEW tracks \in {EditTracks, <<Explorer>>},
         BeginAwards(w, tracks), UNCHANGED <<unlocks, titles>>
  PROVE  OnceInv'
<1>1. PICK t \in Task :
        /\ t.kind = "award" /\ t.open = {}
        /\ task' = [task EXCEPT ![w] = t]
        /\ shared' = shared \cup (PendingOf(t) \cap UNION {Pending(v) : v \in Busy("award")})
  BY BeginAwardsFacts
<1>2. \A v \in Workers : task'[v] = IF v = w THEN t ELSE task[v]
  BY <1>1 DEF TypeInv, TypeOK
<1>3. Pending(w)' = PendingOf(t) /\ \A v \in Workers : v # w => Pending(v)' = Pending(v)
  BY <1>2 DEF Pending, PendingOf
<1>4. \A v \in Busy("award")' : v \in Workers /\ (v # w => v \in Busy("award"))
  BY <1>2 DEF Busy
<1>5. ASSUME NEW u \in Busy("award")', NEW v \in Busy("award")', u # v
      PROVE  Pending(u)' \cap Pending(v)' \subseteq shared'
  <2>1. CASE u # w /\ v # w
    BY <1>1, <1>3, <1>4, <1>5, <2>1 DEF OnceInv
  <2>2. CASE u = w \/ v = w
    BY <1>1, <1>3, <1>4, <1>5, <2>2
  <2> QED BY <2>1, <2>2
<1>6. shared \subseteq shared'
  BY <1>1
<1>7. UnlockedOnce'
  BY <1>6 DEF OnceInv, UnlockedOnce
<1>8. \A v \in Workers : \A o \in task'[v].open : Holds(o, Head(task[v].tracks))'
  BY <1>1, <1>2, <1>6 DEF OnceInv, Holds
<1> QED BY <1>5, <1>7, <1>8 DEF OnceInv

\* What a request for awards has left is less than before.
LEMMA MovedOn ==
  ASSUME TypeInv, NEW w \in Workers, w \in Busy("award"), NEW open \in SUBSET Opens,
         Progress(w, open)
  PROVE  /\ \A v \in Workers : v # w => task'[v] = task[v]
         /\ Busy("award")' \subseteq Busy("award")
         /\ \A v \in Busy("award")' : Pending(v)' \subseteq Pending(v)
         /\ task'[w].open = open
         /\ open # {} => task'[w].kind = "award" /\ task'[w].tracks = task[w].tracks
         /\ UNCHANGED <<counts, day, visited, shared, crossed, posts, crashes>>
<1>1. PICK n \in Task : MovesOn(w, open, n)
  BY ProgressFacts
<1>2. \A v \in Workers : task'[v] = IF v = w THEN n ELSE task[v]
  BY <1>1 DEF MovesOn, TypeInv, TypeOK
<1>3. Busy("award")' \subseteq Busy("award")
  BY <1>2 DEF Busy
<1>4. \A v \in Busy("award")' : Pending(v)' \subseteq Pending(v)
  <2> SUFFICES ASSUME NEW v \in Busy("award")' PROVE Pending(v)' \subseteq Pending(v)
    OBVIOUS
  <2>1. CASE v = w
    <3>1. task'[w] = n /\ n.kind = "award"
      BY <1>2, <2>1 DEF Busy
    <3>2. Pending(v)' = PendingOf(n)
      BY <2>1, <3>1 DEF Pending, PendingOf
    <3> QED BY <1>1, <2>1, <3>1, <3>2 DEF MovesOn
  <2>2. CASE v # w
    BY <1>2, <2>2 DEF Busy, Pending
  <2> QED BY <2>1, <2>2
<1> QED BY <1>1, <1>2, <1>3, <1>4 DEF MovesOn

LEMMA MeasureKeepsOnce ==
  ASSUME TypeInv, OnceInv, NEW w \in Workers, Measure(w)
  PROVE  OnceInv'
<1>1. PICK signal \in Signals(Head(task[w].tracks)) : Progress(w, Opened(w, signal))
  BY DEF Measure, Opened
<1>2. w \in Busy("award") /\ UNCHANGED <<unlocks, titles>>
  BY DEF Measure, tables
<1>3. PICK open : open = Opened(w, signal)
  OBVIOUS
<1>4. /\ open \in SUBSET Opens /\ \A o \in open : o.step = "look"
  BY <1>2, <1>3, MeasureOpens
<1>5. /\ \A v \in Workers : v # w => task'[v] = task[v]
      /\ Busy("award")' \subseteq Busy("award")
      /\ \A v \in Busy("award")' : Pending(v)' \subseteq Pending(v)
      /\ task'[w].open = open /\ UNCHANGED shared
  BY <1>1, <1>2, <1>3, <1>4, MovedOn
<1>6. UnlockedOnce'
  BY <1>2, <1>5 DEF OnceInv, UnlockedOnce
<1>7. \A v \in Workers : \A o \in task'[v].open : Holds(o, Head(task[v].tracks))'
  <2> SUFFICES ASSUME NEW v \in Workers, NEW o \in task'[v].open
               PROVE  Holds(o, Head(task[v].tracks))'
    OBVIOUS
  <2>1. CASE v = w
    BY <1>4, <1>5, <2>1 DEF Holds
  <2>2. CASE v # w
    BY <1>2, <1>5, <2>2 DEF Holds, OnceInv
  <2> QED BY <2>1, <2>2
<1>8. \A u, v \in Busy("award")' : u # v => Pending(u)' \cap Pending(v)' \subseteq shared'
  BY <1>5 DEF OnceInv
<1> QED BY <1>6, <1>7, <1>8 DEF OnceInv

LEMMA AwardKeepsOnce ==
  ASSUME TypeInv, OnceInv, NEW w \in Workers, Award(w)
  PROVE  OnceInv'
<1>1. PICK o \in task[w].open :
        /\ w \in Busy("award") /\ Progress(w, Left(w, o))
        /\ \A a \in Awards :
             IF o.step = "insert" /\ a = o.tier.award
             THEN unlocks'[a] = Append(unlocks[a], 0) ELSE unlocks'[a] = unlocks[a]
        /\ \A t \in Titles :
             IF o.step = "insert title" /\ t = o.tier.title
             THEN titles'[t] = titles[t] + 1 ELSE titles'[t] = titles[t]
  BY AwardWrites
<1> DEFINE track == Head(task[w].tracks)
<1>2. /\ Left(w, o) \in SUBSET Opens /\ o \in Opens
      /\ \A p \in Left(w, o) :
           \/ p \in task[w].open /\ p # o /\ p.tier # o.tier
           \/ After(o) # "over" /\ p.tier = o.tier /\ p.step = After(o)
  BY LeftFacts
<1>3. /\ \A v \in Workers : v # w => task'[v] = task[v]
      /\ Busy("award")' \subseteq Busy("award")
      /\ \A v \in Busy("award")' : Pending(v)' \subseteq Pending(v)
      /\ task'[w].open = Left(w, o) /\ UNCHANGED shared
      /\ Left(w, o) # {} => task'[w].tracks = task[w].tracks
  BY <1>1, <1>2, MovedOn
<1>4. /\ track \in Tracks /\ track \in Pending(w) /\ o.tier \in Tiers[track]
      /\ o.tier.award \in Awards /\ Holds(o, track)
      /\ o.step \in {"look title", "insert title"} => o.tier.title # NoTitle
      /\ o.tier.title \in Titles \cup {NoTitle}
  BY OpenFacts DEF OnceInv
<1> HIDE DEF track
<1>5. ASSUME NEW a \in Awards
      PROVE  /\ Len(unlocks'[a]) \in Nat /\ Len(unlocks[a]) \in Nat
             /\ unlocks[a] = <<>> <=> Len(unlocks[a]) = 0
             /\ unlocks'[a] = unlocks[a] \/ /\ o.step = "insert" /\ a = o.tier.award
                                            /\ Len(unlocks'[a]) = Len(unlocks[a]) + 1
             /\ unlocks[a] # <<>> => unlocks'[a] # <<>>
             /\ o.step = "insert" /\ a = o.tier.award => unlocks'[a] # <<>>
  <2>1. Len(unlocks[a]) \in Nat /\ (unlocks[a] = <<>> <=> Len(unlocks[a]) = 0)
    BY Rows DEF TypeInv
  <2>2. PICK s : s = Append(unlocks[a], 0)
    OBVIOUS
  <2>3. Len(s) = Len(unlocks[a]) + 1 /\ s # <<>>
    BY <2>2, RowAppended DEF TypeInv
  <2>4. IF o.step = "insert" /\ a = o.tier.award THEN unlocks'[a] = s ELSE unlocks'[a] = unlocks[a]
    BY <1>1, <2>2
  <2> QED BY <2>1, <2>3, <2>4
<1>6. titles \in [Titles -> Nat]
  BY DEF TypeInv, TypeOK
<1>7. UnlockedOnce'
  <2> SUFFICES ASSUME NEW p \in Tracks, p \notin shared, NEW t \in Tiers[p]
               PROVE  /\ Len(unlocks'[t.award]) <= 1
                      /\ t.title # NoTitle => titles'[t.title] <= 1
    BY <1>3 DEF UnlockedOnce
  <2>1. t.award \in Awards /\ t.title \in Titles \cup {NoTitle}
    BY TierFacts
  <2>2. Len(unlocks[t.award]) <= 1 /\ (t.title # NoTitle => titles[t.title] <= 1)
    BY DEF OnceInv, UnlockedOnce
  <2>3. Len(unlocks'[t.award]) <= 1
    <3>1. CASE unlocks'[t.award] = unlocks[t.award]
      BY <2>2, <3>1
    <3>2. CASE /\ o.step = "insert" /\ t.award = o.tier.award
               /\ Len(unlocks'[t.award]) = Len(unlocks[t.award]) + 1
      <4>1. p = track
        BY <1>4, <3>2, SameTier
      <4>2. unlocks[t.award] = <<>>
        BY <1>4, <3>2, <4>1 DEF Holds
      <4>3. Len(unlocks[t.award]) = 0
        BY <1>5, <2>1, <4>2
      <4> QED BY <3>2, <4>3
    <3> QED BY <1>5, <2>1, <3>1, <3>2
  <2>4. ASSUME t.title # NoTitle
        PROVE  titles'[t.title] <= 1
    <3>0. t.title \in Titles
      BY <2>1, <2>4
    <3>1. CASE o.step = "insert title" /\ t.title = o.tier.title
      <4>1. p = track
        BY <1>4, <2>4, <3>1, SameTier
      <4>2. titles[t.title] = 0
        BY <1>4, <3>1, <4>1 DEF Holds
      <4>3. titles'[t.title] = titles[t.title] + 1
        BY <1>1, <3>0, <3>1
      <4> QED BY <4>2, <4>3
    <3>2. CASE ~(o.step = "insert title" /\ t.title = o.tier.title)
      BY <1>1, <2>2, <2>4, <3>0, <3>2
    <3> QED BY <3>1, <3>2
  <2> QED BY <2>3, <2>4
<1>8. ASSUME NEW v \in Workers, NEW q \in task[v].open, v # w \/ q.tier # o.tier
      PROVE  LET p == Head(task[v].tracks)
             IN /\ q.step = "insert" /\ p \notin shared => unlocks'[q.tier.award] = <<>>
                /\ q.step \in {"look title", "insert title"} => unlocks'[q.tier.award] # <<>>
                /\ q.step = "insert title" /\ p \notin shared => titles'[q.tier.title] = 0
  <2> DEFINE p == Head(task[v].tracks)
  <2>1. /\ v \in Busy("award") /\ p \in Tracks /\ p \in Pending(v) /\ q.tier \in Tiers[p]
        /\ q.tier.award \in Awards /\ q.tier.title \in Titles \cup {NoTitle}
        /\ q.step \in {"look title", "insert title"} => q.tier.title # NoTitle
        /\ Holds(q, p)
    BY OpenFacts DEF OnceInv
  <2> HIDE DEF p
  <2>2. v # w /\ p = track => p \in shared
    BY <1>1, <1>4, <2>1 DEF OnceInv
  <2>3. \/ q.tier.award = o.tier.award
        \/ q.tier.title = o.tier.title /\ q.tier.title # NoTitle
        => p \in shared
    <3> SUFFICES ASSUME \/ q.tier.award = o.tier.award
                        \/ q.tier.title = o.tier.title /\ q.tier.title # NoTitle
                 PROVE  p \in shared
      OBVIOUS
    <3>1. p = track /\ q.tier = o.tier
      <4>1. p \in Tracks /\ track \in Tracks /\ q.tier \in Tiers[p] /\ o.tier \in Tiers[track]
        BY <1>4, <2>1
      <4>2. q.tier.award = o.tier.award \/ (q.tier.title = o.tier.title /\ q.tier.title # NoTitle)
        OBVIOUS
      <4> QED BY <4>1, <4>2, SameTier
    <3> QED BY <1>8, <2>2, <3>1
  <2>4. q.step = "insert" /\ p \notin shared => unlocks'[q.tier.award] = <<>>
    BY <1>5, <2>1, <2>3 DEF Holds
  <2>5. q.step \in {"look title", "insert title"} => unlocks'[q.tier.award] # <<>>
    BY <1>5, <2>1 DEF Holds
  <2>6. q.step = "insert title" /\ p \notin shared => titles'[q.tier.title] = 0
    <3> HAVE q.step = "insert title" /\ p \notin shared
    <3>1. q.tier.title \in Titles /\ q.tier.title # o.tier.title /\ titles[q.tier.title] = 0
      BY <2>1, <2>3 DEF Holds
    <3> QED BY <1>1, <3>1
  <2> QED BY <2>4, <2>5, <2>6 DEF p
<1>9. ASSUME NEW v \in Workers, NEW q \in task'[v].open
      PROVE  Holds(q, Head(task[v].tracks))'
  <2>1. CASE v # w
    BY <1>3, <1>8, <1>9, <2>1 DEF Holds
  <2>2. CASE v = w /\ q \in task[w].open /\ q.tier # o.tier
    <3>1. task'[w].tracks = task[w].tracks
      BY <1>3, <1>9, <2>2
    <3> QED BY <1>3, <1>8, <2>2, <3>1 DEF Holds
  <2>3. CASE v = w /\ After(o) # "over" /\ q.tier = o.tier /\ q.step = After(o)
    <3>1. task'[w].tracks = task[w].tracks
      BY <1>3, <1>9, <2>3
    <3>2. /\ After(o) = "insert title" => o.step = "look title" /\ ~(titles[o.tier.title] > 0)
          /\ After(o) = "insert" => o.step = "look" /\ ~Unlocked(o.tier.award)
          /\ After(o) = "look title" => o.step = "insert" \/ Unlocked(o.tier.award)
          /\ After(o) \in {"look title", "insert title"} /\ o.step # "look title" => o.tier.title # NoTitle
      BY <1>2, AfterFacts
    <3>3. q.step = "insert" => unlocks'[q.tier.award] = <<>>
      BY <1>4, <1>5, <2>3, <3>2 DEF Unlocked
    <3>4. q.step \in {"look title", "insert title"} => unlocks'[q.tier.award] # <<>>
      <4>1. q.step = "look title" => unlocks'[q.tier.award] # <<>>
        BY <1>4, <1>5, <2>3, <3>2 DEF Unlocked
      <4>2. q.step = "insert title" => unlocks'[q.tier.award] # <<>>
        BY <1>4, <1>5, <2>3, <3>2 DEF Holds
      <4> QED BY <4>1, <4>2
    <3>5. q.step = "insert title" => titles'[q.tier.title] = 0
      <4> HAVE q.step = "insert title"
      <4>1. o.step = "look title" /\ ~(titles[o.tier.title] > 0) /\ o.tier.title \in Titles
        BY <1>4, <2>3, <3>2
      <4>2. titles[o.tier.title] \in Nat
        BY <1>6, <4>1
      <4>3. titles'[o.tier.title] = titles[o.tier.title]
        BY <1>1, <4>1
      <4>4. titles[o.tier.title] = 0
        BY <4>1, <4>2, NoneOfThem
      <4>5. q.tier = o.tier
        BY <2>3
      <4> QED BY <4>3, <4>4, <4>5
    <3> QED BY <2>3, <3>1, <3>3, <3>4, <3>5 DEF Holds
  <2> QED BY <1>2, <1>3, <1>9, <2>1, <2>2, <2>3
<1>10. \A u, v \in Busy("award")' : u # v => Pending(u)' \cap Pending(v)' \subseteq shared'
  BY <1>3 DEF OnceInv
<1> QED BY <1>7, <1>9, <1>10 DEF OnceInv

LEMMA CrashKeepsOnce ==
  ASSUME OnceInv, Crash
  PROVE  OnceInv'
<1>1. \A w \in Workers : task'[w] = Idle
  BY DEF Crash
<1>2. \A w \in Workers : task'[w].open = {} /\ task'[w].kind = "idle"
  BY <1>1, IdleType
<1>3. Busy("award")' = {}
  BY <1>2 DEF Busy
<1>4. UnlockedOnce'
  BY DEF OnceInv, UnlockedOnce, Crash, tables
<1> QED BY <1>2, <1>3, <1>4 DEF OnceInv

LEMMA NextKeepsOnce ==
  ASSUME TypeInv, OnceInv, [Next]_vars
  PROVE  OnceInv'
<1>0. TypeInv'
  BY NextKeepsTypeInv
<1>1. CASE UNCHANGED <<tables, task, shared>>
  <2>1. UnlockedOnce'
    BY <1>1 DEF OnceInv, UnlockedOnce, tables
  <2>2. \A v, w \in Busy("award")' : v # w => Pending(v)' \cap Pending(w)' \subseteq shared'
    BY <1>1 DEF OnceInv, Busy, Pending
  <2>3. \A w \in Workers : \A o \in task'[w].open : Holds(o, Head(task[w].tracks))'
    BY <1>1 DEF OnceInv, Holds, tables
  <2> QED BY <2>1, <2>2, <2>3 DEF OnceInv
<1>2. CASE UNCHANGED vars \/ NextDay
  BY <1>1, <1>2 DEF vars, NextDay, tables
<1>3. ASSUME NEW w \in Workers, Quiet(w) \/ BeginAwards(w, EditTracks), UNCHANGED <<unlocks, titles>>
      PROVE  OnceInv'
  BY <1>0, <1>3, QuietFacts, StillKeepsOnce, BeginKeepsOnce
<1>4. ASSUME NEW w \in Workers, NEW x \in Entities, Visit(w, x)
      PROVE  OnceInv'
  BY <1>4, BeginKeepsOnce DEF Visit, tables
<1>5. CASE Ranking
  BY <1>0, <1>5, RankingMoves, StillKeepsOnce DEF RankMoves
<1>6. ASSUME NEW w \in Workers, (\E change \in Changes : Edit(w, change)) \/ Commit(w)
      PROVE  OnceInv'
  <2>1. Quiet(w) \/ BeginAwards(w, EditTracks)
    BY <1>6, EditFacts, CommitFacts
  <2>2. UNCHANGED <<unlocks, titles>>
    BY <1>6 DEF Edit, Commit, tables
  <2> QED BY <1>3, <2>1, <2>2
<1> QED BY <1>2, <1>4, <1>5, <1>6, MeasureKeepsOnce, AwardKeepsOnce, CrashKeepsOnce
        DEF Next, Ranking

LEMMA InitOnce == Init => OnceInv
<1> SUFFICES ASSUME Init PROVE OnceInv
  OBVIOUS
<1>1. \A w \in Workers : task[w].open = {} /\ task[w].kind = "idle"
  BY IdleType DEF Init
<1>2. Busy("award") = {}
  BY <1>1 DEF Busy
<1>3. UnlockedOnce
  <2> SUFFICES ASSUME NEW track \in Tracks, NEW t \in Tiers[track]
               PROVE  Len(unlocks[t.award]) <= 1 /\ (t.title # NoTitle => titles[t.title] <= 1)
    BY DEF UnlockedOnce
  <2>1. t.award \in Awards /\ t.title \in Titles \cup {NoTitle}
    BY TierFacts
  <2>2. unlocks[t.award] = <<>> /\ (t.title # NoTitle => titles[t.title] = 0)
    BY <2>1 DEF Init
  <2> QED BY <2>2
<1> QED BY <1>1, <1>2, <1>3 DEF OnceInv

----------------------------------------------------------------------------
(* Days in a row.                                                          *)

LEMMA LeastOf ==
  ASSUME NEW S \in SUBSET Nat, S # {}
  PROVE  \E m \in S : \A x \in S : m <= x
<1>1. PICK m \in S : \A x \in S : <<x, m>> \notin OpToRel(<, Nat)
  BY NatLessThanWellFounded, WFMin
<1>2. \A x, y \in Nat : x < y => <<x, y>> \in OpToRel(<, Nat)
  BY DEF OpToRel
<1>3. \A x \in S : ~(x < m)
  BY <1>1, <1>2
<1>4. \A x, y \in Nat : ~(x < y) => y <= x
  OBVIOUS
<1> QED BY <1>3, <1>4

LEMMA LastOf ==
  ASSUME NEW L \in Nat, NEW J \in SUBSET (1..L), J # {}
  PROVE  \E j \in J : \A i \in J : i <= j
<1> DEFINE S == {n \in Nat : \E j \in J : n = L - j}
<1>1. \A j \in J : L - j \in S
  OBVIOUS
<1>2. S \in SUBSET Nat /\ S # {}
  BY <1>1
<1>3. PICK m \in S : \A x \in S : m <= x
  BY <1>2, LeastOf
<1>4. PICK j \in J : m = L - j
  OBVIOUS
<1>5. \A i \in J : L - j <= L - i
  BY <1>1, <1>3, <1>4
<1> HIDE DEF S
<1>6. \A i \in J : i <= j
  BY <1>5
<1> QED BY <1>6

\* However the days are listed, the count is a run of days with edits: going on from a
\* day that counts, the list climbs to today by one day at most at a time.
LEMMA RunOfDays ==
  ASSUME TypeOK, edited \subseteq 0..day, NEW list \in DayLists, NEW n \in Nat \ {0}, n <= Consecutive(list)
  PROVE  Streak(n)
<1> DEFINE recent == {d \in edited : day - d <= Window}
           L == Cardinality(recent)
           next(k) == IF k = L THEN day ELSE list[k + 1]
           K == {k \in 1..L : \A j \in k..L : next(j) - list[j] <= 1}
           D == {list[k] : k \in K}
<1>1. day \in Nat /\ edited \subseteq 0..day
  BY DEF TypeOK
<1>2. IsFiniteSet(recent) /\ L \in Nat
  <2>1. IsFiniteSet(0..day)
    BY <1>1, FS_Interval
  <2>2. recent \in SUBSET (0..day)
    BY <1>1
  <2> QED BY <2>1, <2>2, FS_Subset, FS_CardinalityType
<1>3. list \in [1..L -> recent] /\ \A d \in recent : \E k \in 1..L : list[k] = d
  <2>1. DOMAIN list = 1..L
    BY DEF DayLists
  <2> QED BY <2>1 DEF DayLists
<1>4. recent \subseteq 0..day /\ recent \subseteq edited
  BY <1>1
<1> HIDE DEF recent
<1>5. Consecutive(list) = Cardinality(K)
  <2>1. DOMAIN list = 1..L /\ Len(list) = L
    <3> HIDE DEF L
    <3>1. list \in Seq(recent)
      BY <1>2, <1>3
    <3> QED BY <1>2, <1>3, <3>1
  <2>2. K = {k \in DOMAIN list : \A j \in k..Len(list) :
               (IF j = Len(list) THEN day ELSE list[j + 1]) - list[j] <= 1}
    BY <2>1
  <2> QED BY <2>2 DEF Consecutive
<1>6. IsFiniteSet(1..L) /\ Cardinality(1..L) = L
  <2>1. 1 \in Int /\ L \in Int
    BY <1>2
  <2>2. IsFiniteSet(1..L) /\ Cardinality(1..L) = IF 1 > L THEN 0 ELSE L - 1 + 1
    BY <2>1, FS_Interval
  <2> HIDE DEF L
  <2> QED BY <1>2, <2>2
<1>7. \A j, k \in 1..L : list[j] = list[k] => j = k
  <2>1. list \in Surjection(1..L, recent)
    BY <1>3 DEF Surjection
  <2>2. Cardinality(recent) = Cardinality(1..L)
    BY <1>6
  <2>3. PICK S : S = 1..L
    OBVIOUS
  <2>4. list \in Surjection(S, recent) /\ IsFiniteSet(S) /\ Cardinality(recent) = Cardinality(S)
    BY <1>6, <2>1, <2>2, <2>3
  <2> HIDE DEF L
  <2>5. list \in Injection(S, recent)
    BY <2>4, FS_Surjection
  <2>6. \A j, k \in S : list[j] = list[k] => j = k
    BY <2>5 DEF Injection, IsInjective
  <2> QED BY <2>3, <2>6
<1> HIDE DEF L
<1>8. K \in SUBSET (1..L)
  OBVIOUS
<1>9. IsFiniteSet(K) /\ Cardinality(K) \in Nat
  BY <1>6, <1>8, FS_Subset, FS_CardinalityType
<1>10. \A k \in K : \A j \in k..L : j \in 1..L /\ j \in K /\ next(j) - list[j] <= 1
  <2> SUFFICES ASSUME NEW k \in K, NEW j \in k..L
               PROVE  j \in 1..L /\ j \in K /\ next(j) - list[j] <= 1
    OBVIOUS
  <2>1. k \in 1..L /\ j \in 1..L /\ k <= j
    BY <1>2
  <2>2. \A i \in j..L : i \in k..L
    BY <1>2, <2>1
  <2>3. \A i \in k..L : next(i) - list[i] <= 1
    OBVIOUS
  <2> HIDE DEF next
  <2>4. j \in K
    BY <2>1, <2>2, <2>3
  <2> QED BY <2>1, <2>3, <2>4
<1>11. \A k \in 1..L : list[k] \in 0..day /\ list[k] \in edited /\ list[k] \in Nat
  <2>1. \A k \in 1..L : list[k] \in recent
    BY <1>3
  <2>2. \A d \in 0..day : d \in Nat
    BY <1>1
  <2> QED BY <1>4, <2>1, <2>2
<1> HIDE DEF K
<1>12. ASSUME NEW k \in K, NEW x \in Nat, list[k] <= x, x < day
       PROVE  x \in D
  <2> DEFINE J == {j \in 1..L : j >= k /\ list[j] <= x}
  <2>1. k \in 1..L /\ J \in SUBSET (1..L) /\ J # {}
    <3>1. k \in 1..L
      BY <1>8
    <3>2. k \in J
      BY <1>12, <3>1
    <3> QED BY <3>1, <3>2
  <2>2. PICK j \in J : \A i \in J : i <= j
    BY <1>2, <2>1, LastOf
  <2>3. j \in 1..L /\ j \in k..L /\ j \in K /\ list[j] <= x /\ next(j) - list[j] <= 1
    <3>1. j \in 1..L /\ j >= k /\ list[j] <= x
      OBVIOUS
    <3>2. j \in k..L
      BY <1>2, <2>1, <3>1
    <3> QED BY <1>10, <3>1, <3>2
  <2>4. next(j) \in Nat /\ next(j) > x
    <3>1. CASE j = L
      BY <1>1, <1>12, <3>1
    <3>2. CASE j # L
      <4>1. j + 1 \in 1..L /\ j + 1 >= k
        BY <1>2, <2>1, <2>3, <3>2
      <4>2. j + 1 \notin J
        <5>1. ~(j + 1 <= j)
          BY <2>3
        <5> QED BY <2>2, <5>1
      <4>3. ~(list[j + 1] <= x)
        BY <4>1, <4>2
      <4>4. next(j) = list[j + 1] /\ list[j + 1] \in Nat
        BY <1>11, <3>2, <4>1
      <4> QED BY <4>3, <4>4
    <3> QED BY <3>1, <3>2
  <2>5. list[j] \in Nat
    BY <1>11, <2>3
  <2> HIDE DEF next
  <2>6. list[j] = x
    BY <2>3, <2>4, <2>5
  <2> QED BY <2>3, <2>6
<1>13. /\ \A d \in D : d \in edited /\ d \in Nat /\ d <= day
       /\ D \in SUBSET Nat
  <2>1. \A k \in K : list[k] \in 0..day /\ list[k] \in edited
    BY <1>8, <1>11
  <2>2. \A d \in 0..day : d \in Nat /\ d <= day
    BY <1>1
  <2> QED BY <2>1, <2>2
<1>14. IsFiniteSet(D) /\ Cardinality(D) = Cardinality(K)
  <2> DEFINE f == [k \in K |-> list[k]]
  <2>1. f \in Bijection(K, D)
    <3>1. f \in [K -> D] /\ \A k \in K : f[k] = list[k]
      OBVIOUS
    <3>2. \A j, k \in K : f[j] = f[k] => j = k
      BY <1>7, <1>8
    <3>3. \A d \in D : \E k \in K : f[k] = d
      OBVIOUS
    <3> HIDE DEF f, D
    <3>4. f \in Injection(K, D)
      BY <3>1, <3>2 DEF Injection, IsInjective
    <3>5. f \in Surjection(K, D)
      BY <3>1, <3>3 DEF Surjection
    <3> QED BY <3>4, <3>5 DEF Bijection
  <2>2. ExistsBijection(K, D)
    BY <2>1 DEF ExistsBijection
  <2> QED BY <1>9, <2>2, FS_Bijection
<1>15. ASSUME NEW x \in Nat, NEW d \in D, d <= x, x < day
       PROVE  x \in D
  <2>1. PICK k \in K : d = list[k]
    OBVIOUS
  <2> HIDE DEF D
  <2> QED BY <1>12, <1>15, <2>1
<1> HIDE DEF D
<1>16. D # {}
  <2>1. Cardinality(D) >= 1
    BY <1>5, <1>9, <1>14
  <2> QED BY <2>1, FS_EmptySet
<1>17. PICK m \in D : \A x \in D : m <= x
  BY <1>13, <1>16, LeastOf
<1>18. ASSUME NEW b \in Nat, b \in D, b <= day, \A x \in D : x <= b,
              \A x \in Nat : m <= x /\ x <= b => x \in D
       PROVE  Streak(n)
  <2>1. m \in Nat /\ m <= b
    BY <1>13, <1>17, <1>18
  <2>2. D = m..b
    <3>1. \A x : x \in D => x \in m..b
      BY <1>13, <1>17, <1>18, <2>1
    <3>2. \A x : x \in m..b => x \in D
      BY <1>18, <2>1
    <3> QED BY <3>1, <3>2
  <2>3. Cardinality(D) = b - m + 1
    <3>1. m \in Int /\ b \in Int /\ ~(m > b)
      BY <2>1
    <3> QED BY <2>2, <3>1, FS_Interval
  <2>4. n <= b - m + 1
    BY <1>5, <1>14, <2>3
  <2>5. \A k \in 0..(n - 1) : b - k \in D
    BY <1>18, <2>1, <2>4
  <2> QED BY <1>13, <1>18, <2>5 DEF Streak
<1>19. CASE day \in D
  <2>1. \A x \in Nat : m <= x /\ x <= day => x \in D
    BY <1>1, <1>15, <1>19
  <2> QED BY <1>1, <1>13, <1>18, <1>19, <2>1
<1>20. CASE day \notin D
  <2>1. m \in Nat /\ m <= day /\ m # day
    BY <1>13, <1>17, <1>20
  <2>2. day - 1 \in Nat /\ m <= day - 1 /\ day - 1 < day
    BY <1>1, <2>1
  <2>3. day - 1 \in D
    BY <1>15, <2>2
  <2>4. \A x \in D : x <= day - 1
    BY <1>1, <1>13, <1>20
  <2>5. \A x \in Nat : m <= x /\ x <= day - 1 => x \in D
    BY <1>1, <1>15, <2>1
  <2> QED BY <1>1, <1>18, <2>2, <2>3, <2>4, <2>5
<1> QED BY <1>19, <1>20

----------------------------------------------------------------------------
(* What is earned.                                                         *)

\* What counts never goes back.
Grown ==
  /\ edits <= edits' /\ created <= created' /\ erased <= erased' /\ edited \subseteq edited'
  /\ visited \subseteq visited' /\ IsFiniteSet(visited')

LEMMA EarnedIs ==
  ASSUME NEW n
  PROVE  /\ Earned(Revisionist, n) <=> edits >= n
         /\ Earned(Creator, n) <=> created + erased >= n
         /\ Earned(Explorer, n) <=> Cardinality(visited) >= n
         /\ Earned(FunRunner, n) <=> Streak(n)
<1>1. Earned(Revisionist, n) <=> edits >= n
  BY TrackAssumption DEF Earned
<1>2. Earned(Creator, n) <=> created + erased >= n
  BY TrackAssumption DEF Earned
<1>3. Earned(Explorer, n) <=> Cardinality(visited) >= n
  BY TrackAssumption DEF Earned
<1>4. Earned(FunRunner, n) <=> Streak(n)
  BY TrackAssumption DEF Earned
<1> QED BY <1>1, <1>2, <1>3, <1>4

LEMMA EarnedThen ==
  ASSUME NEW n
  PROVE  /\ Earned(Revisionist, n)' <=> edits' >= n
         /\ Earned(Creator, n)' <=> created' + erased' >= n
         /\ Earned(Explorer, n)' <=> Cardinality(visited') >= n
         /\ Earned(FunRunner, n)' <=> Streak(n)'
<1>1. Earned(Revisionist, n)' <=> edits' >= n
  BY TrackAssumption DEF Earned
<1>2. Earned(Creator, n)' <=> created' + erased' >= n
  BY TrackAssumption DEF Earned
<1>3. Earned(Explorer, n)' <=> Cardinality(visited') >= n
  BY TrackAssumption DEF Earned
<1>4. Earned(FunRunner, n)' <=> Streak(n)'
  BY TrackAssumption DEF Earned
<1> QED BY <1>1, <1>2, <1>3, <1>4

LEMMA EarnedGrows ==
  ASSUME TypeOK, TypeOK', Grown, NEW track \in Tracks, NEW n \in Nat, Earned(track, n)
  PROVE  Earned(track, n)'
<1>1. /\ edits \in Nat /\ edits' \in Nat /\ created \in Nat /\ created' \in Nat
      /\ erased \in Nat /\ erased' \in Nat
      /\ edits <= edits' /\ created <= created' /\ erased <= erased'
  BY DEF TypeOK, Grown
<1>2. /\ Cardinality(visited) \in Nat /\ Cardinality(visited') \in Nat
      /\ Cardinality(visited) <= Cardinality(visited')
  <2>1. visited \in SUBSET visited' /\ IsFiniteSet(visited')
    BY DEF Grown
  <2> QED BY <2>1, FS_Subset, FS_CardinalityType
<1>3. CASE track = Revisionist
  <2>1. edits' >= n
    BY <1>1, <1>3, EarnedIs
  <2> QED BY <1>3, <2>1, EarnedThen
<1>4. CASE track = Creator
  <2>0. \A a, b, c, d, m \in Nat : a + b >= m /\ a <= c /\ b <= d => c + d >= m
    OBVIOUS
  <2>1. created' + erased' >= n
    BY <1>1, <1>4, <2>0, EarnedIs
  <2> QED BY <1>4, <2>1, EarnedThen
<1>5. CASE track = Explorer
  <2>1. Cardinality(visited') >= n
    BY <1>2, <1>5, EarnedIs
  <2> QED BY <1>5, <2>1, EarnedThen
<1>6. CASE track = FunRunner
  <2>1. Streak(n)
    BY <1>6, EarnedIs
  <2>2. Streak(n)'
    BY <2>1 DEF Streak, Grown
  <2> QED BY <1>6, <2>2, EarnedThen
<1> QED BY <1>3, <1>4, <1>5, <1>6 DEF Tracks

\* What a track is measured by was earned.
LEMMA MeasuredIsEarned ==
  ASSUME TypeOK, TransInv, IsFiniteSet(visited), NEW track \in Tracks, NEW signal \in Signals(track),
         NEW n \in Nat \ {0}, n <= signal
  PROVE  Earned(track, n)
<1>1. CASE track = Revisionist
  <2>1. signal = applied
    BY <1>1, TrackAssumption DEF Signals
  <2>2. edits >= n
    BY <2>1 DEF TypeOK, TransInv
  <2> QED BY <1>1, <2>2, EarnedIs
<1>2. CASE track = Creator
  <2>1. signal = created + erased
    BY <1>2, TrackAssumption DEF Signals
  <2>2. created + erased >= n
    BY <2>1 DEF TypeOK
  <2> QED BY <1>2, <2>2, EarnedIs
<1>3. CASE track = Explorer
  <2>1. signal = Cardinality(visited)
    BY <1>3, TrackAssumption DEF Signals
  <2>2. Cardinality(visited) >= n
    BY <2>1, FS_CardinalityType
  <2> QED BY <1>3, <2>2, EarnedIs
<1>4. CASE track = FunRunner
  <2>1. signal \in {Consecutive(list) : list \in DayLists}
    BY <1>4, TrackAssumption DEF Signals
  <2>2. PICK list \in DayLists : signal = Consecutive(list)
    BY <2>1
  <2>3. Streak(n)
    BY <2>2, RunOfDays DEF TransInv
  <2> QED BY <1>4, <2>3, EarnedIs
<1> QED BY <1>1, <1>2, <1>3, <1>4 DEF Tracks

LEMMA EarnedOnlyIs ==
  EarnedOnly <=> \A track \in Tracks : \A t \in Tiers[track] :
                   Unlocked(t.award) => Earned(track, t.threshold)
BY DEF EarnedOnly, Earned

LEMMA EarnedOnlyThen ==
  EarnedOnly' <=> \A track \in Tracks : \A t \in Tiers[track] :
                    Unlocked(t.award)' => Earned(track, t.threshold)'
BY DEF EarnedOnly, Earned

LEMMA KeepsEarned ==
  ASSUME TypeInv, TypeOK', EarnedInv, Grown,
         \A a \in Awards : Unlocked(a)' =>
           Unlocked(a) \/ \E w \in Workers : \E o \in task[w].open : o.tier.award = a,
         \A w \in Workers : \A o \in task'[w].open :
           \/ \E p \in task[w].open : p.tier = o.tier /\ Head(task'[w].tracks) = Head(task[w].tracks)
           \/ /\ Head(task'[w].tracks) \in Tracks /\ o.tier.threshold \in Nat
              /\ Earned(Head(task'[w].tracks), o.tier.threshold)
  PROVE  EarnedInv'
<1>1. TypeOK
  BY DEF TypeInv
<1>2. \A track \in Tracks : \A n \in Nat : Earned(track, n) => Earned(track, n)'
  BY <1>1, EarnedGrows
<1>3. \A w \in Workers : \A o \in task[w].open :
        /\ Head(task[w].tracks) \in Tracks /\ o.tier \in Tiers[Head(task[w].tracks)]
        /\ o.tier.threshold \in Nat /\ Earned(Head(task[w].tracks), o.tier.threshold)
  <2> SUFFICES ASSUME NEW w \in Workers, NEW o \in task[w].open
               PROVE  /\ Head(task[w].tracks) \in Tracks /\ o.tier \in Tiers[Head(task[w].tracks)]
                      /\ o.tier.threshold \in Nat /\ Earned(Head(task[w].tracks), o.tier.threshold)
    OBVIOUS
  <2>1. /\ Head(task[w].tracks) \in Tracks /\ o.tier \in Tiers[Head(task[w].tracks)]
        /\ o.tier.threshold \in Nat
    BY OpenFacts
  <2>2. Earned(Head(task[w].tracks), o.tier.threshold)
    BY DEF EarnedInv
  <2> QED BY <2>1, <2>2
<1>4. EarnedOnly'
  <2> SUFFICES ASSUME NEW track \in Tracks, NEW t \in Tiers[track], Unlocked(t.award)'
               PROVE  Earned(track, t.threshold)'
    BY EarnedOnlyThen
  <2>1. t.award \in Awards /\ t.threshold \in Nat
    BY TierFacts
  <2>2. CASE Unlocked(t.award)
    <3>1. Earned(track, t.threshold)
      BY <2>2, EarnedOnlyIs DEF EarnedInv
    <3> QED BY <1>2, <2>1, <3>1
  <2>3. CASE \E w \in Workers : \E o \in task[w].open : o.tier.award = t.award
    <3>1. PICK w \in Workers : \E o \in task[w].open : o.tier.award = t.award
      BY <2>3
    <3>2. PICK o \in task[w].open : o.tier.award = t.award
      BY <3>1
    <3>3. track = Head(task[w].tracks) /\ t = o.tier
      BY <1>3, <3>2, SameTier
    <3>4. Earned(track, t.threshold)
      BY <1>3, <3>3
    <3> QED BY <1>2, <2>1, <3>4
  <2> QED BY <2>1, <2>2, <2>3
<1>5. ASSUME NEW w \in Workers, NEW o \in task'[w].open
      PROVE  Earned(Head(task[w].tracks), o.tier.threshold)'
  <2>1. PICK track : track = Head(task'[w].tracks)
    OBVIOUS
  <2>2. track \in Tracks /\ o.tier.threshold \in Nat /\ Earned(track, o.tier.threshold)
    BY <1>3, <1>5, <2>1
  <2>3. Earned(track, o.tier.threshold)'
    BY <1>2, <2>2
  <2> QED BY <2>1, <2>3 DEF Earned
<1> QED BY <1>4, <1>5 DEF EarnedInv, Grown

LEMMA StaysGrown ==
  ASSUME TypeOK, EarnedInv, UNCHANGED <<edits, created, erased, edited, visited>>
  PROVE  Grown
<1>1. edits <= edits' /\ created <= created' /\ erased <= erased'
  BY DEF TypeOK
<1> QED BY <1>1 DEF Grown, EarnedInv

LEMMA BeginKeepsEarned ==
  ASSUME TypeInv, TypeOK', EarnedInv, NEW w \in Workers, NEW tracks \in {EditTracks, <<Explorer>>},
         BeginAwards(w, tracks), UNCHANGED unlocks, Grown
  PROVE  EarnedInv'
<1>1. PICK t \in Task : /\ t.open = {} /\ task' = [task EXCEPT ![w] = t]
  BY BeginAwardsFacts
<1>2. \A v \in Workers : task'[v] = IF v = w THEN t ELSE task[v]
  BY <1>1 DEF TypeInv, TypeOK
<1>3. \A v \in Workers : task'[v].open = {} \/ task'[v] = task[v]
  BY <1>1, <1>2
<1>4. \A a \in Awards : Unlocked(a)' => Unlocked(a)
  BY DEF Unlocked
<1>5. \A v \in Workers : \A o \in task'[v].open :
        \E p \in task[v].open : p.tier = o.tier /\ Head(task'[v].tracks) = Head(task[v].tracks)
  BY <1>3
<1> QED BY <1>4, <1>5, KeepsEarned

LEMMA MeasureKeepsEarned ==
  ASSUME TypeInv, TransInv, TypeOK', EarnedInv, NEW w \in Workers, Measure(w)
  PROVE  EarnedInv'
<1>1. PICK signal \in Signals(Head(task[w].tracks)) : Progress(w, Opened(w, signal))
  BY DEF Measure, Opened
<1>2. w \in Busy("award") /\ UNCHANGED <<unlocks, titles>>
  BY DEF Measure, tables
<1>3. PICK open : open = Opened(w, signal)
  OBVIOUS
<1>4. /\ open \in SUBSET Opens
      /\ \A o \in open : o.tier \in Tiers[Head(task[w].tracks)] /\ o.tier.threshold <= signal
  BY <1>2, <1>3, MeasureOpens
<1>5. /\ \A v \in Workers : v # w => task'[v] = task[v]
      /\ task'[w].open = open /\ UNCHANGED <<counts, day, visited>>
      /\ open # {} => task'[w].kind = "award" /\ task'[w].tracks = task[w].tracks
  BY <1>1, <1>2, <1>3, <1>4, MovedOn
<1>6. Grown
  BY <1>5, StaysGrown DEF TypeInv, counts
<1>7. Head(task[w].tracks) \in Tracks
  <2>1. PICK n \in Task : MovesOn(w, open, n)
    BY <1>1, <1>2, <1>3, <1>4, ProgressFacts
  <2> QED BY <2>1 DEF MovesOn
<1>8. \A v \in Workers : \A o \in task'[v].open :
        \/ \E p \in task[v].open : p.tier = o.tier /\ Head(task'[v].tracks) = Head(task[v].tracks)
        \/ /\ Head(task'[v].tracks) \in Tracks /\ o.tier.threshold \in Nat
           /\ Earned(Head(task'[v].tracks), o.tier.threshold)
  <2> SUFFICES ASSUME NEW v \in Workers, NEW o \in task'[v].open, v = w
               PROVE  /\ Head(task'[v].tracks) \in Tracks /\ o.tier.threshold \in Nat
                      /\ Earned(Head(task'[v].tracks), o.tier.threshold)
    BY <1>5
  <2>1. /\ o \in open /\ task'[v].tracks = task[w].tracks
        /\ o.tier \in Tiers[Head(task[w].tracks)] /\ o.tier.threshold <= signal
    BY <1>4, <1>5
  <2>2. o.tier.threshold \in Nat \ {0}
    BY <1>7, <2>1, TierFacts
  <2>3. Earned(Head(task[w].tracks), o.tier.threshold)
    BY <1>7, <2>1, <2>2, MeasuredIsEarned DEF TypeInv, EarnedInv
  <2> QED BY <1>7, <2>1, <2>2, <2>3
<1>9. \A a \in Awards : Unlocked(a)' => Unlocked(a)
  BY <1>2 DEF Unlocked
<1> QED BY <1>6, <1>8, <1>9, KeepsEarned

LEMMA AwardKeepsEarned ==
  ASSUME TypeInv, TypeOK', EarnedInv, NEW w \in Workers, Award(w)
  PROVE  EarnedInv'
<1>1. PICK o \in task[w].open :
        /\ w \in Busy("award") /\ Progress(w, Left(w, o))
        /\ \A a \in Awards :
             IF o.step = "insert" /\ a = o.tier.award
             THEN unlocks'[a] = Append(unlocks[a], 0) ELSE unlocks'[a] = unlocks[a]
  BY AwardWrites
<1>2. /\ Left(w, o) \in SUBSET Opens
      /\ \A p \in Left(w, o) : \E q \in task[w].open : q.tier = p.tier
  BY LeftFacts
<1>3. /\ \A v \in Workers : v # w => task'[v] = task[v]
      /\ task'[w].open = Left(w, o) /\ UNCHANGED <<counts, day, visited>>
      /\ Left(w, o) # {} => task'[w].tracks = task[w].tracks
  BY <1>1, <1>2, MovedOn
<1>4. Grown
  BY <1>3, StaysGrown DEF TypeInv, counts
<1>5. \A a \in Awards : Unlocked(a)' =>
        Unlocked(a) \/ \E v \in Workers : \E p \in task[v].open : p.tier.award = a
  BY <1>1 DEF Unlocked
<1>6. \A v \in Workers : \A p \in task'[v].open :
        \E q \in task[v].open : q.tier = p.tier /\ Head(task'[v].tracks) = Head(task[v].tracks)
  BY <1>2, <1>3
<1> QED BY <1>4, <1>5, <1>6, KeepsEarned

LEMMA NextKeepsEarned ==
  ASSUME TypeInv, TransInv, EarnedInv, [Next]_vars
  PROVE  EarnedInv'
<1>0. TypeInv' /\ TypeOK'
  BY NextKeepsTypeInv DEF TypeInv
<1>1. ASSUME UNCHANGED <<edits, created, erased, edited, visited>>,
             \A a \in Awards : Unlocked(a)' => Unlocked(a),
             \A w \in Workers : task'[w].open = {} \/ task'[w] = task[w]
      PROVE  EarnedInv'
  <2>1. Grown
    BY <1>1, StaysGrown DEF TypeInv
  <2>2. \A w \in Workers : \A o \in task'[w].open :
          \E p \in task[w].open : p.tier = o.tier /\ Head(task'[w].tracks) = Head(task[w].tracks)
    BY <1>1
  <2> QED BY <1>0, <1>1, <2>1, <2>2, KeepsEarned
<1>2. CASE UNCHANGED vars \/ NextDay
  BY <1>1, <1>2 DEF vars, NextDay, counts, tables, Unlocked
<1>3. ASSUME NEW w \in Workers, (\E change \in Changes : Edit(w, change)) \/ Commit(w)
      PROVE  EarnedInv'
  <2>1. /\ edits' \in {edits, edits + 1} /\ created' \in {created, created + 1}
        /\ erased' \in {erased, erased + 1} /\ edited \subseteq edited' /\ visited' = visited
        /\ UNCHANGED unlocks
        /\ Quiet(w) \/ BeginAwards(w, EditTracks)
    <3>1. CASE \E change \in Changes : Edit(w, change)
      BY <3>1, EditFacts DEF counts, Quiet
    <3>2. CASE Commit(w)
      BY <3>2, CommitFacts
    <3> QED BY <1>3, <3>1, <3>2
  <2>2. edits <= edits' /\ created <= created' /\ erased <= erased'
    BY <2>1 DEF TypeInv, TypeOK
  <2>3. Grown
    BY <2>1, <2>2 DEF Grown, EarnedInv
  <2>4. CASE Quiet(w)
    <3>1. \A a \in Awards : Unlocked(a)' => Unlocked(a)
      BY <2>1 DEF Unlocked
    <3>2. \A v \in Workers : \A o \in task'[v].open :
            \E p \in task[v].open : p.tier = o.tier /\ Head(task'[v].tracks) = Head(task[v].tracks)
      <4> SUFFICES ASSUME NEW v \in Workers, NEW o \in task'[v].open
                   PROVE  o \in task[v].open /\ task'[v] = task[v]
        OBVIOUS
      <4>1. o \in task[v].open
        BY <2>4, QuietFacts DEF Still
      <4>2. v \in Busy("award")
        BY <4>1, OpenFacts
      <4> QED BY <2>4, <4>1, <4>2, QuietFacts DEF Still
    <3> QED BY <1>0, <2>3, <3>1, <3>2, KeepsEarned
  <2>5. CASE BeginAwards(w, EditTracks)
    BY <1>0, <2>1, <2>3, <2>5, BeginKeepsEarned
  <2> QED BY <2>1, <2>4, <2>5
<1>4. ASSUME NEW w \in Workers, NEW x \in Entities, Visit(w, x)
      PROVE  EarnedInv'
  <2>1. /\ visited' = visited \cup {x} /\ UNCHANGED <<edits, created, erased, edited, unlocks>>
        /\ BeginAwards(w, <<Explorer>>)
    BY <1>4 DEF Visit, counts, tables
  <2>2. edits <= edits' /\ created <= created' /\ erased <= erased'
    BY <2>1 DEF TypeInv, TypeOK
  <2>3. IsFiniteSet(visited')
    BY <2>1, FS_AddElement DEF EarnedInv
  <2>4. Grown
    BY <2>1, <2>2, <2>3 DEF Grown
  <2> QED BY <1>0, <2>1, <2>4, BeginKeepsEarned
<1>5. CASE Ranking
  <2>1. RankMoves
    BY <1>5, RankingMoves
  <2>2. Grown
    BY <2>1, StaysGrown DEF RankMoves, counts, TypeInv
  <2>3. \A a \in Awards : Unlocked(a)' => Unlocked(a)
    BY <1>0, <2>1, SameRows DEF RankMoves, Still
  <2>4. \A w \in Workers : \A o \in task'[w].open :
          \E p \in task[w].open : p.tier = o.tier /\ Head(task'[w].tracks) = Head(task[w].tracks)
    <3> SUFFICES ASSUME NEW w \in Workers, NEW o \in task'[w].open
                 PROVE  o \in task[w].open /\ task'[w] = task[w]
      OBVIOUS
    <3>1. o \in task[w].open
      BY <2>1 DEF RankMoves, Still
    <3>2. w \in Busy("award")
      BY <3>1, OpenFacts
    <3> QED BY <2>1, <3>1, <3>2 DEF RankMoves, Still
  <2> QED BY <1>0, <2>2, <2>3, <2>4, KeepsEarned
<1>6. CASE Crash
  <2>1. \A w \in Workers : task'[w].open = {}
    BY <1>6, IdleType DEF Crash
  <2>2. UNCHANGED <<edits, created, erased, edited, visited, unlocks>>
    BY <1>6 DEF Crash, counts, tables
  <2> QED BY <1>1, <2>1, <2>2 DEF Unlocked
<1> QED BY <1>0, <1>2, <1>3, <1>4, <1>5, <1>6, MeasureKeepsEarned, AwardKeepsEarned
        DEF Next, Ranking

LEMMA InitEarned == Init => EarnedInv
<1> SUFFICES ASSUME Init PROVE EarnedInv
  OBVIOUS
<1>1. \A w \in Workers : task[w].open = {}
  BY IdleType DEF Init
<1>2. \A track \in Tracks : \A t \in Tiers[track] : ~Unlocked(t.award)
  BY TierFacts DEF Init, Unlocked
<1>3. IsFiniteSet(visited)
  BY FS_EmptySet DEF Init
<1> QED BY <1>1, <1>2, <1>3, EarnedOnlyIs DEF EarnedInv

----------------------------------------------------------------------------
(* What was earned is unlocked, or under way.                              *)

LEMMA ExpectedIs ==
  ASSUME NEW n
  PROVE  /\ Expected(Revisionist, n) <=> edits >= n /\ ~overlapped
         /\ Expected(Creator, n) <=> created >= n
         /\ Expected(Explorer, n) <=> Cardinality(visited) >= n
         /\ ~Expected(FunRunner, n)
<1>1. Expected(Revisionist, n) <=> edits >= n /\ ~overlapped
  BY TrackAssumption DEF Expected
<1>2. Expected(Creator, n) <=> created >= n
  BY TrackAssumption DEF Expected
<1>3. Expected(Explorer, n) <=> Cardinality(visited) >= n
  BY TrackAssumption DEF Expected
<1>4. ~Expected(FunRunner, n)
  BY TrackAssumption DEF Expected
<1> QED BY <1>1, <1>2, <1>3, <1>4

LEMMA ExpectedThen ==
  ASSUME NEW n
  PROVE  /\ Expected(Revisionist, n)' <=> edits' >= n /\ ~overlapped'
         /\ Expected(Creator, n)' <=> created' >= n
         /\ Expected(Explorer, n)' <=> Cardinality(visited') >= n
         /\ ~Expected(FunRunner, n)'
<1>1. Expected(Revisionist, n)' <=> edits' >= n /\ ~overlapped'
  BY TrackAssumption DEF Expected
<1>2. Expected(Creator, n)' <=> created' >= n
  BY TrackAssumption DEF Expected
<1>3. Expected(Explorer, n)' <=> Cardinality(visited') >= n
  BY TrackAssumption DEF Expected
<1>4. ~Expected(FunRunner, n)'
  BY TrackAssumption DEF Expected
<1> QED BY <1>1, <1>2, <1>3, <1>4

\* What may be expected of a track only changes with the commits and visits that are
\* followed by a request for it, or leave it in missed.
LEMMA SameExpected ==
  ASSUME NEW track \in Tracks, NEW n,
         track = Revisionist => edits' = edits /\ overlapped' = overlapped,
         track = Creator => created' = created,
         track = Explorer => visited' = visited
  PROVE  Expected(track, n)' <=> Expected(track, n)
<1>1. CASE track = Revisionist
  BY <1>1, ExpectedIs, ExpectedThen
<1>2. CASE track = Creator
  BY <1>2, ExpectedIs, ExpectedThen
<1>3. CASE track = Explorer
  BY <1>3, ExpectedIs, ExpectedThen
<1>4. CASE track = FunRunner
  BY <1>4, ExpectedIs, ExpectedThen
<1> QED BY <1>1, <1>2, <1>3, <1>4 DEF Tracks

\* And is what the track is measured by, or less.
LEMMA ExpectedIsMeasured ==
  ASSUME TypeOK, TransInv, NEW track \in Tracks, NEW signal \in Signals(track), NEW n \in Nat,
         Expected(track, n), IsFiniteSet(visited)
  PROVE  n <= signal
<1>1. CASE track = Revisionist
  <2>1. signal = applied
    BY <1>1, TrackAssumption DEF Signals
  <2>2. edits >= n /\ ~overlapped
    BY <1>1, ExpectedIs
  <2>3. applied = edits
    BY <2>2 DEF TransInv
  <2> QED BY <2>1, <2>2, <2>3 DEF TypeOK
<1>2. CASE track = Creator
  <2>1. signal = created + erased
    BY <1>2, TrackAssumption DEF Signals
  <2>2. created >= n
    BY <1>2, ExpectedIs
  <2>3. created \in Nat /\ erased \in Nat
    BY DEF TypeOK
  <2> QED BY <2>1, <2>2, <2>3
<1>3. CASE track = Explorer
  <2>1. signal = Cardinality(visited)
    BY <1>3, TrackAssumption DEF Signals
  <2>2. Cardinality(visited) >= n /\ Cardinality(visited) \in Nat
    BY <1>3, ExpectedIs, FS_CardinalityType
  <2> QED BY <2>1, <2>2
<1>4. CASE track = FunRunner
  BY <1>4, ExpectedIs
<1> QED BY <1>1, <1>2, <1>3, <1>4 DEF Tracks

\* Rows are never taken away.
DoneStays ==
  /\ \A a \in Awards : Unlocked(a) => Unlocked(a)'
  /\ \A t \in Titles : titles[t] > 0 => titles'[t] > 0

LEMMA KeepsCovered ==
  ASSUME NEW track \in Tracks, Covered(track), DoneStays,
         \A t \in Tiers[track] : Expected(track, t.threshold)' => Expected(track, t.threshold),
         \A w \in Workers : \A t \in Tiers[track] :
           DueAt(w, track, t) => Done(t)' \/ \E v \in Workers : DueAt(v, track, t)'
  PROVE  Covered(track)'
<1> SUFFICES ASSUME NEW t \in Tiers[track], Expected(track, t.threshold)'
             PROVE  Done(t)' \/ \E v \in Workers : DueAt(v, track, t)'
  BY DEF Covered
<1>1. t.award \in Awards /\ t.title \in Titles \cup {NoTitle}
  BY TierFacts
<1>2. Done(t) => Done(t)'
  BY <1>1 DEF Done, DoneStays
<1> QED BY <1>2 DEF Covered

LEMMA DueSame ==
  ASSUME NEW w \in Workers, NEW track, NEW t, task'[w] = task[w], DueAt(w, track, t)
  PROVE  DueAt(w, track, t)'
BY DEF DueAt, Busy, Pending

LEMMA DueKind ==
  ASSUME NEW w \in Workers, NEW track, NEW t, DueAt(w, track, t)
  PROVE  task[w].kind = "award" /\ w \in Busy("award") /\ track \in Pending(w)
BY DEF DueAt, Busy

LEMMA BeginKeepsMissed ==
  ASSUME TypeInv, MissedInv, NEW w \in Workers, NEW tracks \in {EditTracks, <<Explorer>>},
         task[w].kind \in {"idle", "edit"},
         BeginAwards(w, tracks), UNCHANGED <<unlocks, titles, missed>>,
         \A track \in Tracks : (\A k \in DOMAIN tracks : tracks[k] # track) =>
           \A n : Expected(track, n)' => Expected(track, n)
  PROVE  MissedInv'
<1>1. PICK b \in Task :
        /\ b.kind = "award" /\ b.open = {} /\ b.tracks = tracks
        /\ task' = [task EXCEPT ![w] = b]
  BY BeginAwardsFacts
<1>2. \A v \in Workers : task'[v] = IF v = w THEN b ELSE task[v]
  BY <1>1 DEF TypeInv, TypeOK
<1>3. Pending(w)' = PendingOf(b) /\ w \in Busy("award")'
  BY <1>1, <1>2 DEF Pending, PendingOf, Busy
<1>5. DoneStays
  BY DEF DoneStays, Unlocked
<1> SUFFICES ASSUME NEW track \in Tracks \ missed'
             PROVE  Covered(track)'
  BY DEF MissedInv
<1>6. CASE track \in PendingOf(b)
  <2>1. \A t \in Tiers[track] : DueAt(w, track, t)'
    BY <1>1, <1>2, <1>3, <1>6 DEF DueAt
  <2> QED BY <2>1 DEF Covered
<1>7. CASE track \notin PendingOf(b)
  <2>2. Covered(track)
    BY DEF MissedInv
  <2>3. \A n : Expected(track, n)' => Expected(track, n)
    BY <1>1, <1>7 DEF PendingOf
  <2>4. \A v \in Workers : \A t \in Tiers[track] : DueAt(v, track, t) => DueAt(v, track, t)'
    <3> SUFFICES ASSUME NEW v \in Workers, NEW t \in Tiers[track], DueAt(v, track, t)
                 PROVE  DueAt(v, track, t)'
      OBVIOUS
    <3>1. v # w
      BY DueKind
    <3> QED BY <1>2, <3>1, DueSame
  <2> QED BY <1>5, <2>2, <2>3, <2>4, KeepsCovered
<1> QED BY <1>6, <1>7

\* What leaves the requests for awards alone keeps what is covered.
LEMMA StillKeepsMissed ==
  ASSUME TypeInv, TypeInv', MissedInv, Still, missed \subseteq missed',
         \A track \in Tracks \ missed' : \A n : Expected(track, n)' => Expected(track, n)
  PROVE  MissedInv'
<1>1. DoneStays
  <2>1. \A a \in Awards : Unlocked(a) => Unlocked(a)'
    BY SameRows DEF Still
  <2> QED BY <2>1 DEF DoneStays, Still
<1> SUFFICES ASSUME NEW track \in Tracks \ missed'
             PROVE  Covered(track)'
  BY DEF MissedInv
<1>4. Covered(track)
  BY DEF MissedInv
<1>6. \A v \in Workers : \A t \in Tiers[track] : DueAt(v, track, t) => DueAt(v, track, t)'
  <2> SUFFICES ASSUME NEW v \in Workers, NEW t \in Tiers[track], DueAt(v, track, t)
               PROVE  DueAt(v, track, t)'
    OBVIOUS
  <2>1. v \in Busy("award")
    BY DueKind
  <2>2. task'[v] = task[v]
    BY <2>1 DEF Still
  <2> QED BY <2>2, DueSame
<1> QED BY <1>1, <1>4, <1>6, KeepsCovered

\* A request that goes on leaves the other tracks as they are.
LEMMA OtherTracks ==
  ASSUME TypeInv, NEW w \in Workers, w \in Busy("award"), NEW open \in SUBSET Opens,
         Progress(w, open), NEW track \in Tracks
  PROVE  /\ \A v \in Workers : \A t : DueAt(v, track, t) =>
              DueAt(v, track, t)' \/ (v = w /\ track = Head(task[w].tracks))
         /\ open # {} => w \in Busy("award")' /\ Head(task[w].tracks) \in Pending(w)'
<1>1. PICK n \in Task : MovesOn(w, open, n)
  BY ProgressFacts
<1>2. PICK h : h = Head(task[w].tracks)
  OBVIOUS
<1>3. \A v \in Workers : task'[v] = IF v = w THEN n ELSE task[v]
  BY <1>1 DEF MovesOn, TypeInv, TypeOK
<1>4. /\ n.kind \in {"idle", "award"} /\ n.open = open
      /\ open # {} => n.kind = "award" /\ n.tracks = task[w].tracks
      /\ open = {} => /\ n.kind = "award" => PendingOf(n) = Pending(w) \ {h}
                      /\ n.kind = "idle" => Pending(w) = {h}
      /\ n.kind = "award" => PendingOf(n) \subseteq Pending(w)
      /\ h \in Pending(w)
  BY <1>1, <1>2 DEF MovesOn
<1>5. Pending(w)' = PendingOf(n)
  BY <1>3 DEF Pending, PendingOf
<1>8. ASSUME NEW v \in Workers, NEW t, DueAt(v, track, t), v # w \/ track # h
      PROVE  DueAt(v, track, t)'
  <2>1. CASE v # w
    BY <1>3, <1>8, <2>1, DueSame
  <2>2. CASE v = w /\ track # h
    <3>1. track \in Pending(w)
      BY <1>8, <2>2, DueKind
    <3>2. n.kind = "award" /\ track \in PendingOf(n)
      <4>1. CASE open # {}
        <5>1. PendingOf(n) = Pending(w)
          BY <1>4, <4>1 DEF PendingOf, Pending
        <5> QED BY <1>4, <3>1, <4>1, <5>1
      <4>2. CASE open = {}
        BY <1>4, <2>2, <3>1, <4>2
      <4> QED BY <4>1, <4>2
    <3>3. w \in Busy("award")' /\ track \in Pending(w)'
      BY <1>3, <1>5, <3>2 DEF Busy
    <3>4. task'[w].open = {} \/ Head(task'[w].tracks) # track
      BY <1>2, <1>3, <1>4, <2>2
    <3> QED BY <2>2, <3>3, <3>4 DEF DueAt
  <2> QED BY <1>8, <2>1, <2>2
<1>9. open # {} => w \in Busy("award")' /\ h \in Pending(w)'
  <2> HAVE open # {}
  <2>1. n.kind = "award" /\ n.tracks = task[w].tracks
    BY <1>4
  <2>2. PendingOf(n) = Pending(w)
    BY <2>1 DEF PendingOf, Pending
  <2> QED BY <1>3, <1>4, <1>5, <2>1, <2>2 DEF Busy
<1> QED BY <1>2, <1>8, <1>9

LEMMA MeasureKeepsMissed ==
  ASSUME TypeInv, TransInv, EarnedInv, MissedInv, NEW w \in Workers, Measure(w)
  PROVE  MissedInv'
<1>1. PICK signal \in Signals(Head(task[w].tracks)) : Progress(w, Opened(w, signal))
  BY DEF Measure, Opened
<1>2. w \in Busy("award") /\ UNCHANGED <<unlocks, titles>>
  BY DEF Measure, tables
<1>3. PICK open : open = Opened(w, signal)
  OBVIOUS
<1>4. /\ open \in SUBSET Opens
      /\ \A t \in Tiers[Head(task[w].tracks)] : t.threshold <= signal => \E o \in open : o.tier = t
  BY <1>2, <1>3, MeasureOpens
<1>5. task'[w].open = open /\ UNCHANGED <<counts, day, visited>>
  BY <1>1, <1>2, <1>3, <1>4, MovedOn
<1>6. DoneStays
  BY <1>2 DEF DoneStays, Unlocked
<1> SUFFICES ASSUME NEW track \in Tracks \ missed'
             PROVE  Covered(track)'
  BY DEF MissedInv
<1>7. /\ \A v \in Workers : \A t : DueAt(v, track, t) =>
              DueAt(v, track, t)' \/ (v = w /\ track = Head(task[w].tracks))
      /\ open # {} => w \in Busy("award")' /\ Head(task[w].tracks) \in Pending(w)'
  BY <1>1, <1>2, <1>3, <1>4, OtherTracks
<1>8. \A n : Expected(track, n)' <=> Expected(track, n)
  BY <1>5, SameExpected DEF counts
<1>10. CASE track # Head(task[w].tracks)
  <2>1. \A v \in Workers : \A t \in Tiers[track] : DueAt(v, track, t) => DueAt(v, track, t)'
    BY <1>7, <1>10
  <2>2. Covered(track)
    BY <1>10 DEF MissedInv, Measure
  <2> QED BY <1>6, <1>8, <2>1, <2>2, KeepsCovered
<1>11. CASE track = Head(task[w].tracks)
  <2> SUFFICES ASSUME NEW t \in Tiers[track], Expected(track, t.threshold)'
               PROVE  DueAt(w, track, t)'
    BY DEF Covered
  <2>0. t.threshold \in Nat
    BY TierFacts
  <2>1. t.threshold <= signal
    BY <1>1, <1>8, <1>11, <2>0, ExpectedIsMeasured DEF TypeInv, EarnedInv
  <2>2. PICK o \in open : o.tier = t
    BY <1>4, <1>11, <2>1
  <2>3. w \in Busy("award")' /\ track \in Pending(w)'
    BY <1>7, <1>11, <2>2
  <2> QED BY <1>5, <2>2, <2>3 DEF DueAt
<1> QED BY <1>10, <1>11

LEMMA AwardKeepsMissed ==
  ASSUME TypeInv, OnceInv, MissedInv, NEW w \in Workers, Award(w)
  PROVE  MissedInv'
<1>1. PICK o \in task[w].open :
        /\ w \in Busy("award") /\ Progress(w, Left(w, o))
        /\ \A a \in Awards :
             IF o.step = "insert" /\ a = o.tier.award
             THEN unlocks'[a] = Append(unlocks[a], 0) ELSE unlocks'[a] = unlocks[a]
        /\ \A t \in Titles :
             IF o.step = "insert title" /\ t = o.tier.title
             THEN titles'[t] = titles[t] + 1 ELSE titles'[t] = titles[t]
  BY AwardWrites
<1>2. /\ Left(w, o) \in SUBSET Opens /\ o \in Opens
      /\ \A p \in task[w].open : p # o => p \in Left(w, o)
      /\ After(o) # "over" => \E p \in Left(w, o) : p.tier = o.tier
  BY LeftFacts
<1>3. task'[w].open = Left(w, o) /\ UNCHANGED <<counts, day, visited>>
  BY <1>1, <1>2, MovedOn
<1>4. /\ o.tier.award \in Awards /\ o.tier.title \in Titles \cup {NoTitle} /\ o.step \in Steps
      /\ o.step \in {"look title", "insert title"} => o.tier.title # NoTitle
      /\ \A p \in task[w].open : o.tier = p.tier => o = p
      /\ Holds(o, Head(task[w].tracks))
  BY OpenFacts DEF OnceInv
<1>5. /\ \A a \in Awards : Unlocked(a) => Unlocked(a)'
      /\ o.step = "insert" => Unlocked(o.tier.award)'
  <2>1. ASSUME NEW a \in Awards, o.step = "insert", a = o.tier.award
        PROVE  Unlocked(a)'
    <3>1. PICK s : s = Append(unlocks[a], 0)
      OBVIOUS
    <3>2. s # <<>>
      BY <3>1, RowAppended DEF TypeInv
    <3>3. unlocks'[a] = s
      BY <1>1, <2>1, <3>1
    <3> QED BY <3>2, <3>3 DEF Unlocked
  <2>2. ASSUME NEW a \in Awards, ~(o.step = "insert" /\ a = o.tier.award), Unlocked(a)
        PROVE  Unlocked(a)'
    <3>1. unlocks'[a] = unlocks[a]
      BY <1>1, <2>2
    <3> QED BY <2>2, <3>1 DEF Unlocked
  <2> QED BY <1>4, <2>1, <2>2
<1>6. /\ \A t \in Titles : titles[t] > 0 => titles'[t] > 0
      /\ o.step = "insert title" => titles'[o.tier.title] > 0
  <2>1. ASSUME NEW t \in Titles
        PROVE  /\ titles[t] > 0 => titles'[t] > 0
               /\ o.step = "insert title" /\ t = o.tier.title => titles'[t] > 0
    <3>1. titles[t] \in Nat
      BY DEF TypeInv, TypeOK
    <3>2. \/ titles'[t] = titles[t] /\ ~(o.step = "insert title" /\ t = o.tier.title)
          \/ titles'[t] = titles[t] + 1
      BY <1>1
    <3>3. titles[t] + 1 > 0
      BY <3>1
    <3> QED BY <3>2, <3>3
  <2> QED BY <1>4, <2>1
<1>7. DoneStays
  BY <1>5, <1>6 DEF DoneStays
<1>8. After(o) = "over" => Done(o.tier)'
  <2> SUFFICES ASSUME After(o) = "over" PROVE Done(o.tier)'
    OBVIOUS
  <2>1. /\ o.step \in {"look", "insert"} => o.tier.title = NoTitle
        /\ o.step = "look" => Unlocked(o.tier.award)
        /\ o.step = "look title" => titles[o.tier.title] > 0
    BY <1>2, AfterFacts
  <2>2. Unlocked(o.tier.award)'
    <3>1. o.step \in {"look title", "insert title"} => Unlocked(o.tier.award)
      BY <1>4 DEF Holds, Unlocked
    <3> QED BY <1>4, <1>5, <2>1, <3>1 DEF Steps
  <2>3. o.tier.title # NoTitle => titles'[o.tier.title] > 0
    <3> HAVE o.tier.title # NoTitle
    <3>1. o.tier.title \in Titles /\ o.step \in {"look title", "insert title"}
      BY <1>4, <2>1 DEF Steps
    <3> QED BY <1>6, <2>1, <3>1
  <2> QED BY <2>2, <2>3 DEF Done
<1> SUFFICES ASSUME NEW track \in Tracks \ missed'
             PROVE  Covered(track)'
  BY DEF MissedInv
<1>9. /\ \A v \in Workers : \A t : DueAt(v, track, t) =>
              DueAt(v, track, t)' \/ (v = w /\ track = Head(task[w].tracks))
      /\ Left(w, o) # {} => w \in Busy("award")' /\ Head(task[w].tracks) \in Pending(w)'
  BY ZenonT(40), <1>1, <1>2, OtherTracks
<1>10. \A n : Expected(track, n)' <=> Expected(track, n)
  BY <1>3, SameExpected DEF counts
<1>11. Covered(track)
  BY DEF MissedInv, Award
<1>12. ASSUME NEW v \in Workers, NEW t \in Tiers[track], DueAt(v, track, t)
       PROVE  Done(t)' \/ \E u \in Workers : DueAt(u, track, t)'
  <2>1. CASE DueAt(v, track, t)'
    BY <2>1
  <2>2. CASE v = w /\ track = Head(task[w].tracks)
    <3>1. PICK p \in task[w].open : p.tier = t
      BY <1>12, <2>2 DEF DueAt
    <3>2. CASE \E q \in Left(w, o) : q.tier = t
      <4>1. w \in Busy("award")' /\ track \in Pending(w)'
        BY <1>9, <2>2, <3>2
      <4> QED BY <1>3, <3>2, <4>1 DEF DueAt
    <3>3. CASE ~\E q \in Left(w, o) : q.tier = t
      <4>1. p = o
        BY <1>2, <3>1, <3>3
      <4>2. After(o) = "over"
        BY <1>2, <3>1, <3>3, <4>1
      <4> QED BY <1>8, <3>1, <4>1, <4>2
    <3> QED BY <3>2, <3>3
  <2> QED BY <1>9, <1>12, <2>1, <2>2
<1> QED BY <1>7, <1>10, <1>11, <1>12, KeepsCovered

LEMMA CrashKeepsMissed ==
  ASSUME MissedInv, Crash
  PROVE  MissedInv'
<1>3. DoneStays
  BY DEF DoneStays, Unlocked, Crash, tables
<1> SUFFICES ASSUME NEW track \in Tracks \ missed'
             PROVE  Covered(track)'
  BY DEF MissedInv
<1>4. track \notin missed /\ \A v \in Busy("award") : track \notin Pending(v)
  BY DEF Crash
<1>5. Covered(track)
  BY <1>4 DEF MissedInv
<1>6. \A n : Expected(track, n)' <=> Expected(track, n)
  BY SameExpected DEF Crash, counts
<1>7. \A v \in Workers : \A t \in Tiers[track] : ~DueAt(v, track, t)
  BY <1>4, DueKind
<1> QED BY <1>3, <1>5, <1>6, <1>7, KeepsCovered

\* A commit is followed by a request for the tracks of edits, or leaves them in missed if
\* it has changed what may be expected of them.
LEMMA CommitKeepsMissed ==
  ASSUME TypeInv, TypeInv', MissedInv, NEW w \in Workers, Commit(w)
  PROVE  MissedInv'
<1>1. /\ task[w].kind = "edit" /\ visited' = visited /\ UNCHANGED <<unlocks, titles>>
      /\ task[w].change.deletes => created' = created
      /\ \/ BeginAwards(w, EditTracks) /\ missed' = missed
         \/ /\ Quiet(w)
            /\ missed' = missed \cup IF task[w].change.deletes THEN {Revisionist}
                                     ELSE {Revisionist, Creator, FunRunner}
  BY CommitFacts
<1>2. CASE BeginAwards(w, EditTracks) /\ missed' = missed
  <2>1. ASSUME NEW track \in Tracks, \A k \in DOMAIN EditTracks : EditTracks[k] # track
        PROVE  \A n : Expected(track, n)' => Expected(track, n)
    <3>1. track # Revisionist /\ track # Creator
      <4>1. 1 \in DOMAIN EditTracks /\ 2 \in DOMAIN EditTracks
            /\ EditTracks[1] = Revisionist /\ EditTracks[2] = Creator
        BY DEF EditTracks
      <4> QED BY <2>1, <4>1
    <3> QED BY <1>1, <3>1, SameExpected
  <2> QED BY <1>1, <1>2, <2>1, BeginKeepsMissed
<1>3. CASE /\ Quiet(w)
           /\ missed' = missed \cup IF task[w].change.deletes THEN {Revisionist}
                                    ELSE {Revisionist, Creator, FunRunner}
  <2>1. ASSUME NEW track \in Tracks \ missed'
        PROVE  \A n : Expected(track, n)' => Expected(track, n)
    <3>1. track # Revisionist /\ (track = Creator => created' = created)
      BY <1>1, <1>3
    <3> QED BY <1>1, <3>1, SameExpected
  <2>2. Still /\ missed \subseteq missed'
    BY <1>3, QuietFacts
  <2> QED BY <2>1, <2>2, StillKeepsMissed
<1> QED BY <1>1, <1>2, <1>3

LEMMA NextKeepsMissed ==
  ASSUME TypeInv, TransInv, OnceInv, EarnedInv, MissedInv, [Next]_vars
  PROVE  MissedInv'
<1>0. TypeInv'
  BY NextKeepsTypeInv
<1>1. ASSUME Still, UNCHANGED <<counts, visited, missed>>
      PROVE  MissedInv'
  <2>1. \A track \in Tracks \ missed' : \A n : Expected(track, n)' => Expected(track, n)
    BY <1>1, SameExpected DEF counts
  <2> QED BY <1>0, <1>1, <2>1, StillKeepsMissed
<1>2. CASE UNCHANGED vars \/ NextDay
  <2>1. UNCHANGED <<counts, visited, unlocks, titles, task, shared, missed>>
    BY <1>2 DEF vars, NextDay, tables
  <2>2. Still
    BY <2>1 DEF Still, Busy
  <2> QED BY <1>1, <2>1, <2>2
<1>3. ASSUME NEW w \in Workers, NEW change \in Changes, Edit(w, change)
      PROVE  MissedInv'
  BY <1>1, <1>3, EditFacts, QuietFacts
<1>4. ASSUME NEW w \in Workers, NEW x \in Entities, Visit(w, x)
      PROVE  MissedInv'
  <2>1. /\ UNCHANGED <<edits, created, overlapped, unlocks, titles, missed>>
        /\ BeginAwards(w, <<Explorer>>) /\ task[w].kind = "idle"
    BY <1>4 DEF Visit, counts, tables
  <2>2. ASSUME NEW track \in Tracks, \A k \in DOMAIN <<Explorer>> : <<Explorer>>[k] # track
        PROVE  \A n : Expected(track, n)' => Expected(track, n)
    <3>1. track # Explorer
      BY <2>2
    <3> QED BY <2>1, <3>1, SameExpected
  <2> QED BY <2>1, <2>2, BeginKeepsMissed
<1>5. CASE Ranking
  BY <1>1, <1>5, RankingMoves DEF RankMoves
<1> QED BY <1>0, <1>2, <1>3, <1>4, <1>5, CommitKeepsMissed, MeasureKeepsMissed, AwardKeepsMissed,
           CrashKeepsMissed DEF Next, Ranking

LEMMA InitMissed == Init => MissedInv
<1> SUFFICES ASSUME Init, NEW track \in Tracks, NEW t \in Tiers[track]
             PROVE  ~Expected(track, t.threshold)
  BY DEF MissedInv, Covered
<1>1. edits = 0 /\ created = 0 /\ Cardinality(visited) = 0
  BY FS_EmptySet DEF Init
<1>2. t.threshold \in Nat \ {0}
  BY TierFacts
<1>3. ~(0 >= t.threshold)
  BY <1>2
<1> QED BY <1>1, <1>3, ExpectedIs DEF Tracks

LEMMA NothingIsMissed ==
  ASSUME MissedInv
  PROVE  NothingMissed
<1> SUFFICES ASSUME Busy("award") = {}, NEW track \in Tracks \ missed,
                    NEW t \in Tiers[track], Expected(track, t.threshold)
             PROVE  Done(t)
  BY DEF NothingMissed, Done
<1>1. Covered(track)
  BY DEF MissedInv
<1>2. \A w \in Workers : ~DueAt(w, track, t)
  BY DEF DueAt
<1> QED BY <1>1, <1>2 DEF Covered

\* An achievement and its title are unlocked once unless two requests were at their
\* track at the same time, and only when what they take was done. What an editor may
\* expect (Expected) is unlocked once no request for awards is running, unless a crash, a
\* form that failed or a deletion left the track to its next request: for any tracks,
\* tiers and thresholds, any number of requests and transactions at the same time, and
\* crashes anywhere (achievement.js, utils.ts incrementEditorEditCountById).
THEOREM AwardsAsEarned == Spec => []UnlockedAsEarned
<1>1. Init => AwardInv
  BY InitTypeInv, InitTrans, InitOnce, InitEarned, InitMissed DEF AwardInv
<1>2. AwardInv /\ [Next]_vars => AwardInv'
  BY NextKeepsTypeInv, NextKeepsTrans, NextKeepsOnce, NextKeepsEarned, NextKeepsMissed
  DEF AwardInv
<1>3. AwardInv => UnlockedAsEarned
  BY NothingIsMissed DEF AwardInv, OnceInv, EarnedInv, UnlockedAsEarned
<1> QED BY <1>1, <1>2, <1>3, PTL DEF Spec

----------------------------------------------------------------------------
(* Ranks.                                                                  *)

LEMMA HoldersAre ==
  ASSUME NEW r
  PROVE  /\ \A h \in Holders(r) : /\ h = <<h[1], h[2]>> /\ h[1] \in Awards
                                  /\ h[2] \in DOMAIN unlocks[h[1]] /\ unlocks[h[1]][h[2]] = r
         /\ \A a \in Awards : \A k \in DOMAIN unlocks[a] :
              unlocks[a][k] = r => <<a, k>> \in Holders(r)
BY DEF Holders

LEMMA HoldersThen ==
  ASSUME NEW r
  PROVE  /\ \A h \in Holders(r)' : /\ h = <<h[1], h[2]>> /\ h[1] \in Awards
                                   /\ h[2] \in DOMAIN unlocks'[h[1]] /\ unlocks'[h[1]][h[2]] = r
         /\ \A a \in Awards : \A k \in DOMAIN unlocks'[a] :
              unlocks'[a][k] = r => <<a, k>> \in Holders(r)'
BY DEF Holders

LEMMA RestKeepsRanks ==
  ASSUME RankInv, crossed' = crossed, \A r \in Ranks : Holders(r)' = Holders(r),
         \A w \in Workers : w \in Busy("rank")' => w \in Busy("rank") /\ task'[w] = task[w]
  PROVE  RankInv'
<1> SUFFICES ASSUME ~crossed PROVE RankInv'
  BY DEF RankInv
<1>1. \A v, w \in Busy("rank")' : v = w
  BY DEF RankInv, Busy
<1>2. \A r \in Ranks : \A g, h \in Holders(r)' : g = h
  BY DEF RankInv
<1>3. ASSUME NEW w \in Busy("rank")', NEW r \in Ranks
      PROVE  Ranked(task'[w], r, Holders(r)')
  <2>1. w \in Busy("rank") /\ task'[w] = task[w]
    BY <1>3 DEF Busy
  <2>2. Ranked(task[w], r, Holders(r))
    BY <2>1 DEF RankInv
  <2> QED BY <2>1, <2>2
<1> QED BY <1>1, <1>2, <1>3 DEF RankInv

LEMMA RankBegins ==
  ASSUME TypeInv, RankInv, NEW w \in Workers, NEW form \in Forms, Rank(w, form)
  PROVE  RankInv'
<1>1. PICK t : t = RankTask(form)
  OBVIOUS
<1>2. t.kind = "rank" /\ t.slot = 1 /\ t.phase = "fetch"
  BY <1>1, RankTaskFacts
<1>3. /\ task' = [task EXCEPT ![w] = t] /\ UNCHANGED unlocks
      /\ crossed' = (crossed \/ Busy("rank") # {})
  BY <1>1 DEF Rank, Begin, RankTask, tables
<1> SUFFICES ASSUME ~crossed' PROVE RankInv'
  BY DEF RankInv
<1>4. ~crossed /\ Busy("rank") = {}
  BY <1>3
<1>5. task'[w] = t /\ \A v \in Busy("rank")' : v = w
  <2>1. \A v \in Workers : task'[v] = IF v = w THEN t ELSE task[v]
    BY <1>3 DEF TypeInv, TypeOK
  <2> QED BY <1>4, <2>1 DEF Busy
<1>6. \A r \in Ranks : \A g, h \in Holders(r)' : g = h
  BY <1>3, <1>4 DEF RankInv, Holders
<1>7. \A r \in Ranks : Ranked(t, r, Holders(r)')
  <2>1. \A r \in Ranks : ~(r < 1)
    BY DEF Ranks
  <2> QED BY <1>2, <2>1 DEF Ranked
<1> QED BY <1>5, <1>6, <1>7 DEF RankInv

LEMMA FetchKeepsRanks ==
  ASSUME TypeInv, RankInv, NEW w \in Workers, Fetch(w)
  PROVE  RankInv'
<1>1. PICK n \in Task :
        /\ task' = [task EXCEPT ![w] = n] /\ n.kind = "rank" /\ task[w].kind = "rank"
        /\ n.form = task[w].form /\ n.slot = task[w].slot
        /\ \/ n.phase = "set" /\ n.held = task[w].held /\ Holders(task[w].slot) = {}
           \/ \E h \in Holders(task[w].slot) : n.phase = "clear" /\ n.held = {h}
        /\ UNCHANGED <<counts, day, visited, tables, shared, crossed, missed, posts, crashes>>
  BY FetchFacts
<1> SUFFICES ASSUME ~crossed PROVE RankInv'
  BY <1>1 DEF RankInv
<1>2. \A r : Holders(r)' = Holders(r)
  BY <1>1 DEF Holders, tables
<1>3. \A v \in Workers : task'[v] = IF v = w THEN n ELSE task[v]
  BY <1>1 DEF TypeInv, TypeOK
<1>4. w \in Busy("rank") /\ \A v \in Busy("rank")' : v \in Busy("rank")
  BY <1>1, <1>3 DEF Busy
<1>5. \A v \in Busy("rank")' : v = w
  BY <1>4 DEF RankInv
<1>6. ASSUME NEW r \in Ranks
      PROVE  Ranked(n, r, Holders(r))
  <2>1. Ranked(task[w], r, Holders(r)) /\ \A g, h \in Holders(r) : g = h
    BY <1>4 DEF RankInv
  <2>2. r < n.slot => Shown(n.form, n.slot, r, Holders(r))
    BY <1>1, <2>1 DEF Ranked
  <2>3. r = n.slot /\ n.phase = "clear" => Holders(r) = n.held
    BY <1>1, <2>1
  <2>4. r = n.slot /\ n.phase = "set" => Holders(r) = {}
    BY <1>1
  <2> QED BY <2>2, <2>3, <2>4 DEF Ranked
<1>7. \A r \in Ranks : \A g, h \in Holders(r)' : g = h
  BY <1>2 DEF RankInv
<1>8. \A v \in Busy("rank")' : \A r \in Ranks : Ranked(task'[v], r, Holders(r)')
  BY <1>2, <1>3, <1>5, <1>6
<1>9. \A u, v \in Busy("rank")' : u = v
  BY <1>5
<1> QED BY <1>7, <1>8, <1>9 DEF RankInv

LEMMA ClearKeepsRanks ==
  ASSUME TypeInv, RankInv, NEW w \in Workers, Clear(w)
  PROVE  RankInv'
<1>1. /\ \E n \in Task :
           /\ task' = [task EXCEPT ![w] = n] /\ n.kind = "rank" /\ task[w].kind = "rank"
           /\ n.open = task[w].open /\ n.tracks = task[w].tracks /\ n.form = task[w].form
           /\ n.slot = task[w].slot /\ n.phase = "set" /\ n.held = {}
      /\ task[w].phase = "clear"
      /\ \A a \in Awards :
           /\ DOMAIN unlocks'[a] = DOMAIN unlocks[a]
           /\ \A k \in DOMAIN unlocks[a] :
                unlocks'[a][k] = IF <<a, k>> \in task[w].held THEN 0 ELSE unlocks[a][k]
      /\ UNCHANGED crossed
  BY ClearFacts
<1>2. PICK n \in Task :
           /\ task' = [task EXCEPT ![w] = n] /\ n.kind = "rank" /\ task[w].kind = "rank"
           /\ n.form = task[w].form /\ n.slot = task[w].slot /\ n.phase = "set" /\ n.held = {}
  BY <1>1
<1> SUFFICES ASSUME ~crossed PROVE RankInv'
  BY <1>1 DEF RankInv
<1>3. \A v \in Workers : task'[v] = IF v = w THEN n ELSE task[v]
  BY <1>2 DEF TypeInv, TypeOK
<1>4. w \in Busy("rank") /\ \A v \in Busy("rank")' : v \in Busy("rank")
  BY <1>2, <1>3 DEF Busy
<1>5. \A v \in Busy("rank")' : v = w
  BY <1>4 DEF RankInv
<1>6. n.slot \in Ranks /\ Holders(n.slot) = task[w].held
  <2>1. n.slot \in Ranks
    BY <1>2 DEF TypeInv, TaskOK
  <2>2. Ranked(task[w], n.slot, Holders(n.slot))
    BY <1>4, <2>1 DEF RankInv
  <2> QED BY <1>1, <1>2, <2>1, <2>2 DEF Ranked
<1>7. ASSUME NEW r \in Ranks
      PROVE  Holders(r)' = IF r = n.slot THEN {} ELSE Holders(r)
  <2>1. r # 0
    BY DEF Ranks
  <2>2. \A h \in Holders(r)' : h \in Holders(r) /\ h \notin task[w].held
    <3> SUFFICES ASSUME NEW h \in Holders(r)' PROVE h \in Holders(r) /\ h \notin task[w].held
      OBVIOUS
    <3>1. /\ h = <<h[1], h[2]>> /\ h[1] \in Awards /\ h[2] \in DOMAIN unlocks'[h[1]]
          /\ unlocks'[h[1]][h[2]] = r
      BY HoldersThen
    <3>2. h \notin task[w].held /\ unlocks[h[1]][h[2]] = r
      BY <1>1, <2>1, <3>1
    <3>3. h[2] \in DOMAIN unlocks[h[1]]
      BY <1>1, <3>1
    <3> QED BY <3>1, <3>2, <3>3, HoldersAre
  <2>3. \A h \in Holders(r) : h \notin task[w].held => h \in Holders(r)'
    <3> SUFFICES ASSUME NEW h \in Holders(r), h \notin task[w].held PROVE h \in Holders(r)'
      OBVIOUS
    <3>1. /\ h = <<h[1], h[2]>> /\ h[1] \in Awards /\ h[2] \in DOMAIN unlocks[h[1]]
          /\ unlocks[h[1]][h[2]] = r
      BY HoldersAre
    <3>2. h[2] \in DOMAIN unlocks'[h[1]] /\ unlocks'[h[1]][h[2]] = r
      BY <1>1, <3>1
    <3> QED BY <3>1, <3>2, HoldersThen
  <2>4. CASE r = n.slot
    BY <1>6, <2>2, <2>4
  <2>5. CASE r # n.slot
    <3>1. \A h \in Holders(r) : h \notin task[w].held
      BY <1>6, <2>5, HoldersAre
    <3> QED BY <2>2, <2>3, <2>5, <3>1
  <2> QED BY <2>4, <2>5
<1>8. \A r \in Ranks : \A g, h \in Holders(r)' : g = h
  BY <1>7 DEF RankInv
<1>9. ASSUME NEW r \in Ranks
      PROVE  Ranked(n, r, Holders(r)')
  <2>1. Ranked(task[w], r, Holders(r))
    BY <1>4 DEF RankInv
  <2>2. r < n.slot => Shown(n.form, n.slot, r, Holders(r)')
    <3> HAVE r < n.slot
    <3>1. r # n.slot
      BY <1>6 DEF Ranks
    <3> QED BY <1>2, <1>7, <2>1, <3>1 DEF Ranked
  <2>3. r = n.slot => Holders(r)' = {}
    BY <1>7
  <2> QED BY <1>2, <2>2, <2>3 DEF Ranked
<1>10. \A v \in Busy("rank")' : \A r \in Ranks : Ranked(task'[v], r, Holders(r)')
  BY <1>3, <1>5, <1>9
<1>11. \A u, v \in Busy("rank")' : u = v
  BY <1>5
<1> QED BY <1>8, <1>10, <1>11 DEF RankInv

LEMMA SetShows ==
  ASSUME TypeInv, RankInv, ~crossed, NEW w \in Workers, Set(w),
         NEW t \in Task, t = task[w]
  PROVE  /\ \A r \in Ranks : \A g, h \in Holders(r)' : g = h
         /\ \A r \in Ranks : r <= t.slot => Shown(t.form, t.slot + 1, r, Holders(r)')
<1>1. /\ t.kind = "rank" /\ t.phase = "set" /\ t.slot \in Ranks
      /\ \/ t.form[t.slot] = NoAward /\ UNCHANGED unlocks
         \/ /\ t.form[t.slot] \in Awards
            /\ \E i \in DOMAIN unlocks[t.form[t.slot]] :
                 \A a \in Awards :
                   /\ DOMAIN unlocks'[a] = DOMAIN unlocks[a]
                   /\ \A k \in DOMAIN unlocks[a] :
                        unlocks'[a][k] = IF a = t.form[t.slot] /\ k = i
                                         THEN t.slot ELSE unlocks[a][k]
  <2>1. /\ task[w].kind = "rank" /\ task[w].phase = "set" /\ task[w].slot \in Ranks
        /\ \/ task[w].form[task[w].slot] = NoAward /\ UNCHANGED unlocks
           \/ /\ task[w].form[task[w].slot] \in Awards
              /\ \E i \in DOMAIN unlocks[task[w].form[task[w].slot]] :
                   \A a \in Awards :
                     /\ unlocks'[a] \in Seq(Ranks \cup {0}) /\ DOMAIN unlocks'[a] = DOMAIN unlocks[a]
                     /\ \A k \in DOMAIN unlocks[a] :
                          unlocks'[a][k] = IF a = task[w].form[task[w].slot] /\ k = i
                                           THEN task[w].slot ELSE unlocks[a][k]
    BY SetFacts
  <2> QED BY <2>1
<1>2. w \in Busy("rank")
  BY <1>1 DEF Busy
<1>3. /\ \A r \in Ranks : Ranked(t, r, Holders(r))
      /\ \A r \in Ranks : \A g, h \in Holders(r) : g = h
  BY <1>2 DEF RankInv
<1>4. Holders(t.slot) = {}
  BY <1>1, <1>3 DEF Ranked
<1>5. \A r \in Ranks : /\ r \in Nat /\ (r <= t.slot => r = t.slot \/ r < t.slot)
                       /\ (r < t.slot + 1 <=> r <= t.slot) /\ (r < t.slot => r # t.slot /\ t.slot > r)
  BY <1>1 DEF Ranks
<1>6. ASSUME NEW r \in Ranks, r < t.slot
      PROVE  /\ \A h \in Holders(r) : h[1] = t.form[r]
             /\ t.form[r] # NoAward /\ (\A s \in Ranks : s > r /\ s < t.slot + 1 => t.form[s] # t.form[r])
                  => Holders(r) # {} /\ t.form[t.slot] # t.form[r]
  <2>1. Shown(t.form, t.slot, r, Holders(r))
    BY <1>3, <1>6 DEF Ranked
  <2>2. \A s \in Ranks : s < t.slot => s < t.slot + 1
    BY <1>1, BoundAssumption DEF Ranks
  <2>3. t.slot > r /\ t.slot < t.slot + 1
    BY <1>1, <1>5, <1>6
  <2> QED BY <1>1, <2>1, <2>2, <2>3 DEF Shown
<1>7. CASE t.form[t.slot] = NoAward /\ UNCHANGED unlocks
  <2>1. \A r : Holders(r)' = Holders(r)
    BY <1>7 DEF Holders
  <2>2. Shown(t.form, t.slot + 1, t.slot, Holders(t.slot))
    BY <1>4, <1>7 DEF Shown
  <2>3. \A r \in Ranks : r < t.slot => Shown(t.form, t.slot + 1, r, Holders(r))
    BY <1>6 DEF Shown
  <2>4. \A r \in Ranks : r <= t.slot => Shown(t.form, t.slot + 1, r, Holders(r))
    BY <1>5, <2>2, <2>3
  <2> QED BY <1>3, <2>1, <2>4
<1>8. ASSUME t.form[t.slot] \in Awards,
             NEW i \in DOMAIN unlocks[t.form[t.slot]],
             \A a \in Awards :
               /\ DOMAIN unlocks'[a] = DOMAIN unlocks[a]
               /\ \A k \in DOMAIN unlocks[a] :
                    unlocks'[a][k] = IF a = t.form[t.slot] /\ k = i THEN t.slot ELSE unlocks[a][k]
      PROVE  /\ \A r \in Ranks : \A g, h \in Holders(r)' : g = h
             /\ \A r \in Ranks : r <= t.slot => Shown(t.form, t.slot + 1, r, Holders(r)')
  <2>1. PICK row : row = <<t.form[t.slot], i>>
    OBVIOUS
  <2>2. ASSUME NEW r \in Ranks, NEW h \in Holders(r)'
        PROVE  \/ r = t.slot /\ h = row
               \/ r # t.slot /\ h # row /\ h \in Holders(r)
    <3>1. /\ h = <<h[1], h[2]>> /\ h[1] \in Awards /\ h[2] \in DOMAIN unlocks'[h[1]]
          /\ unlocks'[h[1]][h[2]] = r
      BY HoldersThen
    <3>2. h[2] \in DOMAIN unlocks[h[1]]
      BY <1>8, <3>1
    <3>3. CASE h = row
      <4>1. h[1] = t.form[t.slot] /\ h[2] = i
        BY <2>1, <3>3
      <4>2. unlocks'[h[1]][h[2]] = t.slot
        BY <1>8, <3>1, <3>2, <4>1
      <4> QED BY <3>1, <3>3, <4>2
    <3>4. CASE h # row
      <4>1. ~(h[1] = t.form[t.slot] /\ h[2] = i)
        BY <2>1, <3>1, <3>4
      <4>2. unlocks[h[1]][h[2]] = r
        BY <1>8, <3>1, <3>2, <4>1
      <4>3. h \in Holders(r)
        BY <3>1, <3>2, <4>2, HoldersAre
      <4> QED BY <1>4, <3>4, <4>3
    <3> QED BY <3>3, <3>4
  <2>3. ASSUME NEW r \in Ranks, NEW h \in Holders(r), h # row
        PROVE  h \in Holders(r)'
    <3>1. /\ h = <<h[1], h[2]>> /\ h[1] \in Awards /\ h[2] \in DOMAIN unlocks[h[1]]
          /\ unlocks[h[1]][h[2]] = r
      BY HoldersAre
    <3>2. ~(h[1] = t.form[t.slot] /\ h[2] = i)
      BY <2>1, <2>3, <3>1
    <3>3. h[2] \in DOMAIN unlocks'[h[1]] /\ unlocks'[h[1]][h[2]] = r
      BY <1>8, <3>1, <3>2
    <3> QED BY <3>1, <3>3, HoldersThen
  <2>4. row \in Holders(t.slot)' /\ row[1] = t.form[t.slot]
    <3>1. i \in DOMAIN unlocks'[t.form[t.slot]] /\ unlocks'[t.form[t.slot]][i] = t.slot
      BY <1>8
    <3>2. \A r : unlocks'[t.form[t.slot]][i] = r => <<t.form[t.slot], i>> \in Holders(r)'
      BY <1>8, <3>1, HoldersThen
    <3>3. PICK r : r = t.slot
      OBVIOUS
    <3>4. row \in Holders(r)'
      BY <2>1, <3>1, <3>2, <3>3
    <3> QED BY <2>1, <3>3, <3>4
  <2>5. \A r \in Ranks : \A g, h \in Holders(r)' : g = h
    BY <1>3, <2>2
  <2>6. Shown(t.form, t.slot + 1, t.slot, Holders(t.slot)')
    <3>1. \A h \in Holders(t.slot)' : h = row
      BY <1>1, <2>2
    <3> QED BY <2>4, <3>1 DEF Shown
  <2>7. ASSUME NEW r \in Ranks, r < t.slot
        PROVE  Shown(t.form, t.slot + 1, r, Holders(r)')
    <3>1. \A h \in Holders(r)' : h \in Holders(r)
      BY <1>5, <2>2, <2>7
    <3>2. ASSUME t.form[r] # NoAward, \A s \in Ranks : s > r /\ s < t.slot + 1 => t.form[s] # t.form[r]
          PROVE  Holders(r)' # {}
      <4>1. PICK h \in Holders(r) : h[1] = t.form[r]
        BY <1>6, <2>7, <3>2
      <4>2. h # row
        BY <1>6, <2>4, <2>7, <3>2, <4>1
      <4> QED BY <2>3, <4>2
    <3> QED BY <1>6, <2>7, <3>1, <3>2 DEF Shown
  <2> QED BY <1>5, <2>5, <2>6, <2>7
<1> QED BY <1>1, <1>7, <1>8

LEMMA SetKeepsRanks ==
  ASSUME TypeInv, RankInv, NEW w \in Workers, Set(w)
  PROVE  RankInv'
<1>1. PICK t \in Task : t = task[w] /\ TaskOK(t)
  BY DEF TypeInv, TypeOK
<1>2. PICK n : n = NextRank(t)
  OBVIOUS
<1>3. /\ t.kind = "rank" /\ t.slot \in Ranks /\ UNCHANGED crossed
      /\ task' = [task EXCEPT ![w] = n]
  BY <1>1, <1>2, SetFacts
<1>4. /\ n.kind \in {"rank", "idle"}
      /\ n.kind = "rank" => n.slot = t.slot + 1 /\ n.phase = "fetch" /\ n.form = t.form
  BY <1>1, <1>2, <1>3, NextRankFacts
<1> SUFFICES ASSUME ~crossed PROVE RankInv'
  BY <1>3 DEF RankInv
<1>5. \A v \in Workers : task'[v] = IF v = w THEN n ELSE task[v]
  BY <1>3 DEF TypeInv, TypeOK
<1>6. w \in Busy("rank") /\ \A v \in Busy("rank")' : v \in Busy("rank")
  BY <1>1, <1>3, <1>5 DEF Busy
<1>7. \A v \in Busy("rank")' : v = w /\ n.kind = "rank"
  BY <1>5, <1>6 DEF RankInv, Busy
<1>8. /\ \A r \in Ranks : \A g, h \in Holders(r)' : g = h
      /\ \A r \in Ranks : r <= t.slot => Shown(t.form, t.slot + 1, r, Holders(r)')
  BY <1>1, SetShows
<1>9. ASSUME n.kind = "rank", NEW r \in Ranks
      PROVE  Ranked(n, r, Holders(r)')
  <2>1. r < n.slot => r <= t.slot
    BY <1>3, <1>4, <1>9 DEF Ranks
  <2> QED BY <1>4, <1>8, <1>9, <2>1 DEF Ranked
<1>10. \A v \in Busy("rank")' : \A r \in Ranks : Ranked(task'[v], r, Holders(r)')
  BY <1>5, <1>6, <1>7, <1>9
<1>11. \A u, v \in Busy("rank")' : u = v
  BY <1>7
<1> QED BY <1>8, <1>10, <1>11 DEF RankInv

\* A request for awards leaves ranks, and the requests for them, alone.
AwardingStep ==
  \/ \E w \in Workers, change \in Changes : Edit(w, change)
  \/ \E w \in Workers, x \in Entities : Visit(w, x)
  \/ \E w \in Workers : Commit(w) \/ Measure(w) \/ Award(w)

RanksAlone ==
  /\ crossed' = crossed /\ \A r \in Ranks : Holders(r)' = Holders(r)
  /\ \A w \in Workers : w \in Busy("rank")' => w \in Busy("rank") /\ task'[w] = task[w]
  /\ \A w \in Workers : w \in Busy("rank") => task'[w] = task[w]

LEMMA AwardingLeavesRanks ==
  ASSUME TypeInv, AwardingStep
  PROVE  RanksAlone
<1>1. ASSUME NEW w \in Workers, NEW n \in Task, task' = [task EXCEPT ![w] = n],
             task[w].kind # "rank", n.kind # "rank"
      PROVE  /\ \A v \in Workers : v \in Busy("rank")' => v \in Busy("rank") /\ task'[v] = task[v]
             /\ \A v \in Workers : v \in Busy("rank") => task'[v] = task[v]
  <2>1. \A v \in Workers : task'[v] = IF v = w THEN n ELSE task[v]
    BY <1>1 DEF TypeInv, TypeOK
  <2> QED BY <1>1, <2>1 DEF Busy
<1>2. ASSUME NEW w \in Workers, NEW tracks \in {EditTracks, <<Explorer>>}, BeginAwards(w, tracks),
             task[w].kind \in {"idle", "edit"}, UNCHANGED <<unlocks, crossed>>
      PROVE  RanksAlone
  <2>1. PICK b \in Task : b.kind = "award" /\ task' = [task EXCEPT ![w] = b]
    BY <1>2, BeginAwardsFacts
  <2>2. \A r \in Ranks : Holders(r)' = Holders(r)
    BY <1>2 DEF Holders
  <2> QED BY <1>1, <1>2, <2>1, <2>2 DEF RanksAlone
<1>3. ASSUME NEW w \in Workers, w \in Busy("award"), NEW open \in SUBSET Opens, Progress(w, open),
             \A r \in Ranks : Holders(r)' = Holders(r)
      PROVE  RanksAlone
  <2>1. PICK n \in Task : MovesOn(w, open, n)
    BY <1>3, ProgressFacts
  <2>2. /\ task' = [task EXCEPT ![w] = n] /\ n.kind # "rank" /\ crossed' = crossed
        /\ task[w].kind # "rank"
    BY <1>3, <2>1 DEF MovesOn, Busy
  <2> QED BY <1>1, <1>3, <2>2 DEF RanksAlone
<1>4. ASSUME NEW w \in Workers, (\E change \in Changes : Edit(w, change)) \/ Commit(w)
      PROVE  RanksAlone
  <2>1. Quiet(w) \/ (BeginAwards(w, EditTracks) /\ task[w].kind = "edit")
    BY <1>4, EditFacts, CommitFacts
  <2>2. UNCHANGED <<unlocks, crossed>>
    BY <1>4 DEF Edit, Commit, tables
  <2>3. \A r \in Ranks : Holders(r)' = Holders(r)
    BY <2>2 DEF Holders
  <2>4. CASE Quiet(w)
    <3>1. PICK t \in Task : t.kind \in {"idle", "edit"} /\ task' = [task EXCEPT ![w] = t]
      BY <2>4 DEF Quiet
    <3>2. task[w].kind \in {"idle", "edit"}
      BY <2>4 DEF Quiet
    <3> QED BY <1>1, <2>2, <2>3, <3>1, <3>2 DEF RanksAlone
  <2> QED BY <1>2, <2>1, <2>2, <2>4
<1>5. ASSUME NEW w \in Workers, NEW x \in Entities, Visit(w, x)
      PROVE  RanksAlone
  BY <1>2, <1>5 DEF Visit, tables
<1>6. ASSUME NEW w \in Workers, Measure(w)
      PROVE  RanksAlone
  <2>1. PICK signal \in Signals(Head(task[w].tracks)) : Progress(w, Opened(w, signal))
    BY <1>6 DEF Measure, Opened
  <2>2. w \in Busy("award") /\ UNCHANGED unlocks
    BY <1>6 DEF Measure, tables
  <2>3. PICK open : open = Opened(w, signal)
    OBVIOUS
  <2>4. open \in SUBSET Opens
    BY <2>2, <2>3, MeasureOpens
  <2>5. \A r \in Ranks : Holders(r)' = Holders(r)
    BY <2>2 DEF Holders
  <2> QED BY <1>3, <2>1, <2>2, <2>3, <2>4, <2>5
<1>7. ASSUME NEW w \in Workers, Award(w)
      PROVE  RanksAlone
  <2>1. PICK o \in task[w].open :
          /\ w \in Busy("award") /\ Progress(w, Left(w, o))
          /\ \A a \in Awards :
               IF o.step = "insert" /\ a = o.tier.award
               THEN unlocks'[a] = Append(unlocks[a], 0) ELSE unlocks'[a] = unlocks[a]
    BY <1>7, AwardWrites
  <2>2. Left(w, o) \in SUBSET Opens
    BY LeftFacts
  <2>3. ASSUME NEW a \in Awards
        PROVE  /\ DOMAIN unlocks[a] \subseteq DOMAIN unlocks'[a]
               /\ \A k \in DOMAIN unlocks[a] : unlocks'[a][k] = unlocks[a][k]
               /\ \A k \in DOMAIN unlocks'[a] : k \in DOMAIN unlocks[a] \/ unlocks'[a][k] = 0
    <3>1. PICK s : s = Append(unlocks[a], 0)
      OBVIOUS
    <3>2. /\ Len(s) = Len(unlocks[a]) + 1 /\ DOMAIN s = 1..(Len(unlocks[a]) + 1)
          /\ s[Len(unlocks[a]) + 1] = 0
          /\ \A k \in DOMAIN unlocks[a] : s[k] = unlocks[a][k]
          /\ DOMAIN unlocks[a] \subseteq DOMAIN s
      BY <3>1, RowAppended DEF TypeInv
    <3>3. DOMAIN unlocks[a] = 1..Len(unlocks[a]) /\ Len(unlocks[a]) \in Nat
      BY Rows DEF TypeInv
    <3>4. \A k \in DOMAIN s : k \in DOMAIN unlocks[a] \/ s[k] = 0
      <4>1. \A m \in Nat : \A k \in 1..(m + 1) : k \in 1..m \/ k = m + 1
        OBVIOUS
      <4> QED BY <3>2, <3>3, <4>1
    <3>5. unlocks'[a] = s \/ unlocks'[a] = unlocks[a]
      BY <2>1, <3>1
    <3> QED BY <3>2, <3>4, <3>5
  <2>4. ASSUME NEW r \in Ranks
        PROVE  Holders(r)' = Holders(r)
    <3>0. r # 0
      BY DEF Ranks
    <3>1. \A h \in Holders(r)' : h \in Holders(r)
      <4> SUFFICES ASSUME NEW h \in Holders(r)' PROVE h \in Holders(r)
        OBVIOUS
      <4>1. /\ h = <<h[1], h[2]>> /\ h[1] \in Awards /\ h[2] \in DOMAIN unlocks'[h[1]]
            /\ unlocks'[h[1]][h[2]] = r
        BY HoldersThen
      <4>2. h[2] \in DOMAIN unlocks[h[1]] /\ unlocks[h[1]][h[2]] = r
        BY <2>3, <3>0, <4>1
      <4> QED BY <4>1, <4>2, HoldersAre
    <3>2. \A h \in Holders(r) : h \in Holders(r)'
      <4> SUFFICES ASSUME NEW h \in Holders(r) PROVE h \in Holders(r)'
        OBVIOUS
      <4>1. /\ h = <<h[1], h[2]>> /\ h[1] \in Awards /\ h[2] \in DOMAIN unlocks[h[1]]
            /\ unlocks[h[1]][h[2]] = r
        BY HoldersAre
      <4>2. h[2] \in DOMAIN unlocks'[h[1]] /\ unlocks'[h[1]][h[2]] = r
        BY <2>3, <4>1
      <4> QED BY <4>1, <4>2, HoldersThen
    <3> QED BY <3>1, <3>2
  <2> QED BY <1>3, <2>1, <2>2, <2>4
<1> QED BY <1>4, <1>5, <1>6, <1>7 DEF AwardingStep

LEMMA NextKeepsRanks ==
  ASSUME TypeInv, RankInv, [Next]_vars
  PROVE  RankInv'
<1>1. CASE UNCHANGED vars \/ NextDay
  <2>1. UNCHANGED <<unlocks, task, crossed>>
    BY <1>1 DEF vars, NextDay, tables
  <2>2. \A r \in Ranks : Holders(r)' = Holders(r)
    BY <2>1 DEF Holders
  <2>3. \A w \in Workers : w \in Busy("rank")' => w \in Busy("rank") /\ task'[w] = task[w]
    BY <2>1 DEF Busy
  <2> QED BY <2>1, <2>2, <2>3, RestKeepsRanks
<1>2. CASE AwardingStep
  BY <1>2, AwardingLeavesRanks, RestKeepsRanks DEF RanksAlone
<1>3. CASE Crash
  <2>1. \A w \in Workers : task'[w].kind = "idle"
    BY <1>3, IdleType DEF Crash
  <2>2. \A w \in Workers : w \notin Busy("rank")'
    BY <2>1 DEF Busy
  <2>3. UNCHANGED <<unlocks, crossed>>
    BY <1>3 DEF Crash, tables
  <2>4. \A r \in Ranks : Holders(r)' = Holders(r)
    BY <2>3 DEF Holders
  <2> QED BY <2>2, <2>3, <2>4, RestKeepsRanks
<1> QED BY <1>1, <1>2, <1>3, RankBegins, FetchKeepsRanks, ClearKeepsRanks, SetKeepsRanks
        DEF Next, AwardingStep

LEMMA InitRanks == Init => RankInv
<1> SUFFICES ASSUME Init PROVE RankInv
  OBVIOUS
<1>1. \A w \in Workers : task[w].kind = "idle"
  BY IdleType DEF Init
<1>2. Busy("rank") = {}
  BY <1>1 DEF Busy
<1>3. \A r \in Ranks : Holders(r) = {}
  BY DEF Init, Holders
<1> QED BY <1>2, <1>3 DEF RankInv

LEMMA AnsweredAsAsked ==
  ASSUME TypeInv, RankInv, [Next]_vars, NEW w \in Workers,
         w \in Busy("rank"), task'[w] = Idle, crashes' = crashes, ~crossed
  PROVE  \A r \in Ranks : Shown(task[w].form, MaxRank + 1, r, Holders(r)')
<1>1. task[w].kind = "rank" /\ task'[w].kind = "idle"
  BY IdleType DEF Busy
<1>2. task'[w] # task[w]
  BY <1>1
<1>3. ~UNCHANGED vars /\ ~NextDay /\ ~AwardingStep
  BY <1>2, AwardingLeavesRanks DEF vars, NextDay, RanksAlone
<1>4. ~Crash
  <2>1. crashes \in Nat
    BY DEF TypeInv, TypeOK
  <2>2. \A n \in Nat : n + 1 # n
    OBVIOUS
  <2> QED BY <2>1, <2>2 DEF Crash
<1>5. PICK v \in Workers : (\E form \in Forms : Rank(v, form)) \/ Fetch(v) \/ Clear(v) \/ Set(v)
  BY <1>3, <1>4 DEF Next, AwardingStep
<1>6. v = w
  BY <1>2, <1>5 DEF Rank, Begin, Fetch, Clear, Set, TypeInv, TypeOK
<1>7. ~\E form \in Forms : Rank(v, form)
  BY <1>1, <1>6 DEF Rank, Begin
<1>8. ~Fetch(v)
  <2> SUFFICES ASSUME Fetch(w) PROVE FALSE
    BY <1>6
  <2>1. PICK n \in Task : task' = [task EXCEPT ![w] = n] /\ n.kind = "rank"
    BY FetchFacts
  <2>2. task'[w] = n
    BY <2>1 DEF TypeInv, TypeOK
  <2> QED BY <1>1, <2>1, <2>2
<1>9. ~Clear(v)
  <2> SUFFICES ASSUME Clear(w) PROVE FALSE
    BY <1>6
  <2>1. PICK n \in Task : task' = [task EXCEPT ![w] = n] /\ n.kind = "rank"
    BY ClearFacts
  <2>2. task'[w] = n
    BY <2>1 DEF TypeInv, TypeOK
  <2> QED BY <1>1, <2>1, <2>2
<1>10. Set(w)
  BY <1>5, <1>6, <1>7, <1>8, <1>9
<1>11. PICK t \in Task : t = task[w] /\ TaskOK(t)
  BY DEF TypeInv, TypeOK
<1>12. PICK n : n = NextRank(t)
  OBVIOUS
<1>13. task'[w] = n
  <2>1. task' = [task EXCEPT ![w] = n]
    BY <1>10, <1>11, <1>12, SetFacts
  <2> QED BY <2>1 DEF TypeInv, TypeOK
<1>14. t.slot = MaxRank
  BY <1>1, <1>11, <1>12, <1>13, NextRankFacts
<1>15. \A r \in Ranks : r <= t.slot => Shown(t.form, t.slot + 1, r, Holders(r)')
  BY <1>10, <1>11, SetShows
<1>16. \A r \in Ranks : r <= t.slot
  BY <1>14, BoundAssumption DEF Ranks
<1> QED BY <1>11, <1>14, <1>15, <1>16

\* Once a request to rank is answered, and no two ever met, the profile shows at each
\* rank what its form said, if a later rank has not taken it, and nothing else: for any
\* number of ranks, awards and requests, also when awards are given meanwhile
\* (editor.tsx rankUpdate and setAchievement).
THEOREM ProfileShowsForm == Spec => RanksAsAsked
<1>1. Init => TypeInv /\ RankInv
  BY InitTypeInv, InitRanks
<1>2. TypeInv /\ RankInv /\ [Next]_vars => TypeInv' /\ RankInv'
  BY NextKeepsTypeInv, NextKeepsRanks
<1>3. TypeInv /\ RankInv /\ [Next]_vars =>
        [\A w \in Workers :
           w \in Busy("rank") /\ task'[w] = Idle /\ crashes' = crashes /\ ~crossed =>
             \A r \in Ranks :
               LET asked == task[w].form[r]
               IN /\ \A h \in Holders(r)' : h[1] = asked
                  /\ asked # NoAward /\ (\A s \in Ranks : s > r => task[w].form[s] # asked)
                       => Holders(r)' # {}]_vars
  <2> SUFFICES ASSUME TypeInv, RankInv, [Next]_vars, NEW w \in Workers,
                      w \in Busy("rank"), task'[w] = Idle, crashes' = crashes, ~crossed,
                      NEW r \in Ranks
               PROVE  LET asked == task[w].form[r]
                      IN /\ \A h \in Holders(r)' : h[1] = asked
                         /\ asked # NoAward /\ (\A s \in Ranks : s > r => task[w].form[s] # asked)
                              => Holders(r)' # {}
    OBVIOUS
  <2>1. Shown(task[w].form, MaxRank + 1, r, Holders(r)')
    BY AnsweredAsAsked
  <2> QED BY <2>1 DEF Shown
<1> QED BY <1>1, <1>2, <1>3, PTL DEF Spec, RanksAsAsked
=============================================================================
