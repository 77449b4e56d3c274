----------------------- MODULE YouTubeDiscovery_proofs -----------------------
(***************************************************************************)
(* A walk misses no upload and yields none twice, for any subscriptions,   *)
(* playlists, page sizes and window: what has been dealt with is a prefix  *)
(* of each list, and the lists shift under the walk in such a way that no  *)
(* item moves behind the page token without leaving a trace.               *)
(***************************************************************************)
EXTENDS YouTubeDiscovery, FiniteSetTheorems, SequenceTheorems, TLAPS

------------------------------------------------------------------------------
\* Lists and their pages.

\* A list without repetitions.
IsList(list) == list \in Seq(Range(list)) /\ IsInjective(list)

LEMMA AheadIsOrder ==
  ASSUME NEW list, IsList(list)
  PROVE  /\ \A v : ~ Ahead(list, v, v)
         /\ \A u, v, w : Ahead(list, u, v) /\ Ahead(list, v, w) => Ahead(list, u, w)
         /\ \A v, w \in Range(list) : v # w => Ahead(list, v, w) \/ Ahead(list, w, v)
<1>1. DOMAIN list \subseteq Int
  BY DEF IsList
<1>2. \A i, j \in DOMAIN list : list[i] = list[j] => i = j
  BY DEF IsList, IsInjective
<1>3. \A v : ~ Ahead(list, v, v)
  BY <1>1, <1>2 DEF Ahead
<1>4. ASSUME NEW u, NEW v, NEW w, Ahead(list, u, v), Ahead(list, v, w)
      PROVE  Ahead(list, u, w)
  <2>1. PICK i, j \in DOMAIN list : i < j /\ list[i] = u /\ list[j] = v
    BY <1>4 DEF Ahead
  <2>2. PICK k, l \in DOMAIN list : k < l /\ list[k] = v /\ list[l] = w
    BY <1>4 DEF Ahead
  <2>3. j = k
    BY <1>2, <2>1, <2>2
  <2>4. i < l
    BY <1>1, <2>1, <2>2, <2>3
  <2> QED
    BY <2>1, <2>2, <2>4 DEF Ahead
<1>5. ASSUME NEW v \in Range(list), NEW w \in Range(list), v # w
      PROVE  Ahead(list, v, w) \/ Ahead(list, w, v)
  <2>1. PICK i, j \in DOMAIN list : list[i] = v /\ list[j] = w
    BY DEF Range
  <2>2. i < j \/ j < i
    BY <1>1, <1>5, <2>1
  <2> QED
    BY <2>1, <2>2 DEF Ahead
<1> QED
  BY <1>3, <1>4, <1>5

LEMMA PlaceType ==
  ASSUME NEW list, NEW items, IsFiniteSet(items), NEW v
  PROVE  Place(list, items, v) \in Nat
<1> DEFINE before == {w \in items : Ahead(list, w, v)}
<1>1. IsFiniteSet(before)
  BY FS_Subset
<1> QED
  BY <1>1, FS_CardinalityType DEF Place

\* More items ahead of an item move it to a later place.
LEMMA PlaceGrows ==
  ASSUME NEW list, NEW items, NEW others, IsFiniteSet(others), NEW v,
         \A w \in items : Ahead(list, w, v) => w \in others
  PROVE  Place(list, items, v) <= Place(list, others, v)
<1> DEFINE before == {w \in items : Ahead(list, w, v)}
           after == {w \in others : Ahead(list, w, v)}
<1>1. IsFiniteSet(after)
  BY FS_Subset
<1>2. before \in SUBSET after
  OBVIOUS
<1>3. Cardinality(before) <= Cardinality(after)
  BY <1>1, <1>2, FS_Subset
<1> QED
  BY <1>3 DEF Place

\* Places follow the order of the list.
LEMMA PlaceOrder ==
  ASSUME NEW list, IsList(list), NEW items, IsFiniteSet(items),
         NEW v \in items, NEW w, Ahead(list, v, w)
  PROVE  Place(list, items, v) < Place(list, items, w)
<1> DEFINE before == {u \in items : Ahead(list, u, v)}
           after == {u \in items : Ahead(list, u, w)}
<1>1. IsFiniteSet(after) /\ IsFiniteSet(before)
  BY FS_Subset
<1>2. before \in SUBSET after /\ v \in after /\ v \notin before
  BY AheadIsOrder
<1>3. Cardinality(before) <= Cardinality(after) /\ Cardinality(before) # Cardinality(after)
  BY <1>1, <1>2, FS_Subset
<1>4. Cardinality(before) \in Nat /\ Cardinality(after) \in Nat
  BY <1>1, FS_CardinalityType
<1>5. Cardinality(before) < Cardinality(after)
  BY <1>3, <1>4
<1> QED
  BY <1>5 DEF Place

\* An item of a list is at a place before its end.
LEMMA PlaceBound ==
  ASSUME NEW list, IsList(list), NEW items, IsFiniteSet(items), NEW v \in items
  PROVE  Place(list, items, v) < Cardinality(items)
<1> DEFINE before == {u \in items : Ahead(list, u, v)}
<1>1. before \in SUBSET items /\ v \notin before
  BY AheadIsOrder
<1>2. IsFiniteSet(before) /\ Cardinality(before) <= Cardinality(items)
      /\ Cardinality(before) # Cardinality(items)
  BY <1>1, FS_Subset
<1>3. Cardinality(before) \in Nat /\ Cardinality(items) \in Nat
  BY <1>2, FS_CardinalityType
<1>4. Cardinality(before) < Cardinality(items)
  BY <1>2, <1>3
<1> QED
  BY <1>4 DEF Place

\* A page has as many items as were asked for, or fewer.
LEMMA PageBounded ==
  ASSUME NEW list, IsList(list), NEW items \in SUBSET Range(list), IsFiniteSet(items),
         NEW start \in Nat, NEW size \in Nat \ {0}
  PROVE  /\ IsFiniteSet(Page(list, items, start, size))
         /\ Cardinality(Page(list, items, start, size)) <= size
<1> DEFINE page == Page(list, items, start, size)
           places == start .. (start + size - 1)
           f == [v \in page |-> Place(list, items, v)]
<1>1. \A v \in page : Place(list, items, v) \in places
  <2> SUFFICES ASSUME NEW v \in page PROVE Place(list, items, v) \in places
    OBVIOUS
  <2>1. Place(list, items, v) \in Nat
    BY PlaceType
  <2>2. start <= Place(list, items, v) /\ Place(list, items, v) < start + size
    BY DEF Page
  <2> QED
    BY <2>1, <2>2
<1>2. \A v, w \in page : f[v] = f[w] => v = w
  <2> SUFFICES ASSUME NEW v \in page, NEW w \in page, v # w PROVE f[v] # f[w]
    OBVIOUS
  <2>1. v \in items /\ w \in items /\ f[v] \in Nat /\ f[w] \in Nat
    BY PlaceType DEF Page
  <2>2. CASE Ahead(list, v, w)
    BY <2>1, <2>2, PlaceOrder
  <2>3. CASE Ahead(list, w, v)
    BY <2>1, <2>3, PlaceOrder
  <2> QED
    BY <2>1, <2>2, <2>3, AheadIsOrder
<1>3. f \in Injection(page, places)
  BY <1>1, <1>2 DEF Injection, IsInjective
<1>4. IsFiniteSet(places) /\ Cardinality(places) = size
  BY FS_Interval
<1> HIDE DEF f, page, places
<1>5. IsFiniteSet(page) /\ Cardinality(page) <= Cardinality(places)
  BY <1>3, <1>4, FS_Injection
<1> QED
  BY <1>4, <1>5 DEF page

\* After the last page of a list nothing is left of it.
LEMMA NextTokenType ==
  ASSUME NEW items, IsFiniteSet(items), NEW start \in Nat, NEW size \in Nat \ {0}
  PROVE  /\ NextToken(items, start, size) \in Nat
         /\ NextToken(items, start, size) <= Cardinality(items)
         /\ NextToken(items, start, size) = NoToken => Cardinality(items) <= start + size
         /\ NextToken(items, start, size) # NoToken
              => NextToken(items, start, size) = start + size
<1>1. Cardinality(items) \in Nat
  BY FS_CardinalityType
<1> QED
  BY <1>1 DEF NextToken, NoToken

------------------------------------------------------------------------------
\* The constants.

LEMMA RangeFinite ==
  ASSUME NEW S, NEW list \in Seq(S)
  PROVE  IsFiniteSet(Range(list)) /\ list \in Seq(Range(list))
<1>1. list \in [1 .. Len(list) -> S] /\ Len(list) \in Nat
  OBVIOUS
<1>2. list \in [1 .. Len(list) -> Range(list)]
  BY <1>1 DEF Range
<1>3. list \in Seq(Range(list))
  BY <1>1, <1>2, IsASeq
<1>4. list \in Surjection(1 .. Len(list), Range(list))
  BY <1>2 DEF Surjection, Range
<1>5. IsFiniteSet(1 .. Len(list))
  BY <1>1, FS_Interval
<1> QED
  BY <1>3, <1>4, <1>5, FS_Surjection

LEMMA Lists ==
  /\ IsList(Subscriptions) /\ IsFiniteSet(Channel)
  /\ \A c \in Channel : IsList(Uploads[c]) /\ Range(Uploads[c]) \subseteq Video
  /\ IsFiniteSet(Video)
<1>1. IsList(Subscriptions) /\ IsFiniteSet(Channel)
  BY ListsAssumption, RangeFinite DEF IsList, Channel
<1>2. \A c \in Channel : IsList(Uploads[c]) /\ IsFiniteSet(Range(Uploads[c]))
  BY ListsAssumption, RangeFinite DEF IsList
<1>3. \A c \in Channel : Range(Uploads[c]) \subseteq Video
  BY DEF Video
<1> DEFINE all == [c \in Channel |-> Range(Uploads[c])]
           sets == {Range(Uploads[c]) : c \in Channel}
<1>4. all \in Surjection(Channel, sets)
  BY DEF Surjection
<1>5. IsFiniteSet(sets)
  <2> HIDE DEF all, sets
  <2> QED BY <1>1, <1>4, FS_Surjection
<1>6. \A T \in sets : IsFiniteSet(T)
  BY <1>2
<1>7. IsFiniteSet(UNION sets)
  BY <1>5, <1>6, FS_UNION
<1> QED
  BY <1>1, <1>2, <1>3, <1>7 DEF Video

\* A video is an upload of one channel.
LEMMA ChannelOfVideo ==
  /\ \A v \in Video : ChannelOf(v) \in Channel /\ v \in Range(Uploads[ChannelOf(v)])
  /\ \A c \in Channel : \A v \in Range(Uploads[c]) : ChannelOf(v) = c
<1>1. ASSUME NEW v \in Video
      PROVE  ChannelOf(v) \in Channel /\ v \in Range(Uploads[ChannelOf(v)])
  <2>1. \E c \in Channel : v \in Range(Uploads[c])
    BY DEF Video
  <2> QED
    BY <2>1 DEF ChannelOf
<1>2. ASSUME NEW c \in Channel, NEW v \in Range(Uploads[c]) PROVE ChannelOf(v) = c
  <2>1. v \in Video
    BY Lists
  <2>2. ChannelOf(v) \in Channel /\ v \in Range(Uploads[ChannelOf(v)])
    BY <1>1, <2>1
  <2> QED
    BY <2>2, ListsAssumption
<1> QED
  BY <1>1, <1>2

------------------------------------------------------------------------------
\* The invariant.

\* What the walk holds at each of its steps.
CursorAgrees ==
  /\ pc \in {"page", "yield"} <=> channel \in Channel
  /\ pc # "yield" => batch = {} /\ last = FALSE
  /\ pc = "yield" => batch # {} /\ (last \/ token # NoToken)
  /\ pc \in {"idle", "subscriptions", "done"} => playlists = {}
  /\ pc \in {"idle", "done"} => position = NoToken
  /\ pc \notin {"page", "yield"} => token = NoToken
  /\ pc = "idle" => seen = {} /\ skipped = {} /\ gone = {}

\* What is yielded belongs to the window, and completed windows end where it starts.
Once ==
  /\ yielded = [v \in Video |-> IF v \in seen THEN 1 ELSE 0]
  /\ \A v \in seen \cup batch : Recent(v)
  /\ \A v \in handled : Older(v)

Covered(v) == v \in seen \/ Excused(v)

\* The subscriptions on the pages that were fetched: those ahead of the page token.
Reached(c) ==
  (pc = "subscriptions" \/ position # NoToken) => Place(Subscriptions, subscribed, c) < position

ChannelsCovered ==
  pc # "idle" =>
    \A v \in Video :
      (/\ Recent(v)
       /\ ChannelOf(v) \notin playlists /\ ChannelOf(v) # channel
       /\ Reached(ChannelOf(v)))
        => Covered(v)

\* The uploads on the pages of the playlist that were fetched.
Fetched(v) == last \/ Place(Uploads[channel], Playlist(channel), v) < token

PlaylistCovered ==
  pc \in {"page", "yield"} =>
    \A v \in Video :
      Recent(v) /\ ChannelOf(v) = channel /\ Fetched(v) => Covered(v) \/ v \in batch

WalkInv == TypeOK /\ CursorAgrees /\ Once /\ ChannelsCovered /\ PlaylistCovered

\* What is dealt with stays dealt with: a video that is listed during a walk is
\* late, and nothing that left a list comes back.
LEMMA CoveredStays ==
  ASSUME TypeOK, NEW v \in Video, Recent(v), Covered(v),
         UNCHANGED <<publishedAt, from, to>>,
         seen \subseteq seen', skipped \subseteq skipped', gone \subseteq gone',
         late \subseteq late', subscribed' \subseteq subscribed,
         \A w \in listed' \ listed : publishedAt[w] < to => w \in late'
  PROVE  Covered(v)'
<1> DEFINE c == ChannelOf(v)
<1>1. c \in Channel
  BY ChannelOfVideo
<1>2. CASE v \in seen
  BY <1>2 DEF Covered
<1>3. CASE v \notin listed \/ v \in late
  BY <1>3 DEF Covered, Excused, Recent
<1>4. CASE c \in skipped \/ c \notin subscribed
  BY <1>4 DEF Covered, Excused
<1>5. CASE \E w \in Video : Ahead(Uploads[c], w, v) /\ (Older(w) \/ w \in gone)
  <2>1. PICK w \in Video : Ahead(Uploads[c], w, v) /\ (Older(w) \/ w \in gone)
    BY <1>5
  <2>2. Older(w)' \/ w \in gone'
    BY <2>1 DEF Older
  <2> QED
    BY <2>1, <2>2 DEF Covered, Excused
<1>6. CASE \E d \in gone : Ahead(Subscriptions, d, c)
  BY <1>6 DEF Covered, Excused
<1> QED
  BY <1>2, <1>3, <1>4, <1>5, <1>6 DEF Covered, Excused

LEMMA WalkInit == Init => WalkInv
<1> SUFFICES ASSUME Init PROVE WalkInv
  OBVIOUS
<1>1. /\ now = WindowStart /\ publishedAt \in [Video -> PublishTimes]
      /\ listed \subseteq Video /\ withdrawn = {} /\ subscribed = Channel
  BY DEF Init
<1>2. /\ pc = "idle" /\ from = WindowStart /\ to = WindowStart
      /\ position = NoToken /\ playlists = {} /\ channel = Nothing
      /\ token = NoToken /\ last = FALSE /\ batch = {} /\ seen = {}
      /\ yielded = [v \in Video |-> 0]
      /\ handled = {} /\ skipped = {} /\ gone = {} /\ late = {}
  BY DEF Init
<1>3. Cardinality(Channel) \in Nat /\ Cardinality(Video) \in Nat /\ Cardinality({}) = 0
  BY Lists, FS_CardinalityType, FS_EmptySet
<1>4. now \in 0 .. MaxTime /\ from \in WindowStart .. now /\ to \in from .. now
  BY <1>1, <1>2, WalkTimes
<1>5. yielded \in [Video -> 0 .. 2]
  BY <1>2
<1>6. pc \in Steps /\ last \in BOOLEAN
  BY <1>2 DEF Steps
<1>7. position \in 0 .. Cardinality(Channel) /\ token \in 0 .. Cardinality(Video)
  BY <1>2, <1>3 DEF NoToken
<1>8. Cardinality(batch) <= PageSize
  BY <1>2, <1>3, PageAssumption
<1>9. TypeOK
  BY <1>1, <1>2, <1>4, <1>5, <1>6, <1>7, <1>8 DEF TypeOK
<1>10. CursorAgrees
  BY <1>2, PageAssumption DEF CursorAgrees
<1>11. Once
  BY <1>2 DEF Once
<1> QED
  BY <1>2, <1>9, <1>10, <1>11 DEF WalkInv, ChannelsCovered, PlaylistCovered

------------------------------------------------------------------------------
\* The environment.

LEMMA TickStep == WalkInv /\ Tick => WalkInv'
<1> SUFFICES ASSUME WalkInv, Tick PROVE WalkInv'
  OBVIOUS
<1>1. /\ now' = now + 1 /\ now < MaxTime
      /\ UNCHANGED <<publishedAt, listed, withdrawn, subscribed, pc, from, to, position,
                     playlists, channel, token, last, batch, seen, yielded, handled,
                     skipped, gone, late>>
  BY DEF Tick, cursor, history
<1>2. TypeOK'
  BY <1>1, WalkTimes DEF WalkInv, TypeOK
<1>3. CursorAgrees' /\ Once' /\ ChannelsCovered' /\ PlaylistCovered'
  BY <1>1 DEF WalkInv, CursorAgrees, Once, ChannelsCovered, PlaylistCovered, Covered, Excused,
              Reached, Fetched, Recent, Older, Playlist
<1> QED
  BY <1>2, <1>3 DEF WalkInv

LEMMA Finite ==
  /\ \A items \in SUBSET Channel : IsFiniteSet(items)
  /\ \A items \in SUBSET Video : IsFiniteSet(items)
BY Lists, FS_Subset

\* A new upload moves the others to later places; it is late for the walk.
LEMMA AppearStep == ASSUME NEW x \in Video PROVE WalkInv /\ Appear(x) => WalkInv'
<1> SUFFICES ASSUME WalkInv, Appear(x) PROVE WalkInv'
  OBVIOUS
<1>1. /\ x \notin listed \cup withdrawn
      /\ listed' = listed \cup {x}
      /\ late' = IF publishedAt[x] < to THEN late \cup {x} ELSE late
      /\ UNCHANGED <<now, publishedAt, withdrawn, subscribed, pc, from, to, position,
                     playlists, channel, token, last, batch, seen, yielded, handled,
                     skipped, gone>>
  BY DEF Appear, cursor
<1>2. TypeOK'
  BY <1>1 DEF WalkInv, TypeOK
<1>3. CursorAgrees' /\ Once'
  BY <1>1 DEF WalkInv, CursorAgrees, Once, Recent, Older
<1>4. ASSUME NEW v \in Video, Recent(v), Covered(v) PROVE Covered(v)'
  BY <1>1, <1>4, CoveredStays DEF WalkInv
<1>5. ChannelsCovered'
  BY <1>1, <1>4 DEF WalkInv, ChannelsCovered, Recent, Reached
<1>6. ASSUME pc \in {"page", "yield"}, NEW v \in Video, Fetched(v)' PROVE Fetched(v)
  <2>1. /\ Playlist(channel) \in SUBSET Video /\ Playlist(channel)' \in SUBSET Video
        /\ Playlist(channel) \subseteq Playlist(channel)'
    BY <1>1 DEF WalkInv, TypeOK, Playlist
  <2>2. IsFiniteSet(Playlist(channel)) /\ IsFiniteSet(Playlist(channel)')
    BY <2>1, Finite
  <2>3. Place(Uploads[channel], Playlist(channel), v)
          <= Place(Uploads[channel], Playlist(channel)', v)
    BY <2>1, <2>2, PlaceGrows
  <2>4. /\ Place(Uploads[channel], Playlist(channel), v) \in Nat
        /\ Place(Uploads[channel], Playlist(channel)', v) \in Nat /\ token \in Nat
    BY <2>2, PlaceType DEF WalkInv, TypeOK
  <2>5. last \/ Place(Uploads[channel], Playlist(channel)', v) < token
    BY <1>1, <1>6 DEF Fetched
  <2> QED
    BY <2>3, <2>4, <2>5 DEF Fetched
<1>7. PlaylistCovered'
  BY <1>1, <1>4, <1>6 DEF WalkInv, PlaylistCovered, Recent
<1> QED
  BY <1>2, <1>3, <1>5, <1>7 DEF WalkInv

\* A withdrawn upload moves those after it behind the page token, and excuses them.
LEMMA WithdrawStep == ASSUME NEW x \in Video PROVE WalkInv /\ Withdraw(x) => WalkInv'
<1> SUFFICES ASSUME WalkInv, Withdraw(x) PROVE WalkInv'
  OBVIOUS
<1>1. /\ x \in listed /\ listed' = listed \ {x} /\ withdrawn' = withdrawn \cup {x}
      /\ gone' = IF pc = "idle" THEN gone ELSE gone \cup {x}
      /\ UNCHANGED <<now, publishedAt, subscribed, pc, from, to, position, playlists,
                     channel, token, last, batch, seen, yielded, handled, skipped, late>>
  BY DEF Withdraw, cursor
<1>2. TypeOK'
  BY <1>1 DEF WalkInv, TypeOK
<1>3. CursorAgrees' /\ Once'
  BY <1>1 DEF WalkInv, CursorAgrees, Once, Recent, Older
<1>4. ASSUME NEW v \in Video, Recent(v), Covered(v) PROVE Covered(v)'
  BY <1>1, <1>4, CoveredStays DEF WalkInv
<1>5. ChannelsCovered'
  BY <1>1, <1>4 DEF WalkInv, ChannelsCovered, Recent, Reached
<1>6. ASSUME pc \in {"page", "yield"}, NEW v \in Video, ChannelOf(v) = channel, Fetched(v)'
      PROVE  Fetched(v) \/ Covered(v)'
  <2>1. /\ Playlist(channel) \in SUBSET Video /\ Playlist(channel)' \in SUBSET Video
        /\ Playlist(channel)' = Playlist(channel) \ {x}
    BY <1>1 DEF WalkInv, TypeOK, Playlist
  <2>2. IsFiniteSet(Playlist(channel)) /\ IsFiniteSet(Playlist(channel)')
    BY <2>1, Finite
  <2>3. CASE Ahead(Uploads[channel], x, v)
    BY <1>1, <1>6, <2>3 DEF Covered, Excused
  <2>4. CASE ~ Ahead(Uploads[channel], x, v)
    <3>1. Place(Uploads[channel], Playlist(channel), v)
            <= Place(Uploads[channel], Playlist(channel)', v)
      BY <2>1, <2>2, <2>4, PlaceGrows
    <3>2. /\ Place(Uploads[channel], Playlist(channel), v) \in Nat
          /\ Place(Uploads[channel], Playlist(channel)', v) \in Nat /\ token \in Nat
      BY <2>2, PlaceType DEF WalkInv, TypeOK
    <3>3. last \/ Place(Uploads[channel], Playlist(channel)', v) < token
      BY <1>1, <1>6 DEF Fetched
    <3> QED
      BY <3>1, <3>2, <3>3 DEF Fetched
  <2> QED
    BY <2>3, <2>4
<1>7. PlaylistCovered'
  BY <1>1, <1>4, <1>6 DEF WalkInv, PlaylistCovered, Recent
<1> QED
  BY <1>2, <1>3, <1>5, <1>7 DEF WalkInv

\* So does a channel that the owner leaves with the channels after it.
LEMMA UnsubscribeStep == ASSUME NEW x \in Channel PROVE WalkInv /\ Unsubscribe(x) => WalkInv'
<1> SUFFICES ASSUME WalkInv, Unsubscribe(x) PROVE WalkInv'
  OBVIOUS
<1>1. /\ x \in subscribed /\ subscribed' = subscribed \ {x}
      /\ gone' = IF pc = "idle" THEN gone ELSE gone \cup {x}
      /\ UNCHANGED <<now, publishedAt, listed, withdrawn, pc, from, to, position, playlists,
                     channel, token, last, batch, seen, yielded, handled, skipped, late>>
  BY DEF Unsubscribe, cursor
<1>2. TypeOK'
  BY <1>1 DEF WalkInv, TypeOK
<1>3. CursorAgrees' /\ Once'
  BY <1>1 DEF WalkInv, CursorAgrees, Once, Recent, Older
<1>4. ASSUME NEW v \in Video, Recent(v), Covered(v) PROVE Covered(v)'
  BY <1>1, <1>4, CoveredStays DEF WalkInv
<1>5. ASSUME pc # "idle", NEW v \in Video, Reached(ChannelOf(v))'
      PROVE  Reached(ChannelOf(v)) \/ Covered(v)'
  <2> DEFINE c == ChannelOf(v)
  <2>1. IsFiniteSet(subscribed) /\ IsFiniteSet(subscribed')
    BY <1>1, Finite DEF WalkInv, TypeOK
  <2>2. CASE Ahead(Subscriptions, x, c)
    BY <1>1, <1>5, <2>2 DEF Covered, Excused
  <2>3. CASE ~ Ahead(Subscriptions, x, c)
    <3>1. Place(Subscriptions, subscribed, c) <= Place(Subscriptions, subscribed', c)
      BY <1>1, <2>1, <2>3, PlaceGrows
    <3>2. /\ Place(Subscriptions, subscribed, c) \in Nat
          /\ Place(Subscriptions, subscribed', c) \in Nat
      BY <2>1, PlaceType
    <3>3. position \in Nat
      BY DEF WalkInv, TypeOK
    <3>4. (pc = "subscriptions" \/ position # NoToken)
             => Place(Subscriptions, subscribed', c) < position
      BY <1>1, <1>5 DEF Reached
    <3> HIDE DEF c
    <3>5. Reached(c)
      BY <3>1, <3>2, <3>3, <3>4 DEF Reached
    <3> QED
      BY <3>5 DEF c
  <2> QED
    BY <2>2, <2>3
<1>6. ChannelsCovered'
  BY <1>1, <1>4, <1>5 DEF WalkInv, ChannelsCovered, Recent
<1>7. PlaylistCovered'
  BY <1>1, <1>4 DEF WalkInv, PlaylistCovered, Recent, Fetched, Playlist
<1> QED
  BY <1>2, <1>3, <1>6, <1>7 DEF WalkInv

------------------------------------------------------------------------------
\* The walk of the subscriptions.

LEMMA BeginStep == WalkInv /\ Begin => WalkInv'
<1> SUFFICES ASSUME WalkInv, Begin PROVE WalkInv'
  OBVIOUS
<1>1. /\ pc = "idle" /\ from < now /\ to' = now /\ pc' = "subscriptions"
      /\ UNCHANGED <<now, publishedAt, listed, withdrawn, subscribed, from, position,
                     playlists, channel, token, last, batch, seen, yielded, handled,
                     skipped, gone, late>>
  BY DEF Begin, lists, cursor, history
<1>2. TypeOK'
  BY <1>1, WalkTimes DEF WalkInv, TypeOK, Steps
<1>3. CursorAgrees' /\ Once'
  BY <1>1 DEF WalkInv, CursorAgrees, Once, Recent, Older
<1>4. \A c : Place(Subscriptions, subscribed, c) \in Nat
  BY Finite, PlaceType DEF WalkInv, TypeOK
<1>5. position' = 0
  BY <1>1 DEF WalkInv, CursorAgrees, NoToken
<1>6. \A c : ~ Reached(c)'
  BY <1>1, <1>4, <1>5 DEF Reached
<1>7. ChannelsCovered' /\ PlaylistCovered'
  BY <1>1, <1>6 DEF ChannelsCovered, PlaylistCovered
<1> QED
  BY <1>2, <1>3, <1>7 DEF WalkInv

\* The channels of the page are to be read, or were not resolved.
LEMMA FetchSubscriptionsStep == WalkInv /\ FetchSubscriptions => WalkInv'
<1> SUFFICES ASSUME WalkInv, FetchSubscriptions PROVE WalkInv'
  OBVIOUS
<1> DEFINE page == Page(Subscriptions, subscribed, position, ChannelPage)
<1>1. /\ pc = "subscriptions" /\ pc' = "playlists"
      /\ position' = NextToken(subscribed, position, ChannelPage)
      /\ UNCHANGED <<now, publishedAt, listed, withdrawn, subscribed, from, to, channel,
                     token, last, batch, seen, yielded, handled, gone, late>>
  BY DEF FetchSubscriptions, lists
<1>2. PICK dropped \in SUBSET page :
        playlists' = page \ dropped /\ skipped' = skipped \cup dropped
  BY DEF FetchSubscriptions
<1>3. page \subseteq subscribed /\ subscribed \subseteq Channel
  BY DEF Page, WalkInv, TypeOK
<1>4. /\ position \in Nat /\ ChannelPage \in Nat \ {0}
      /\ IsFiniteSet(subscribed) /\ Cardinality(subscribed) <= Cardinality(Channel)
      /\ Cardinality(subscribed) \in Nat /\ Cardinality(Channel) \in Nat
  BY <1>3, PageAssumption, Lists, FS_Subset, FS_CardinalityType DEF WalkInv, TypeOK
<1>5. /\ position' \in Nat /\ position' <= Cardinality(subscribed)
      /\ position' = NoToken => Cardinality(subscribed) <= position + ChannelPage
      /\ position' # NoToken => position' = position + ChannelPage
  BY <1>1, <1>4, NextTokenType
<1>6. position' \in 0 .. Cardinality(Channel)
  BY <1>4, <1>5
<1>7. TypeOK'
  BY <1>1, <1>2, <1>3, <1>6 DEF WalkInv, TypeOK, Steps
<1>8. CursorAgrees' /\ Once'
  BY <1>1 DEF WalkInv, CursorAgrees, Once, Recent, Older
<1>9. ASSUME NEW v \in Video, Recent(v)', ChannelOf(v) \notin playlists',
             Reached(ChannelOf(v))'
      PROVE  Covered(v)'
  <2> DEFINE c == ChannelOf(v)
  <2>1. c \in Channel
    BY ChannelOfVideo
  <2>2. CASE c \notin subscribed \/ c \in skipped'
    BY <1>1, <2>2 DEF Covered, Excused
  <2>3. CASE c \in subscribed /\ c \notin skipped'
    <3>1. Place(Subscriptions, subscribed, c) \in Nat
      BY <1>4, PlaceType
    <3>2. c \notin page
      BY <1>2, <1>9, <2>3
    <3>3. Place(Subscriptions, subscribed, c) < position + ChannelPage
      <4>1. CASE position' # NoToken
        BY <1>1, <1>5, <1>9, <4>1 DEF Reached
      <4>2. CASE position' = NoToken
        <5>1. Place(Subscriptions, subscribed, c) < Cardinality(subscribed)
          BY <1>4, <2>3, Lists, PlaceBound
        <5> QED
          BY <1>4, <1>5, <3>1, <4>2, <5>1
      <4> QED
        BY <4>1, <4>2
    <3>4. Place(Subscriptions, subscribed, c) < position
      BY <1>4, <2>3, <3>1, <3>2, <3>3 DEF Page
    <3>5. playlists = {} /\ c # channel
      BY <1>1, <2>1 DEF WalkInv, CursorAgrees
    <3>6. Recent(v) /\ Reached(c)
      BY <1>1, <1>9, <3>4 DEF Recent, Reached
    <3>7. Covered(v)
      BY <1>1, <3>5, <3>6 DEF WalkInv, ChannelsCovered
    <3> QED
      BY <1>1, <1>2, <3>6, <3>7, CoveredStays DEF WalkInv
  <2> QED
    BY <2>2, <2>3
<1>10. ChannelsCovered' /\ PlaylistCovered'
  BY <1>1, <1>9 DEF ChannelsCovered, PlaylistCovered
<1> QED
  BY <1>7, <1>8, <1>10 DEF WalkInv

LEMMA OpenPlaylistStep ==
  ASSUME NEW c \in Channel PROVE WalkInv /\ OpenPlaylist(c) => WalkInv'
<1> SUFFICES ASSUME WalkInv, OpenPlaylist(c) PROVE WalkInv'
  OBVIOUS
<1>1. /\ pc = "playlists" /\ pc' = "page" /\ c \in playlists /\ channel' = c
      /\ playlists' = playlists \ {c} /\ token' = NoToken
      /\ UNCHANGED <<now, publishedAt, listed, withdrawn, subscribed, from, to, position,
                     last, batch, seen, yielded, handled, skipped, gone, late>>
  BY DEF OpenPlaylist, lists, history
<1>2. Cardinality(Video) \in Nat /\ token' \in 0 .. Cardinality(Video)
  BY <1>1, Lists, FS_CardinalityType DEF NoToken
<1>3. TypeOK'
  BY <1>1, <1>2 DEF WalkInv, TypeOK, Steps
<1>4. CursorAgrees' /\ Once'
  BY <1>1 DEF WalkInv, CursorAgrees, Once, Recent, Older
<1>5. ASSUME NEW v \in Video, Recent(v), Covered(v) PROVE Covered(v)'
  BY <1>1, <1>5, CoveredStays DEF WalkInv
<1>6. channel \notin Channel
  BY <1>1 DEF WalkInv, CursorAgrees
<1>7. ASSUME NEW v \in Video, Recent(v)', ChannelOf(v) \notin playlists',
             ChannelOf(v) # channel', Reached(ChannelOf(v))'
      PROVE  Covered(v)'
  <2>1. Recent(v) /\ Reached(ChannelOf(v))
    BY <1>1, <1>7 DEF Recent, Reached
  <2>2. ChannelOf(v) \notin playlists /\ ChannelOf(v) # channel
    BY <1>1, <1>6, <1>7, ChannelOfVideo
  <2>3. Covered(v)
    BY <1>1, <2>1, <2>2 DEF WalkInv, ChannelsCovered
  <2> QED
    BY <1>5, <2>1, <2>3
<1>8. ChannelsCovered'
  BY <1>7 DEF ChannelsCovered
<1>9. ASSUME NEW v \in Video PROVE ~ Fetched(v)'
  <2>1. IsFiniteSet(Playlist(channel)')
    BY <1>3, Finite DEF TypeOK, Playlist
  <2>2. Place(Uploads[channel'], Playlist(channel)', v) \in Nat
    BY <2>1, PlaceType
  <2>3. last' = FALSE /\ token' = 0
    BY <1>1 DEF WalkInv, CursorAgrees, NoToken
  <2> QED
    BY <2>2, <2>3 DEF Fetched
<1>10. PlaylistCovered'
  BY <1>9 DEF PlaylistCovered
<1> QED
  BY <1>3, <1>4, <1>8, <1>10 DEF WalkInv

LEMMA SubscriptionPageEndsStep == WalkInv /\ SubscriptionPageEnds => WalkInv'
<1> SUFFICES ASSUME WalkInv, SubscriptionPageEnds PROVE WalkInv'
  OBVIOUS
<1>1. /\ pc = "playlists" /\ playlists = {}
      /\ pc' = IF position = NoToken THEN "done" ELSE "subscriptions"
      /\ UNCHANGED <<now, publishedAt, listed, withdrawn, subscribed, from, to, position,
                     playlists, channel, token, last, batch, seen, yielded, handled,
                     skipped, gone, late>>
  BY DEF SubscriptionPageEnds, lists, cursor, history
<1>2. TypeOK'
  BY <1>1 DEF WalkInv, TypeOK, Steps
<1>3. CursorAgrees' /\ Once'
  BY <1>1 DEF WalkInv, CursorAgrees, Once, Recent, Older
<1>4. ASSUME NEW v \in Video, Recent(v), Covered(v) PROVE Covered(v)'
  BY <1>1, <1>4, CoveredStays DEF WalkInv
<1>5. \A c : Reached(c)' => Reached(c)
  BY <1>1 DEF Reached
<1>6. ChannelsCovered' /\ PlaylistCovered'
  BY <1>1, <1>4, <1>5 DEF WalkInv, ChannelsCovered, PlaylistCovered, Recent
<1> QED
  BY <1>2, <1>3, <1>6 DEF WalkInv

------------------------------------------------------------------------------
\* The walk of a playlist.

\* The comparisons of the code tell the window from what is before and after it.
LEMMA FilterIsWindow ==
  ASSUME TypeOK, NEW v \in Video
  PROVE  (Kept(v) <=> Recent(v)) /\ (TooOld(v) <=> Older(v))
<1>1. /\ publishedAt \in [Video -> PublishTimes]
      /\ now \in 0 .. MaxTime /\ from \in WindowStart .. now /\ to \in from .. now
  BY DEF TypeOK
<1>2. publishedAt[v] \in Nat
  BY <1>1, WalkTimes
<1>3. from \in Nat /\ to \in Nat
  BY <1>1, WalkTimes
<1> QED
  BY <1>2, <1>3 DEF Kept, TooOld, Recent, Older

\* What a page leaves to be covered: after it nothing, if it is the last one, and the
\* uploads at later places if not.  An older upload excuses those after it.
LEMMA PageCovers ==
  ASSUME WalkInv, pc = "page", NEW v \in Video, Recent(v), ChannelOf(v) = channel,
         LET page == Page(Uploads[channel], Playlist(channel), token, PageSize)
         IN  Ends(page) \/ Place(Uploads[channel], Playlist(channel), v)
                             < NextToken(Playlist(channel), token, PageSize)
  PROVE  Covered(v) \/ v \in Page(Uploads[channel], Playlist(channel), token, PageSize)
<1> DEFINE list == Uploads[channel]
           items == Playlist(channel)
           page == Page(list, items, token, PageSize)
           place(w) == Place(list, items, w)
<1>1. channel \in Channel /\ IsList(list)
  BY Lists DEF WalkInv, CursorAgrees
<1>2. items \in SUBSET Video /\ items \subseteq Range(list)
  BY DEF WalkInv, TypeOK, Playlist
<1>3. IsFiniteSet(items) /\ Cardinality(items) \in Nat
  BY <1>2, Finite, FS_CardinalityType
<1>4. token \in Nat /\ PageSize \in Nat \ {0}
  BY PageAssumption DEF WalkInv, TypeOK
<1>5. \A w : place(w) \in Nat
  BY <1>3, PlaceType
<1>6. /\ NextToken(items, token, PageSize) = NoToken => Cardinality(items) <= token + PageSize
      /\ NextToken(items, token, PageSize) # NoToken
           => NextToken(items, token, PageSize) = token + PageSize
  BY <1>3, <1>4, NextTokenType
<1>7. place(v) < token => Covered(v)
  <2> SUFFICES ASSUME place(v) < token PROVE Covered(v)
    OBVIOUS
  <2>1. Fetched(v)
    BY DEF Fetched
  <2>2. batch = {}
    BY DEF WalkInv, CursorAgrees
  <2> QED
    BY <2>1, <2>2 DEF WalkInv, PlaylistCovered
<1>8. CASE v \notin listed
  BY <1>8 DEF Covered, Excused
<1>9. CASE v \in listed
  <2>1. v \in items
    BY <1>9, ChannelOfVideo DEF Playlist
  <2>2. CASE place(v) < token + PageSize
    <3>1. place(v) < token \/ v \in page
      BY <1>4, <1>5, <2>1, <2>2 DEF Page
    <3> QED
      BY <1>7, <3>1
  <2>3. CASE NextToken(items, token, PageSize) = NoToken
    <3>1. place(v) < Cardinality(items)
      BY <1>1, <1>3, <2>1, PlaceBound
    <3>2. place(v) < token + PageSize
      BY <1>3, <1>4, <1>5, <1>6, <2>3, <3>1
    <3> QED
      BY <2>2, <3>2
  <2>4. CASE \E w \in page : Older(w)
    <3>1. PICK w \in page : Older(w)
      BY <2>4
    <3>2. w \in items /\ place(w) < token + PageSize
      BY DEF Page
    <3>3. v # w
      <4>1. /\ publishedAt \in [Video -> PublishTimes]
            /\ now \in 0 .. MaxTime /\ from \in WindowStart .. now
        BY DEF WalkInv, TypeOK
      <4>2. publishedAt[v] \in Nat
        BY <4>1, WalkTimes
      <4>3. from \in Nat
        BY <4>1, WalkTimes
      <4> QED
        BY <3>1, <4>2, <4>3 DEF Older, Recent
    <3>4. CASE Ahead(list, v, w)
      <4>1. place(v) < place(w)
        BY <1>1, <1>3, <2>1, <3>4, PlaceOrder
      <4>2. place(v) < token + PageSize
        BY <1>4, <1>5, <3>2, <4>1
      <4> QED
        BY <2>2, <4>2
    <3>5. CASE Ahead(list, w, v)
      BY <1>2, <3>1, <3>2, <3>5 DEF Covered, Excused
    <3> QED
      BY <1>1, <1>2, <2>1, <3>2, <3>3, <3>4, <3>5, AheadIsOrder
  <2>5. CASE NextToken(items, token, PageSize) # NoToken
             /\ place(v) < NextToken(items, token, PageSize)
    BY <1>6, <2>2, <2>5
  <2>6. \/ \E w \in page : TooOld(w)
        \/ NextToken(items, token, PageSize) = NoToken
        \/ place(v) < NextToken(items, token, PageSize)
    BY DEF Ends
  <2>7. page \subseteq Video
    BY <1>2 DEF Page
  <2>8. \A w \in page : TooOld(w) => Older(w)
    BY <2>7, FilterIsWindow DEF WalkInv
  <2> QED
    BY <2>2, <2>3, <2>4, <2>5, <2>6, <2>8
<1> QED
  BY <1>8, <1>9

\* The uploads of the window on the page are to be yielded.
LEMMA FetchPageStep == WalkInv /\ FetchPage => WalkInv'
<1> SUFFICES ASSUME WalkInv, FetchPage PROVE WalkInv'
  OBVIOUS
<1> DEFINE items == Playlist(channel)
           page == Page(Uploads[channel], items, token, PageSize)
           next == NextToken(items, token, PageSize)
<1>1. /\ pc = "page" /\ batch' = {v \in page : Kept(v)}
      /\ IF batch' = {} THEN AfterPage(Ends(page), next)
         ELSE /\ pc' = "yield" /\ token' = next /\ last' = Ends(page) /\ UNCHANGED channel
      /\ UNCHANGED <<now, publishedAt, listed, withdrawn, subscribed, from, to, position,
                     playlists, seen, yielded, handled, skipped, gone, late>>
  BY DEF FetchPage, lists, history
<1>2. channel \in Channel /\ IsList(Uploads[channel])
  BY <1>1, Lists DEF WalkInv, CursorAgrees
<1>3. items \in SUBSET Video /\ items \in SUBSET Range(Uploads[channel])
  BY DEF WalkInv, TypeOK, Playlist
<1>4. /\ IsFiniteSet(items) /\ Cardinality(items) \in Nat /\ Cardinality(Video) \in Nat
      /\ Cardinality(items) <= Cardinality(Video)
  BY <1>3, Finite, Lists, FS_Subset, FS_CardinalityType
<1>5. token \in Nat /\ PageSize \in Nat \ {0}
  BY PageAssumption DEF WalkInv, TypeOK
<1>6. next \in Nat /\ next <= Cardinality(items)
  BY <1>4, <1>5, NextTokenType
<1>7. next \in 0 .. Cardinality(Video)
  BY <1>4, <1>6
<1>8. page \subseteq Video /\ batch' \subseteq page
  BY <1>1, <1>3 DEF Page
<1>9. Cardinality(batch') <= PageSize
  <2>1. IsFiniteSet(page) /\ Cardinality(page) <= PageSize
    BY <1>2, <1>3, <1>4, <1>5, PageBounded
  <2>2. batch' \in SUBSET page
    BY <1>8
  <2>3. Cardinality(batch') <= Cardinality(page) /\ IsFiniteSet(batch')
    BY <2>1, <2>2, FS_Subset
  <2>4. Cardinality(batch') \in Nat /\ Cardinality(page) \in Nat
    BY <2>1, <2>3, FS_CardinalityType
  <2> QED
    BY <1>5, <2>1, <2>3, <2>4
<1>10. Ends(page) \in BOOLEAN /\ (next = NoToken => Ends(page))
  BY DEF Ends
<1> HIDE DEF next, page, items
<1>11. \/ /\ batch' = {} /\ Ends(page) /\ pc' = "playlists" /\ channel' = Nothing
          /\ token' = NoToken /\ last' = FALSE
       \/ /\ batch' = {} /\ ~ Ends(page) /\ pc' = "page" /\ channel' = channel
          /\ token' = next /\ last' = FALSE
       \/ /\ batch' # {} /\ pc' = "yield" /\ channel' = channel
          /\ token' = next /\ last' = Ends(page)
  BY <1>1 DEF AfterPage, ClosePlaylist
<1>12. token' \in 0 .. Cardinality(Video)
  BY <1>4, <1>7, <1>11 DEF NoToken
<1>13. TypeOK'
  <2>1. pc' \in Steps /\ last' \in BOOLEAN /\ channel' \in Channel \cup {Nothing}
    BY <1>2, <1>10, <1>11 DEF Steps
  <2> QED
    BY <1>1, <1>8, <1>9, <1>12, <2>1 DEF WalkInv, TypeOK
<1>14. CursorAgrees'
  BY <1>1, <1>2, <1>10, <1>11, PageAssumption DEF WalkInv, CursorAgrees
<1>15. Once'
  <2>1. \A v \in batch' : Recent(v)
    BY <1>1, <1>8, FilterIsWindow DEF WalkInv
  <2> QED
    BY <1>1, <2>1 DEF WalkInv, Once, Recent, Older
<1>16. ASSUME NEW v \in Video, Recent(v), Covered(v) PROVE Covered(v)'
  BY <1>1, <1>16, CoveredStays DEF WalkInv
<1>17. ASSUME NEW v \in Video, Recent(v), ChannelOf(v) = channel,
              Ends(page) \/ Place(Uploads[channel], items, v) < next
       PROVE  Covered(v)' \/ v \in batch'
  <2>1. Covered(v) \/ v \in page
    BY <1>1, <1>17, PageCovers DEF page, items, next
  <2>2. Kept(v)
    BY <1>17, FilterIsWindow DEF WalkInv
  <2> QED
    BY <1>1, <1>16, <1>17, <2>1, <2>2
<1>18. Playlist(channel)' = Playlist(channel') /\ items = Playlist(channel)
  BY <1>1 DEF Playlist, items
<1>19. ASSUME NEW v \in Video, Recent(v)', ChannelOf(v) \notin playlists',
              ChannelOf(v) # channel', Reached(ChannelOf(v))'
       PROVE  Covered(v)'
  <2>1. Recent(v) /\ ChannelOf(v) \notin playlists /\ Reached(ChannelOf(v))
    BY <1>1, <1>11, <1>19 DEF Recent, Reached
  <2>2. CASE ChannelOf(v) # channel
    BY <1>1, <1>16, <2>1, <2>2 DEF WalkInv, ChannelsCovered
  <2>3. CASE ChannelOf(v) = channel
    <3>1. batch' = {} /\ Ends(page)
      BY <1>11, <1>19, <2>3
    <3> QED
      BY <1>17, <2>1, <2>3, <3>1
  <2> QED
    BY <2>2, <2>3
<1>20. ChannelsCovered'
  BY <1>19 DEF ChannelsCovered
<1>21. ASSUME pc' \in {"page", "yield"}, NEW v \in Video, Recent(v)',
              ChannelOf(v) = channel', Fetched(v)'
       PROVE  Covered(v)' \/ v \in batch'
  <2>1. channel' = channel /\ token' = next /\ (last' => Ends(page))
    BY <1>11, <1>21
  <2>2. Recent(v)
    BY <1>1, <1>21 DEF Recent
  <2>3. last' \/ Place(Uploads[channel], items, v) < next
    BY <1>18, <1>21, <2>1 DEF Fetched
  <2> QED
    BY <1>17, <1>21, <2>1, <2>2, <2>3
<1>22. PlaylistCovered'
  BY <1>21 DEF PlaylistCovered
<1> QED
  BY <1>13, <1>14, <1>15, <1>20, <1>22 DEF WalkInv

LEMMA ChannelUnavailableStep == WalkInv /\ ChannelUnavailable => WalkInv'
<1> SUFFICES ASSUME WalkInv, ChannelUnavailable PROVE WalkInv'
  OBVIOUS
<1>1. /\ pc = "page" /\ pc' = "playlists" /\ channel' = Nothing /\ token' = NoToken
      /\ last' = FALSE /\ skipped' = skipped \cup {channel}
      /\ UNCHANGED <<now, publishedAt, listed, withdrawn, subscribed, from, to, position,
                     playlists, batch, seen, yielded, handled, gone, late>>
  BY DEF ChannelUnavailable, ClosePlaylist, lists
<1>2. channel \in Channel
  BY <1>1 DEF WalkInv, CursorAgrees
<1>3. Cardinality(Video) \in Nat /\ token' \in 0 .. Cardinality(Video)
  BY <1>1, Lists, FS_CardinalityType DEF NoToken
<1>4. TypeOK'
  BY <1>1, <1>2, <1>3 DEF WalkInv, TypeOK, Steps
<1>5. CursorAgrees' /\ Once'
  BY <1>1, PageAssumption DEF WalkInv, CursorAgrees, Once, Recent, Older
<1>6. ASSUME NEW v \in Video, Recent(v), Covered(v) PROVE Covered(v)'
  BY <1>1, <1>6, CoveredStays DEF WalkInv
<1>7. ASSUME NEW v \in Video, Recent(v)', ChannelOf(v) \notin playlists',
             Reached(ChannelOf(v))'
      PROVE  Covered(v)'
  <2>1. Recent(v) /\ ChannelOf(v) \notin playlists /\ Reached(ChannelOf(v))
    BY <1>1, <1>7 DEF Recent, Reached
  <2>2. CASE ChannelOf(v) # channel
    BY <1>1, <1>6, <2>1, <2>2 DEF WalkInv, ChannelsCovered
  <2>3. CASE ChannelOf(v) = channel
    BY <1>1, <2>3 DEF Covered, Excused
  <2> QED
    BY <2>2, <2>3
<1>8. ChannelsCovered' /\ PlaylistCovered'
  BY <1>1, <1>7 DEF ChannelsCovered, PlaylistCovered
<1> QED
  BY <1>4, <1>5, <1>8 DEF WalkInv

\* The first upload of the batch is yielded, unless it was on an earlier page.
LEMMA YieldStep == ASSUME NEW x \in Video PROVE WalkInv /\ Yield(x) => WalkInv'
<1> SUFFICES ASSUME WalkInv, Yield(x) PROVE WalkInv'
  OBVIOUS
<1>1. /\ pc = "yield" /\ x \in batch
      /\ yielded' = [yielded EXCEPT ![x] = IF x \notin seen /\ @ < 2 THEN @ + 1 ELSE @]
      /\ seen' = seen \cup {x} /\ batch' = batch \ {x}
      /\ UNCHANGED <<now, publishedAt, listed, withdrawn, subscribed, from, to, position,
                     playlists, handled, skipped, gone, late>>
  BY DEF Yield, IsNew, lists
<1>2. channel \in Channel
  BY <1>1 DEF WalkInv, CursorAgrees
<1>3. \/ /\ batch' = {} /\ last = TRUE /\ pc' = "playlists" /\ channel' = Nothing
         /\ token' = NoToken /\ last' = FALSE
      \/ /\ batch' = {} /\ last = FALSE /\ pc' = "page" /\ channel' = channel
         /\ token' = token /\ last' = FALSE
      \/ /\ batch' # {} /\ pc' = "yield" /\ channel' = channel
         /\ token' = token /\ last' = last
  <2>1. last \in BOOLEAN
    BY DEF WalkInv, TypeOK
  <2>2. CASE batch = {x}
    BY <1>1, <2>1, <2>2 DEF Yield, AfterPage, ClosePlaylist
  <2>3. CASE batch # {x}
    BY <1>1, <2>1, <2>3 DEF Yield
  <2> QED
    BY <2>2, <2>3
<1>4. /\ token \in 0 .. Cardinality(Video) /\ Cardinality(Video) \in Nat
      /\ token' \in 0 .. Cardinality(Video)
  BY <1>3, Lists, FS_CardinalityType DEF WalkInv, TypeOK, NoToken
<1>5. yielded' = [v \in Video |-> IF v \in seen' THEN 1 ELSE 0]
  <2>1. yielded = [v \in Video |-> IF v \in seen THEN 1 ELSE 0]
    BY DEF WalkInv, Once
  <2>2. yielded'[x] = 1 /\ \A v \in Video \ {x} : yielded'[v] = yielded[v]
    BY <1>1, <2>1
  <2>3. yielded' = [v \in Video |-> yielded'[v]]
    BY <1>1, <2>1
  <2>4. \A v \in Video : yielded'[v] = IF v \in seen' THEN 1 ELSE 0
    BY <1>1, <2>1, <2>2
  <2> QED
    BY <2>3, <2>4
<1>6. Cardinality(batch') <= PageSize
  <2>1. batch \in SUBSET Video /\ Cardinality(batch) <= PageSize
    BY DEF WalkInv, TypeOK
  <2>2. IsFiniteSet(batch) /\ batch' \in SUBSET batch
    BY <1>1, <2>1, Finite
  <2>3. IsFiniteSet(batch') /\ Cardinality(batch') <= Cardinality(batch)
    BY <2>2, FS_Subset
  <2>4. Cardinality(batch') \in Nat /\ Cardinality(batch) \in Nat /\ PageSize \in Nat
    BY <2>2, <2>3, FS_CardinalityType, PageAssumption
  <2> QED
    BY <2>1, <2>3, <2>4
<1>7. TypeOK'
  <2>1. pc' \in Steps /\ last' \in BOOLEAN /\ channel' \in Channel \cup {Nothing}
    BY <1>2, <1>3 DEF Steps, WalkInv, TypeOK
  <2>2. yielded' \in [Video -> 0 .. 2] /\ seen' \subseteq Video /\ batch' \subseteq Video
    BY <1>1, <1>5 DEF WalkInv, TypeOK
  <2> QED
    BY <1>1, <1>4, <1>6, <2>1, <2>2 DEF WalkInv, TypeOK
<1>8. CursorAgrees'
  BY <1>1, <1>2, <1>3, PageAssumption DEF WalkInv, CursorAgrees
<1>9. Once'
  BY <1>1, <1>5 DEF WalkInv, Once, Recent, Older
<1>10. ASSUME NEW v \in Video, Recent(v), Covered(v) PROVE Covered(v)'
  BY <1>1, <1>10, CoveredStays DEF WalkInv
<1>11. ASSUME NEW v \in Video, Recent(v), ChannelOf(v) = channel, Fetched(v)
       PROVE  Covered(v)' \/ v \in batch'
  <2>1. Covered(v) \/ v \in batch
    BY <1>1, <1>11 DEF WalkInv, PlaylistCovered
  <2>2. CASE v = x
    BY <1>1, <2>2 DEF Covered
  <2> QED
    BY <1>1, <1>10, <1>11, <2>1, <2>2
<1>12. ASSUME NEW v \in Video, Recent(v)', ChannelOf(v) \notin playlists',
              ChannelOf(v) # channel', Reached(ChannelOf(v))'
       PROVE  Covered(v)'
  <2>1. Recent(v) /\ ChannelOf(v) \notin playlists /\ Reached(ChannelOf(v))
    BY <1>1, <1>3, <1>12 DEF Recent, Reached
  <2>2. CASE ChannelOf(v) # channel
    BY <1>1, <1>10, <2>1, <2>2 DEF WalkInv, ChannelsCovered
  <2>3. CASE ChannelOf(v) = channel
    BY <1>3, <1>11, <1>12, <2>1, <2>3 DEF Fetched
  <2> QED
    BY <2>2, <2>3
<1>13. ChannelsCovered'
  BY <1>12 DEF ChannelsCovered
<1>14. ASSUME pc' \in {"page", "yield"}, NEW v \in Video, Recent(v)',
              ChannelOf(v) = channel', Fetched(v)'
       PROVE  Covered(v)' \/ v \in batch'
  <2>1. channel' = channel /\ token' = token /\ (last' => last)
    BY <1>3, <1>14
  <2>2. Recent(v) /\ Fetched(v)
    BY <1>1, <1>14, <2>1 DEF Recent, Fetched, Playlist
  <2> QED
    BY <1>11, <1>14, <2>1, <2>2
<1>15. PlaylistCovered'
  BY <1>14 DEF PlaylistCovered
<1> QED
  BY <1>7, <1>8, <1>9, <1>13, <1>15 DEF WalkInv

------------------------------------------------------------------------------
\* The end of a walk.

LEMMA EndStep == WalkInv /\ (Complete \/ WalkFails) => WalkInv'
<1> SUFFICES ASSUME WalkInv, Complete \/ WalkFails PROVE WalkInv'
  OBVIOUS
<1>1. /\ pc' = "idle" /\ position' = NoToken /\ playlists' = {} /\ channel' = Nothing
      /\ token' = NoToken /\ last' = FALSE /\ batch' = {} /\ seen' = {}
      /\ yielded' = [v \in Video |-> 0] /\ skipped' = {} /\ gone' = {}
      /\ UNCHANGED <<now, publishedAt, listed, withdrawn, subscribed, late>>
  BY DEF Complete, WalkFails, Closed, lists
<1>2. /\ now \in 0 .. MaxTime /\ from \in WindowStart .. now /\ to \in from .. now
      /\ handled \subseteq Video
  BY DEF WalkInv, TypeOK
<1>3. /\ from' \in WindowStart .. now /\ to' \in from' .. now /\ handled' \subseteq Video
      /\ \A v \in handled' : Older(v)'
  <2>1. CASE Complete
    <3>1. /\ from' = to /\ to' = to
          /\ handled' = handled \cup {v \in Video : yielded[v] > 0}
      BY <2>1 DEF Complete
    <3>2. yielded = [v \in Video |-> IF v \in seen THEN 1 ELSE 0]
      BY DEF WalkInv, Once
    <3>3. \A v \in handled' : v \in handled \/ (v \in Video /\ v \in seen)
      BY <3>1, <3>2
    <3>4. \A v \in handled' : v \in Video /\ (Older(v) \/ Recent(v))
      BY <1>2, <3>3 DEF WalkInv, Once
    <3>5. from \in Nat /\ to \in Nat /\ from <= to /\ to <= now
      BY <1>2, WalkTimes
    <3>6. \A v \in Video : publishedAt[v] \in Nat
      <4>1. publishedAt \in [Video -> PublishTimes]
        BY DEF WalkInv, TypeOK
      <4> QED
        BY <4>1, WalkTimes
    <3>7. \A v \in handled' : publishedAt[v] < to
      BY <3>4, <3>5, <3>6 DEF Older, Recent
    <3>8. \A v \in handled' : Older(v)'
      BY <1>1, <3>1, <3>7 DEF Older
    <3>9. from' \in WindowStart .. now /\ to' \in from' .. now
      BY <1>2, <3>1, WalkTimes
    <3> QED
      BY <3>4, <3>8, <3>9
  <2>2. CASE WalkFails
    <3>1. from' = from /\ to' = from /\ handled' = handled
      BY <2>2 DEF WalkFails
    <3>2. from' \in WindowStart .. now /\ to' \in from' .. now
      BY <1>2, <3>1, WalkTimes
    <3> QED
      BY <1>1, <1>2, <3>1, <3>2 DEF WalkInv, Once, Older
  <2> QED
    BY <2>1, <2>2
<1>4. /\ Cardinality(Channel) \in Nat /\ Cardinality(Video) \in Nat
      /\ Cardinality({}) = 0 /\ PageSize \in Nat
  BY Lists, FS_CardinalityType, FS_EmptySet, PageAssumption
<1>5. position' \in 0 .. Cardinality(Channel) /\ token' \in 0 .. Cardinality(Video)
  BY <1>1, <1>4 DEF NoToken
<1>6. Cardinality(batch') <= PageSize
  BY <1>1, <1>4
<1>7. yielded' \in [Video -> 0 .. 2]
  BY <1>1
<1>8. TypeOK'
  BY <1>1, <1>3, <1>5, <1>6, <1>7 DEF WalkInv, TypeOK, Steps
<1>9. CursorAgrees' /\ ChannelsCovered' /\ PlaylistCovered'
  BY <1>1, PageAssumption DEF CursorAgrees, ChannelsCovered, PlaylistCovered
<1>10. Once'
  BY <1>1, <1>3 DEF Once
<1> QED
  BY <1>8, <1>9, <1>10 DEF WalkInv

LEMMA WalkNext == WalkInv /\ [Next]_vars => WalkInv'
<1> SUFFICES ASSUME WalkInv, [Next]_vars PROVE WalkInv'
  OBVIOUS
<1>1. CASE Tick
  BY <1>1, TickStep
<1>2. ASSUME NEW v \in Video, Appear(v) \/ Withdraw(v) PROVE WalkInv'
  BY <1>2, AppearStep, WithdrawStep
<1>3. ASSUME NEW c \in Channel, Unsubscribe(c) \/ OpenPlaylist(c) PROVE WalkInv'
  BY <1>3, UnsubscribeStep, OpenPlaylistStep
<1>4. CASE Begin \/ FetchSubscriptions \/ SubscriptionPageEnds
  BY <1>4, BeginStep, FetchSubscriptionsStep, SubscriptionPageEndsStep
<1>5. CASE FetchPage \/ ChannelUnavailable
  BY <1>5, FetchPageStep, ChannelUnavailableStep
<1>6. ASSUME NEW v \in Video, Yield(v) PROVE WalkInv'
  BY <1>6, YieldStep
<1>7. CASE Complete \/ WalkFails
  BY <1>7, EndStep
<1>8. CASE UNCHANGED vars
  BY <1>8
     DEF vars, lists, cursor, history, WalkInv, TypeOK, CursorAgrees, Once, ChannelsCovered,
         PlaylistCovered, Covered, Excused, Reached, Fetched, Recent, Older, Playlist
<1> QED
  BY <1>1, <1>2, <1>3, <1>4, <1>5, <1>6, <1>7, <1>8 DEF Next, WalkStep

LEMMA WalkInvariant == Spec => []WalkInv
BY WalkInit, WalkNext, PTL DEF Spec

------------------------------------------------------------------------------
\* Theorems.

\* Every variable has its type: the page tokens stay within the lists and a batch
\* within a page, however the lists change (_iter_playlist_videos).
THEOREM TypeCorrect == Spec => []TypeOK
<1>1. WalkInv => TypeOK
  BY DEF WalkInv
<1> QED
  BY <1>1, WalkInvariant, PTL

\* A walk that ends has yielded every upload of its window that it could have found
\* (iter_recent_videos, _iter_playlist_videos, _fetch_playlist_video_page).
THEOREM NothingIsMissed == Spec => []NothingMissed
<1>1. WalkInv => NothingMissed
  <2> SUFFICES ASSUME WalkInv, pc = "done", NEW v \in Video, Recent(v)
               PROVE  v \in seen \/ Excused(v)
    BY DEF NothingMissed
  <2>1. playlists = {} /\ position = NoToken /\ channel \notin Channel
    BY DEF WalkInv, CursorAgrees
  <2>2. ChannelOf(v) \notin playlists /\ ChannelOf(v) # channel /\ Reached(ChannelOf(v))
    BY <2>1, ChannelOfVideo DEF Reached
  <2> QED
    BY <2>2 DEF WalkInv, ChannelsCovered, Covered
<1> QED
  BY <1>1, WalkInvariant, PTL

\* No upload is yielded twice by a walk, nor by the walks of two completed windows
\* (seen_video_ids, the window filter of _fetch_playlist_video_page).
THEOREM YieldedAtMostOnce == Spec => []YieldedOnce
<1>1. WalkInv => YieldedOnce
  <2> SUFFICES ASSUME WalkInv, NEW v \in Video
               PROVE  yielded[v] <= IF v \in handled THEN 0 ELSE 1
    BY DEF YieldedOnce
  <2>1. yielded[v] = IF v \in seen THEN 1 ELSE 0
    BY DEF WalkInv, Once
  <2>2. CASE v \in seen /\ v \in handled
    <3>1. publishedAt \in [Video -> PublishTimes]
          /\ now \in 0 .. MaxTime /\ from \in WindowStart .. now
      BY DEF WalkInv, TypeOK
    <3>2. publishedAt[v] \in Nat
      BY <3>1, WalkTimes
    <3>3. from \in Nat
      BY <3>1, WalkTimes
    <3>4. Recent(v) /\ Older(v)
      BY <2>2 DEF WalkInv, Once
    <3> QED
      BY <3>2, <3>3, <3>4 DEF Recent, Older
  <2> QED
    BY <2>1, <2>2
<1> QED
  BY <1>1, WalkInvariant, PTL

=============================================================================
