--------------------------- MODULE YouTubeDiscovery ---------------------------
(***************************************************************************)
(* The walk of YouTubeDiscovery.iter_recent_videos                         *)
(* (src/texttube/adapters/youtube.py) over the subscriptions and their     *)
(* uploads playlists, window after window.                                 *)
(*                                                                         *)
(* The generator asks for a page when its consumer has dealt with the      *)
(* uploads of the one before, so videos appear, disappear and channels are *)
(* unsubscribed between two pages of a list.  A page token stands for a    *)
(* position.  What YouTube lists, and where, is external: the order of a   *)
(* list never changes, but items enter and leave it.                       *)
(*                                                                         *)
(* The consumer is a subscription run without a limit: a walk that ends    *)
(* completes the window, one that fails is repeated with a later end.      *)
(***************************************************************************)
EXTENDS Integers, Sequences, FiniteSets, Functions

CONSTANTS
  Subscriptions,  \* The channels, in the order of the subscriptions list.
  Uploads,        \* The uploads of each channel, in the order of its playlist.
  PageSize,       \* YOUTUBE_PAGE_SIZE, the uploads on a page.
  ChannelPage,    \* The subscriptions on a page, which may be fewer.
  PublishTimes,   \* When videos may be published.
  WindowStart,    \* The start of the first window.
  MaxTime,        \* Bound on the clock.
  Laggards,       \* Videos that may be listed long after their publication.
  MaxLeft,        \* Bound on the channels the owner leaves.
  Nothing,        \* No channel is being read.
  Events          \* What the environment may do, see AllEvents.

\* fatal: a request fails, or the access token of the run has expired;
\* channel: a playlist is not found or not supported; unresolved: the channels
\* request names no uploads playlist; withdraw: a video is deleted or made
\* private; unsubscribe: the owner leaves a channel; disorder: a playlist is not
\* in order of publication.
AllEvents == {"fatal", "channel", "unresolved", "withdraw", "unsubscribe",
              "disorder"}

Channel == Range(Subscriptions)
Video == UNION {Range(Uploads[c]) : c \in Channel}

ASSUME ListsAssumption ==
  /\ Subscriptions \in Seq(Channel) /\ IsInjective(Subscriptions)
  /\ \A c \in Channel : Uploads[c] \in Seq(Video) /\ IsInjective(Uploads[c])
  /\ \A c, d \in Channel : c # d => Range(Uploads[c]) \cap Range(Uploads[d]) = {}
ASSUME PageAssumption ==
  PageSize \in Nat \ {0} /\ ChannelPage \in 1 .. PageSize /\ Nothing \notin Channel
ASSUME WalkTimes ==
  MaxTime \in Nat /\ MaxLeft \in Nat /\ WindowStart \in 0 .. MaxTime /\ PublishTimes \subseteq Nat
ASSUME WalkEvents == Events \subseteq AllEvents

VARIABLES
  now,          \* The clock.
  publishedAt,  \* When each video is published.
  listed,       \* Videos YouTube lists in the playlist of their channel.
  withdrawn,    \* Videos that were deleted or made private.
  subscribed    \* Channels in the subscriptions list.

VARIABLES
  pc,           \* The step of the walk.
  from,         \* window_start
  to,           \* window_end
  position,     \* The page token of the subscriptions page.
  playlists,    \* Channels of the page still to be read.
  channel,      \* The channel whose playlist is read.
  token,        \* next_page_token of its playlist.
  last,         \* The walk of the playlist ends after this page.
  batch,        \* Uploads of the page still to be yielded, in the order of the list.
  seen          \* seen_video_ids

\* History of the system, read by the properties only.
VARIABLES
  yielded,      \* How often the walk yielded each video, up to two.
  handled,      \* Videos yielded by the walk of a completed window.
  skipped,      \* Channels of the walk that were reported or not resolved.
  gone,         \* Videos and channels that left a list during the walk.
  late          \* Videos that were not listed when the walk of their window began.

lists == <<now, publishedAt, listed, withdrawn, subscribed>>
cursor == <<position, playlists, channel, token, last, batch>>
history == <<yielded, handled, skipped, gone, late>>
vars == <<lists, pc, from, to, cursor, seen, history>>

------------------------------------------------------------------------------
Steps == {"idle", "subscriptions", "playlists", "page", "yield", "done"}

NoToken == 0

ChannelOf(v) == CHOOSE c \in Channel : v \in Range(Uploads[c])

\* Item v is before item w in a list.
Ahead(list, v, w) ==
  \E i, j \in DOMAIN list : i < j /\ list[i] = v /\ list[j] = w

\* The place of v among the items that a list has now.
Place(list, items, v) == Cardinality({w \in items : Ahead(list, w, v)})

\* A page of a list, and the token of the next.
Page(list, items, start, size) ==
  {v \in items : start <= Place(list, items, v) /\ Place(list, items, v) < start + size}

NextToken(items, start, size) ==
  IF start + size < Cardinality(items) THEN start + size ELSE NoToken

Playlist(c) == Range(Uploads[c]) \cap listed

Ordered(times) ==
  \A c \in Channel : \A v, w \in Range(Uploads[c]) :
    Ahead(Uploads[c], v, w) => times[v] >= times[w]

Init ==
  /\ now = WindowStart
  /\ publishedAt \in {times \in [Video -> PublishTimes] :
                        "disorder" \in Events \/ Ordered(times)}
  /\ listed = {v \in Video : publishedAt[v] < WindowStart}
  /\ withdrawn = {} /\ subscribed = Channel
  /\ pc = "idle" /\ from = WindowStart /\ to = WindowStart
  /\ position = NoToken /\ playlists = {} /\ channel = Nothing
  /\ token = NoToken /\ last = FALSE /\ batch = {} /\ seen = {}
  /\ yielded = [v \in Video |-> 0]
  /\ handled = {} /\ skipped = {} /\ gone = {} /\ late = {}

------------------------------------------------------------------------------
\* The environment.

\* But for the laggards, a video is listed within the tick of its publication.
Tick ==
  /\ now < MaxTime
  /\ {v \in Video : publishedAt[v] <= now} \subseteq listed \cup withdrawn \cup Laggards
  /\ now' = now + 1
  /\ UNCHANGED <<publishedAt, listed, withdrawn, subscribed, pc, from, to, cursor, seen, history>>

Appear(v) ==
  /\ publishedAt[v] <= now
  /\ v \notin listed \cup withdrawn
  /\ listed' = listed \cup {v}
  /\ late' = IF publishedAt[v] < to THEN late \cup {v} ELSE late
  /\ UNCHANGED <<now, publishedAt, withdrawn, subscribed, pc, from, to, cursor,
                 seen, yielded, handled, skipped, gone>>

Withdraw(v) ==
  /\ "withdraw" \in Events
  /\ v \in listed
  /\ listed' = listed \ {v}
  /\ withdrawn' = withdrawn \cup {v}
  /\ gone' = IF pc = "idle" THEN gone ELSE gone \cup {v}
  /\ UNCHANGED <<now, publishedAt, subscribed, pc, from, to, cursor, seen,
                 yielded, handled, skipped, late>>

Unsubscribe(c) ==
  /\ "unsubscribe" \in Events
  /\ c \in subscribed
  /\ Cardinality(Channel \ subscribed) < MaxLeft
  /\ subscribed' = subscribed \ {c}
  /\ gone' = IF pc = "idle" THEN gone ELSE gone \cup {c}
  /\ UNCHANGED <<now, publishedAt, listed, withdrawn, pc, from, to, cursor, seen,
                 yielded, handled, skipped, late>>

------------------------------------------------------------------------------
\* A run starts the walk of the window that ends now.
Begin ==
  /\ pc = "idle"
  /\ from < now
  /\ to' = now
  /\ pc' = "subscriptions"
  /\ UNCHANGED <<lists, from, cursor, seen, history>>

\* A page of subscriptions and the uploads playlists of its channels; a channel
\* without one is dropped.
FetchSubscriptions ==
  /\ pc = "subscriptions"
  /\ \E dropped \in SUBSET Page(Subscriptions, subscribed, position, ChannelPage) :
       /\ "unresolved" \in Events \/ dropped = {}
       /\ playlists' = Page(Subscriptions, subscribed, position, ChannelPage) \ dropped
       /\ skipped' = skipped \cup dropped
  /\ position' = NextToken(subscribed, position, ChannelPage)
  /\ pc' = "playlists"
  /\ UNCHANGED <<lists, from, to, channel, token, last, batch, seen,
                 yielded, handled, gone, late>>

OpenPlaylist(c) ==
  /\ pc = "playlists"
  /\ c \in playlists
  /\ channel' = c
  /\ playlists' = playlists \ {c}
  /\ token' = NoToken
  /\ pc' = "page"
  /\ UNCHANGED <<lists, from, to, position, last, batch, seen, history>>

SubscriptionPageEnds ==
  /\ pc = "playlists"
  /\ playlists = {}
  /\ pc' = IF position = NoToken THEN "done" ELSE "subscriptions"
  /\ UNCHANGED <<lists, from, to, cursor, seen, history>>

\* The walk continues after a page whose uploads have all been yielded.
ClosePlaylist ==
  pc' = "playlists" /\ channel' = Nothing /\ token' = NoToken /\ last' = FALSE

AfterPage(ended, next) ==
  IF ended THEN ClosePlaylist
  ELSE pc' = "page" /\ token' = next /\ last' = FALSE /\ UNCHANGED channel

\* An upload from before the window, and the filter of a page.
TooOld(v) == publishedAt[v] < from
Kept(v) == ~ (publishedAt[v] >= to) /\ ~ TooOld(v)

\* Mutant of Ends: a page without an upload of the window is the last.
EndsUnlessRecent(page) ==
  \/ \A v \in page : ~ Kept(v)
  \/ NextToken(Playlist(channel), token, PageSize) = NoToken

\* No page follows one with an older upload.
Ends(page) ==
  \/ \E v \in page : TooOld(v)
  \/ NextToken(Playlist(channel), token, PageSize) = NoToken

\* A page of uploads with the details of those in the window.  Items without an
\* id or a readable time of publication, which the code drops, are not listed.
FetchPage ==
  LET page == Page(Uploads[channel], Playlist(channel), token, PageSize)
      next == NextToken(Playlist(channel), token, PageSize)
      recent == {v \in page : Kept(v)}
  IN  /\ pc = "page"
      /\ batch' = recent
      /\ IF recent = {}
           THEN AfterPage(Ends(page), next)
           ELSE /\ pc' = "yield" /\ token' = next /\ last' = Ends(page)
                /\ UNCHANGED channel
      /\ UNCHANGED <<lists, from, to, position, playlists, seen, history>>

\* playlistNotFound or playlistOperationUnsupported: the rest of the channel is
\* reported and skipped.
ChannelUnavailable ==
  /\ "channel" \in Events
  /\ pc = "page"
  /\ skipped' = skipped \cup {channel}
  /\ ClosePlaylist
  /\ UNCHANGED <<lists, from, to, position, playlists, batch, seen,
                 yielded, handled, gone, late>>

\* Mutant of IsNew: the ids of other pages are forgotten.
IsNewInPage(v) == v \in batch

IsNew(v) == v \notin seen

Yield(v) ==
  /\ pc = "yield"
  /\ v \in batch
  /\ \A w \in batch : ~ Ahead(Uploads[channel], w, v)
  /\ yielded' = [yielded EXCEPT ![v] = IF IsNew(v) /\ @ < 2 THEN @ + 1 ELSE @]
  /\ seen' = seen \cup {v}
  /\ batch' = batch \ {v}
  /\ IF batch = {v}
       THEN AfterPage(last, token)
       ELSE UNCHANGED <<pc, channel, token, last>>
  /\ UNCHANGED <<lists, from, to, position, playlists, handled, skipped, gone, late>>

------------------------------------------------------------------------------
\* The end of a walk, seen by its consumer.

\* The generator and what it holds are gone.
Closed ==
  /\ pc' = "idle"
  /\ position' = NoToken /\ playlists' = {} /\ channel' = Nothing
  /\ token' = NoToken /\ last' = FALSE /\ batch' = {} /\ seen' = {}
  /\ yielded' = [v \in Video |-> 0]
  /\ skipped' = {} /\ gone' = {}

\* Mutant of Complete: the cutoff moves to the end of the run.
CompleteNow ==
  /\ pc = "done"
  /\ Closed
  /\ from' = now
  /\ handled' = handled \cup {v \in Video : yielded[v] > 0}
  /\ UNCHANGED <<lists, to, late>>

\* complete_window
Complete ==
  /\ pc = "done"
  /\ Closed
  /\ from' = to
  /\ handled' = handled \cup {v \in Video : yielded[v] > 0}
  /\ UNCHANGED <<lists, to, late>>

\* Every other failure of a request ends the run, as an interrupt of its
\* consumer does; the cutoff stays.
WalkFails ==
  /\ "fatal" \in Events
  /\ pc \in {"subscriptions", "page", "yield"}
  /\ Closed
  /\ to' = from
  /\ UNCHANGED <<lists, from, handled, late>>

------------------------------------------------------------------------------
WalkStep ==
  \/ FetchSubscriptions \/ (\E c \in Channel : OpenPlaylist(c))
  \/ SubscriptionPageEnds \/ FetchPage \/ (\E v \in Video : Yield(v))

Next ==
  \/ Tick
  \/ \E v \in Video : Appear(v) \/ Withdraw(v)
  \/ \E c \in Channel : Unsubscribe(c)
  \/ Begin \/ WalkStep \/ ChannelUnavailable \/ Complete \/ WalkFails

Spec == Init /\ [][Next]_vars

------------------------------------------------------------------------------
\* Properties.

\* Every variable has its type.
TypeOK ==
  /\ now \in 0 .. MaxTime
  /\ publishedAt \in [Video -> PublishTimes]
  /\ listed \subseteq Video /\ withdrawn \subseteq Video \ listed
  /\ subscribed \subseteq Channel
  /\ pc \in Steps
  /\ from \in WindowStart .. now /\ to \in from .. now
  /\ position \in 0 .. Cardinality(Channel) /\ token \in 0 .. Cardinality(Video)
  /\ playlists \subseteq Channel /\ channel \in Channel \cup {Nothing}
  /\ last \in BOOLEAN
  /\ batch \subseteq Video /\ Cardinality(batch) <= PageSize
  /\ seen \subseteq Video
  /\ yielded \in [Video -> 0 .. 2] /\ handled \subseteq Video
  /\ skipped \subseteq Channel /\ gone \subseteq Video \cup Channel
  /\ late \subseteq Video

\* The window of a run, from its start up to and without its end, which the code
\* tells apart with the comparisons of Kept and TooOld.
Recent(v) == from <= publishedAt[v] /\ publishedAt[v] < to
Older(v) == publishedAt[v] < from

\* What may keep a walk from an upload of its window: YouTube no longer listed
\* it or not yet; its channel was skipped or left; an upload ahead of it is
\* older than the window; or an item ahead of it left the list during the walk,
\* which moved it to a page that had been read.
Excused(v) ==
  LET c == ChannelOf(v) IN
  \/ v \notin listed \/ v \in late
  \/ c \in skipped \/ c \notin subscribed
  \/ \E w \in Video : Ahead(Uploads[c], w, v) /\ (Older(w) \/ w \in gone)
  \/ \E d \in gone : Ahead(Subscriptions, d, c)

\* A walk that ends has yielded every upload of its window, over any number of
\* pages, while new uploads and new pages shift the lists under it
\* (iter_recent_videos, _iter_playlist_videos, _fetch_playlist_video_page).
NothingMissed ==
  pc = "done" => \A v \in Video : Recent(v) => v \in seen \/ Excused(v)

\* A walk yields an upload once, although it may find it on two pages, and no
\* walk yields an upload of a window that was completed before: windows meet at
\* one instant and are closed on one side (seen_video_ids, window filter).
YieldedOnce ==
  \A v \in Video : yielded[v] <= IF v \in handled THEN 0 ELSE 1

=============================================================================
