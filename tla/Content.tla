------------------------------- MODULE Content -------------------------------
(***************************************************************************)
(* The pure decisions about the content of a delivery, over bounded        *)
(* inputs: which captions a video is summarized from (CaptionRanking) and  *)
(* which message carries the summary (MessageFormat).                      *)
(*                                                                         *)
(* A behaviour has one input and computes its output.                      *)
(***************************************************************************)
EXTENDS CaptionRanking, MessageFormat

CONSTANTS
  Languages,    \* Languages of captions and videos.
  Preferences,  \* Values of TRANSCRIPT_LANGUAGES.
  MaxCaptions,  \* Bound on the captions of a video.
  MaxTitle,     \* Bound on the length of a title.
  MaxText       \* Bound on the length of a summary.

ASSUME PreferencesAssumption == \A p \in Preferences : p \in Seq(Range(p))

VARIABLES
  input,   \* What is decided about.
  output   \* The captions' order and choice, or the message.

vars == <<input, output>>

Undecided == <<>>

Captions ==
  [language : Languages, generated : BOOLEAN, outcome : {"text", "nothing", "blocked"}]

Videos ==
  [captions : UNION {[1 .. n -> Captions] : n \in 1 .. MaxCaptions},
   preferred : Preferences,
   original : Languages \cup {<<>>}]

Summaries ==
  [channel : {<<"x">>},
   title : UNION {[1 .. n -> {"x", "&"}] : n \in 0 .. MaxTitle},
   text : UNION {[1 .. n -> {"x", "&", Break}] : n \in 1 .. MaxText},
   description : BOOLEAN]

Init == input \in Videos \cup Summaries /\ output = Undecided

ChooseCaption ==
  /\ input \in Videos /\ output = Undecided
  /\ output' = FetchOnce(input.captions, input.preferred, input.original)
  /\ UNCHANGED input

Format ==
  /\ input \in Summaries /\ output = Undecided
  /\ output' = FormatMessage(input.channel, input.title, input.text, input.description)
  /\ UNCHANGED input

Next == ChooseCaption \/ Format

Spec == Init /\ [][Next]_vars

------------------------------------------------------------------------------
\* Properties.

Chosen == input \in Videos /\ output # Undecided
Formatted == input \in Summaries /\ output # Undecided

Texts == {c \in Range(input.captions) : c.outcome = "text"}

\* The preference of a caption or of the language of the video.
Preference(language) == Min(Matching(language, input.preferred))
Preferred(c) == Matching(c.language, input.preferred) # {}

\* Preferences for the language spoken: that of the video or, if YouTube does not
\* name it, those of generated captions.
Spoken ==
  IF input.original # <<>>
    THEN Matching(input.original, input.preferred)
    ELSE {Preference(c.language) : c \in {d \in Range(input.captions) :
                                           d.generated /\ Preferred(d)}}

Unblocked == \A c \in Range(input.captions) : c.outcome # "blocked"

\* The place of a caption among the others: the language spoken, the configured
\* ones in order, then the rest; and whether its code is a configured one.
Group(c) ==
  IF Preferred(c)
    THEN IF Spoken # {} /\ Preference(c.language) = Min(Spoken) THEN 0
         ELSE Preference(c.language)
    ELSE Len(input.preferred) + 1

Exact(c) == Preferred(c) /\ c.language = input.preferred[Preference(c.language)]

\* Captions with text, and those whose request is blocked.
Rivals == {i \in DOMAIN input.captions : input.captions[i].outcome # "nothing"}

\* An IP block is reported, and the route changed, unless there is text in a
\* language as good; text in a worse language does not hide it, and it is never
\* taken for a missing transcript (_fetch_once).
BlockInItsPlace ==
  Chosen =>
    /\ output = Unavailable <=> Rivals = {}
    /\ output # Unavailable =>
         \A i \in Rivals :
           input.captions[i].outcome # output.outcome => Group(output) <= Group(input.captions[i])

\* The language spoken wins if it is configured and there is text in it, then the
\* first configured language with text; other languages come last, in the order
\* YouTube lists them (order_candidates).
LanguageOrder ==
  (Chosen /\ Unblocked /\ Texts # {}) =>
    LET spoken == {c \in Texts : /\ Preferred(c) /\ Spoken # {}
                                /\ Preference(c.language) = Min(Spoken)}
        configured == {c \in Texts : Preferred(c)}
    IN  \/ output \in spoken
        \/ spoken = {} /\ output \in configured
             /\ \A c \in configured : Preference(output.language) <= Preference(c.language)
        \/ configured = {}
             /\ output = input.captions[Min({i \in DOMAIN input.captions :
                                                 input.captions[i] \in Texts})]

\* Among captions of one preference, and among those of none, an exact code wins
\* over variants, and if that does not tell them apart the one listed first over
\* those listed later (transcript_language_match_rank, order_candidates).
ExactBeforeVariant ==
  (Chosen /\ output # Unavailable) =>
    \E i \in Rivals :
      /\ output = input.captions[i]
      /\ \A j \in Rivals :
           Group(input.captions[j]) = Group(output) =>
             IF Exact(input.captions[j]) = Exact(output) THEN i <= j ELSE Exact(output)

\* A message never exceeds Telegram's length, whatever is escaped and trimmed
\* (format_message).
WithinLength == Formatted => Len(output) <= MaxLength

\* A message is complete HTML unless the header leaves no room for a body or its
\* first line alone is longer than the room: only then is it cut inside an
\* entity or a tag, and Telegram rejects it (format_message).
CompleteUnlessNoRoom ==
  (Formatted /\ ~ WellFormed(output)) =>
    LET header == Header(input.channel, input.title)
        body == Body(input.text, input.description)
    IN  \/ Available(header) <= Room
        \/ Min(LineEnds(body)) > Available(header) - Reserve

\* Trimming loses the end of the body only, and no more of it than it must: what
\* remains are all lines that end within the room or, if the first does not, its
\* start, but for line breaks at the end.  A header without room for a body is
\* the exception: there the message is cut, with its link (format_message).
LongestStartKept ==
  Formatted =>
    LET header == Header(input.channel, input.title)
        body == Body(input.text, input.description)
        message == Compose(header, body)
        limit == Available(header) - Reserve
        blank(n, i) == \A k \in n + 1 .. i : body[k] = Break
    IN  \/ /\ Available(header) <= Room /\ Len(message) > MaxLength
           /\ \E n \in 0 .. Len(message) : output = Upto(message, n)
        \/ \E n \in 0 .. Len(body) :
             /\ output = Compose(header, Upto(body, n))
             /\ n > 0 \/ body = <<>>
             /\ \A i \in LineEnds(body) : i <= limit => blank(n, i)
             /\ limit < Min(LineEnds(body)) => n = Len(body) \/ blank(n, limit)

=============================================================================
