---------------------------- MODULE CaptionRanking ----------------------------
(***************************************************************************)
(* The order in which NativeTranscriptFetcher                              *)
(* (src/texttube/adapters/transcripts.py) tries the captions of a video,   *)
(* and the caption one fetch returns.                                      *)
(*                                                                         *)
(* A language code is the sequence of its subtags, in lower case: en-us is *)
(* <<en, us>>, a missing code the empty sequence.  A caption is a record   *)
(* of its language, whether it is generated, and what a request for it     *)
(* comes to: text, nothing (an empty transcript or an error of its own) or *)
(* an IP block.                                                            *)
(***************************************************************************)
EXTENDS Integers, SequencesExt

\* A language that no preference matches, and a fetch without a transcript.
NoRank == <<>>
Unavailable == [outcome |-> "unavailable"]

\* Preference p matches its own code and the codes it is a prefix of.
Matching(language, preferred) == {i \in DOMAIN preferred : IsPrefix(preferred[i], language)}

\* transcript_language_match_rank: the first matching preference, and whether
\* the code is a variant of it.
MatchRank(language, preferred) ==
  IF Matching(language, preferred) = {} THEN NoRank
  ELSE LET i == Min(Matching(language, preferred))
       IN  <<i, IF preferred[i] = language THEN 0 ELSE 1>>

\* Mutant of OriginalRank: the language of the video is ignored.
GeneratedRank(captions, preferred, original) ==
  LET ranks == {MatchRank(captions[i].language, preferred) :
                  i \in {j \in DOMAIN captions : captions[j].generated}} \ {NoRank}
  IN  IF ranks = {} THEN NoRank
      ELSE CHOOSE r \in ranks : \A s \in ranks : r[1] < s[1] \/ (r[1] = s[1] /\ r[2] <= s[2])

\* select_original_audio_language_rank: the language of the video if YouTube
\* names it, the best match among generated captions if not.
OriginalRank(captions, preferred, original) ==
  IF original # <<>>
    THEN MatchRank(original, preferred)
    ELSE GeneratedRank(captions, preferred, original)

\* The place of a caption: a preference, 0 for the promoted one, the number
\* after the last for a language that none matches; exact before variant.
Place(caption, preferred, promoted) ==
  LET rank == MatchRank(caption.language, preferred) IN
  CASE rank = NoRank                                   -> <<Len(preferred) + 1, 0>>
    [] promoted # NoRank /\ rank # NoRank
       /\ promoted[1] = rank[1]                        -> <<0, rank[2]>>
    [] OTHER                                           -> rank

\* Mutant of Before: variants rank with the exact code.
BeforeAnyVariant(p, i, q, j) == p[1] < q[1] \/ (p[1] = q[1] /\ i < j)

\* Captions i and j of the listing, at places p and q: equal places keep their order.
Before(p, i, q, j) ==
  \/ p[1] < q[1]
  \/ p[1] = q[1] /\ (p[2] < q[2] \/ (p[2] = q[2] /\ i < j))

\* order_candidates: a sorted copy, in which as many captions precede one as
\* there are before it.
OrderCandidates(captions, preferred, original) ==
  LET promoted == OriginalRank(captions, preferred, original)
      place(i) == Place(captions[i], preferred, promoted)
      preceding(i) == {j \in DOMAIN captions : Before(place(j), j, place(i), i)}
  IN  IF preferred = <<>> THEN captions
      ELSE [n \in DOMAIN captions |->
              captions[CHOOSE i \in DOMAIN captions : Cardinality(preceding(i)) = n - 1]]

\* Mutant of FirstDecisive: an IP block is taken for a caption's own error.
FirstText(order) == {n \in DOMAIN order : order[n].outcome = "text"}

\* Requests that end the loop of _fetch_once.
FirstDecisive(order) == {n \in DOMAIN order : order[n].outcome \in {"text", "blocked"}}

\* _fetch_once tries the captions in order; a block ends the fetch, which then
\* changes its route.
FetchOnce(captions, preferred, original) ==
  LET order == OrderCandidates(captions, preferred, original)
  IN  IF FirstDecisive(order) = {} THEN Unavailable ELSE order[Min(FirstDecisive(order))]

=============================================================================
