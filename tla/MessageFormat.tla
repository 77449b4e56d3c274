---------------------------- MODULE MessageFormat ----------------------------
(***************************************************************************)
(* The message TelegramDelivery sends about a video                        *)
(* (src/texttube/adapters/telegram.py, format_message): HTML within        *)
(* Telegram's length.                                                      *)
(*                                                                         *)
(* A text is a sequence of characters.  One character stands for all those *)
(* html.escape replaces, one for all others, and a line break is the only  *)
(* white space.  The lengths are parameters, so that short texts reach the *)
(* limit: an entity has three characters here, a tag two.                  *)
(***************************************************************************)
EXTENDS Integers, SequencesExt

CONSTANTS
  MaxLength,  \* TELEGRAM_MAX_MESSAGE_LENGTH
  Room,       \* The least length worth trimming a body to, 20.
  Reserve,    \* The length a trimmed body leaves unused, 15.
  Link,       \* The link to the video.
  Notice      \* DESCRIPTION_FALLBACK_NOTICE, one line.

Break == "\n"

ASSUME LengthAssumption == MaxLength \in Nat \ {0} /\ Room \in Nat /\ Reserve \in 0 .. Room
ASSUME LinkAssumption == Link \in Seq(Range(Link)) /\ Range(Link) \cap {"<", "&"} = {}
ASSUME NoticeAssumption ==
  /\ Notice \in Seq(Range(Notice)) /\ "<" \notin Range(Notice)
  /\ Notice # <<>> /\ Notice[1] # Break

Gap == <<Break, Break>>

Escaped(char) == IF char = "&" THEN <<"&", "a", ";">> ELSE <<char>>

\* The length of what precedes character i of a text that is escaped.
Offset(text, i) == i - 1 + 2 * Cardinality({j \in 1 .. i - 1 : text[j] = "&"})

\* html.escape: each character in its place.
Escape(text) ==
  LET source(n) == Max({i \in DOMAIN text : Offset(text, i) < n})
  IN  [n \in 1 .. Offset(text, Len(text) + 1) |->
         Escaped(text[source(n)])[n - Offset(text, source(n))]]

\* Positions of a text that are not white space, and str.strip.
Inked(text) == {i \in DOMAIN text : text[i] # Break}

Strip(text) ==
  IF Inked(text) = {} THEN <<>> ELSE SubSeq(text, Min(Inked(text)), Max(Inked(text)))

\* The first n characters of a text.
Upto(text, n) == SubSeq(text, 1, IF n < Len(text) THEN n ELSE Len(text))

\* Where the lines of a text end.
LineEnds(text) ==
  {i \in 0 .. Len(text) : i = Len(text) \/ text[i + 1] = Break}

\* Mutants of WholeLines: line breaks are not counted; the cut ignores lines; a
\* line that fits exactly is left out.
WholeLinesUncounted(text, length) ==
  LET breaks(i) == Cardinality({j \in 1 .. i : text[j] = Break})
  IN  Upto(text, Max({0} \cup {i \in LineEnds(text) : i - breaks(i) <= length}))

WholeCharacters(text, length) == Upto(text, length)

WholeLinesTight(text, length) ==
  Upto(text, Max({0} \cup {i \in LineEnds(text) : i < length}))

\* The loop over splitlines: the whole lines that fit into a length.
WholeLines(text, length) ==
  Upto(text, Max({0} \cup {i \in LineEnds(text) : i <= length}))

\* The header of a message: the channel in italics, and the title.
Header(channel, title) == <<"<", ">">> \o Escape(channel) \o <<"<", ">">> \o Escape(title)

Body(text, description) ==
  Escape(IF description THEN Notice \o Gap \o Strip(text) ELSE Strip(text))

Available(header) == MaxLength - (Len(header) + Len(Link) + 4)

\* Whole lines of the body, or the start of its first line.
Trimmed(body, available) ==
  LET lines == Strip(WholeLines(body, available - Reserve))
  IN  IF lines = <<>> THEN Strip(Upto(body, available - Reserve)) ELSE lines

Compose(header, body) == header \o Gap \o body \o Gap \o Link

\* format_message
FormatMessage(channel, title, text, description) ==
  LET header == Header(channel, title)
      body == Body(text, description)
      message == Compose(header, body)
  IN  CASE Len(message) <= MaxLength  -> message
        [] Len(message) > MaxLength /\ Available(header) <= Room
                                      -> Upto(message, MaxLength - 1)
        [] OTHER                      -> Compose(header, Trimmed(body, Available(header)))

\* Every entity and every tag of a message is complete, and every tag closed.
WellFormed(message) ==
  /\ \A i \in DOMAIN message :
       /\ message[i] = "&" =>
            i + 2 <= Len(message) /\ message[i + 1] = "a" /\ message[i + 2] = ";"
       /\ message[i] = "<" => i + 1 <= Len(message) /\ message[i + 1] = ">"
  /\ Cardinality({i \in DOMAIN message : message[i] = "<"}) \in {0, 2}

=============================================================================
