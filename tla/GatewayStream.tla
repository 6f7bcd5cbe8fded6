--------------------------- MODULE GatewayStream ----------------------------
(***************************************************************************)
(* The gateway's rehydration of a streamed answer (gateway.py,             *)
(* StreamRehydrator and event_stream): the provider sends the text of the  *)
(* answer in pieces cut anywhere, and what may be the beginning of a       *)
(* placeholder is held back until the rest has come.                       *)
(*                                                                         *)
(* A stream carries the text of one or more channels, OpenAI's choices or  *)
(* Anthropic's content blocks, which share one buffer, and the arguments   *)
(* of tool calls, in fragments that bypass it.  A text is a sequence of    *)
(* characters, each with its channel.  A placeholder is five characters:   *)
(* two brackets, its name, two brackets.  Lines that carry neither pass by *)
(* at once and change nothing of this.                                     *)
(***************************************************************************)
EXTENDS Integers, SequencesExt

CONSTANTS
  Open, Close, \* the two brackets
  Name,        \* the names a placeholder can have
  Known,       \* those of the session's vault
  Plain,       \* other characters
  Channel,     \* the choices or content blocks of the answer
  Unnamed,     \* the channel of an event that names none
  MaxHeld,     \* the length a placeholder is assumed to have at most
  Fragment,    \* bound: the fragments that arguments come in
  MaxPiece,    \* bound: the characters of a piece
  MaxText      \* bound: the characters of an answer, arguments included

Char == {Open, Close} \cup Name \cup Plain

\* The value behind a name, as one character of the client's text.
ValueOf(n) == <<n>>

ASSUME CharAssumption ==
  /\ Open # Close /\ {Open, Close} \cap (Name \cup Plain) = {}
  /\ Known \subseteq Name /\ Name \cap Plain = {}
  /\ \A n \in Known : ValueOf(n) \notin Char
  /\ Fragment \subseteq Seq(Char) \ {<<>>} /\ Unnamed \notin Channel
ASSUME BoundsAssumption == MaxHeld \in Nat /\ MaxHeld >= 5 /\ MaxPiece \in Nat /\ MaxText \in Nat

VARIABLES
  phase,    \* the stream: open, done (its last line has come) or broken
  pending,  \* text held back
  out,      \* text sent on to the client
  args,     \* arguments sent on to the client
  \* History, read by the properties alone:
  received, \* the text so far
  split,    \* where it was cut after an opening bracket: channel and place
  sent,     \* the fragments of arguments so far
  mixed     \* whether a channel's text came while another's was held back

streamVars == <<phase, pending, out, args, received, split, sent, mixed>>

-----------------------------------------------------------------------------
(* GatewayVault.rehydrate: placeholders of the vault become their values.  *)

\* Where a placeholder begins.
Starts(text) ==
  {i \in 1 .. Len(text) - 4 :
     /\ text[i] = Open /\ text[i + 1] = Open /\ text[i + 2] \in Name
     /\ text[i + 3] = Close /\ text[i + 4] = Close}

RehydrateText(text) ==
  LET known == {i \in Starts(text) : text[i + 2] \in Known}
  IN  FlattenSeq([i \in DOMAIN text |->
        IF i \in known THEN <<ValueOf(text[i + 2])>>
        ELSE IF \E k \in known : k < i /\ i <= k + 4 THEN <<>>
        ELSE <<text[i]>>])

-----------------------------------------------------------------------------
\* Bug: any closing brackets count, not only those after the last opening.
HeldFromFirstClose(text) ==
  LET opens == {i \in 1 .. Len(text) - 1 : text[i] = Open /\ text[i + 1] = Open}
      closes == {i \in 1 .. Len(text) - 1 : text[i] = Close /\ text[i + 1] = Close}
  IN  IF opens # {} /\ closes = {} /\ Len(text) - Max(opens) + 1 <= MaxHeld
      THEN Len(text) - Max(opens) + 1 ELSE 0

\* Bug: the length is not limited.
HeldAnyLength(text) ==
  LET opens == {i \in 1 .. Len(text) - 1 : text[i] = Open /\ text[i + 1] = Open}
      last == Max(opens)
      closed == \E i \in last .. Len(text) - 1 : text[i] = Close /\ text[i + 1] = Close
  IN  IF opens # {} /\ ~closed THEN Len(text) - last + 1 ELSE 0

\* How much of the text's end is held back: from the last opening brackets
\* on, unless they are closed or the rest is too long for a placeholder.
Held(text) ==
  LET opens == {i \in 1 .. Len(text) - 1 : text[i] = Open /\ text[i + 1] = Open}
      last == Max(opens)
      closed == \E i \in last .. Len(text) - 1 : text[i] = Close /\ text[i + 1] = Close
  IN  IF opens # {} /\ ~closed /\ Len(text) - last + 1 <= MaxHeld
      THEN Len(text) - last + 1 ELSE 0

StreamInit ==
  /\ phase = "open"
  /\ pending = <<>> /\ out = <<>> /\ args = <<>>
  /\ received = <<>> /\ split = {} /\ sent = <<>> /\ mixed = FALSE

On(ch, text) == [i \in DOMAIN text |-> <<ch, text[i]>>]

\* The text that a sequence of characters on channels has on one.
Of(ch, text) == FlattenSeq([i \in DOMAIN text |-> IF text[i][1] = ch THEN <<text[i][2]>> ELSE <<>>])

\* Bug: what is emitted stays in the buffer when nothing of it is held.
KeptUnlessHeld(text, emitted) == IF emitted = Len(text) THEN text ELSE SubSeq(text, emitted + 1, Len(text))

Kept(text, emitted) == SubSeq(text, emitted + 1, Len(text))

Room(piece) == Len(received) + Len(FlattenSeq(sent)) + Len(piece) <= MaxText

\* A line with a piece of a channel's text: feed.  What is emitted goes out
\* with this line, and so on its channel.
Feed(ch, piece) ==
  LET text == pending \o piece
      safeEnd == Len(text) - Held(text)
  IN  /\ phase = "open" /\ Room(piece)
      /\ out' = out \o On(ch, RehydrateText(SubSeq(text, 1, safeEnd)))
      /\ pending' = Kept(text, safeEnd)
      /\ received' = received \o On(ch, piece)
      /\ split' = IF Last(piece) = Open THEN split \cup {<<ch, Len(Of(ch, received'))>>} ELSE split
      /\ mixed' = (mixed \/ (pending # <<>> /\ Last(received)[1] # ch))
      /\ UNCHANGED <<phase, args, sent>>

\* Bug: a fragment is put behind what is held back of the text.
PassHeld(piece) ==
  LET text == pending \o piece
      safeEnd == Len(text) - Held(text)
  IN  /\ phase = "open" /\ Room(piece)
      /\ args' = args \o RehydrateText(SubSeq(text, 1, safeEnd))
      /\ pending' = Kept(text, safeEnd)
      /\ sent' = Append(sent, piece)
      /\ UNCHANGED <<phase, out, received, split, mixed>>

\* A line without text: what strings it has, the arguments of a tool call
\* among them, are rehydrated one by one.
Pass(piece) ==
  /\ phase = "open" /\ Room(piece)
  /\ args' = args \o RehydrateText(piece)
  /\ sent' = Append(sent, piece)
  /\ UNCHANGED <<phase, pending, out, received, split, mixed>>

\* The line [DONE]: flush, in an event of its own that names no channel.
Done ==
  /\ phase = "open" /\ phase' = "done"
  /\ out' = out \o On(Unnamed, RehydrateText(pending))
  /\ pending' = <<>>
  /\ UNCHANGED <<args, received, split, sent, mixed>>

\* The stream ends without that line, or breaks off: nothing is flushed.
Break ==
  /\ phase = "open" /\ phase' = "broken"
  /\ UNCHANGED <<pending, out, args, received, split, sent, mixed>>

StreamNext ==
  \/ \E ch \in Channel, n \in 1 .. MaxPiece : \E piece \in [1 .. n -> Char] : Feed(ch, piece)
  \/ \E piece \in Fragment : Pass(piece)
  \/ Done
  \/ Break

StreamSpec == StreamInit /\ [][StreamNext]_streamVars

-----------------------------------------------------------------------------
(* Properties.                                                             *)

\* The variables have their types, and no more is held back than may still
\* become a placeholder: it opens one and does not close it.
StreamTypeOK ==
  /\ phase \in {"open", "done", "broken"}
  /\ pending \in Seq(Char)
  /\ received \in Seq(Channel \X Char) /\ split \subseteq Channel \X Nat /\ sent \in Seq(Fragment)
  /\ out \in Seq((Channel \cup {Unnamed}) \X (Char \cup {ValueOf(n) : n \in Known}))
  /\ args \in Seq(Char \cup {ValueOf(n) : n \in Known})
  /\ mixed \in BOOLEAN
  /\ pending # <<>> =>
       /\ Len(pending) <= MaxHeld
       /\ pending[1] = Open /\ pending[2] = Open
       /\ \A i \in 1 .. Len(pending) - 1 : ~(pending[i] = Close /\ pending[i + 1] = Close)

\* No placeholder of a channel was cut between its first two brackets.
WellCut(ch) == \A i \in Starts(Of(ch, received)) : <<ch, i>> \notin split

\* However else the text is cut, each channel gets what it would have got in
\* one piece, but for what is held back of the last or was flushed without
\* its name; unless another's text came while some was held back.
StreamExact ==
  ~mixed => \A ch \in Channel : WellCut(ch) =>
    LET rest == IF received # <<>> /\ Last(received)[1] = ch
                THEN Of(Unnamed, out) \o RehydrateText(pending) ELSE <<>>
    IN  Of(ch, out) \o rest = RehydrateText(Of(ch, received))

\* The text a client's text was made from.
Dehydrated(text) ==
  FlattenSeq([i \in DOMAIN text |->
    IF \E n \in Known : text[i] = ValueOf(n) THEN <<Open, Open, text[i][1], Close, Close>> ELSE <<text[i]>>])

\* Wherever the text is cut, and whichever channels it is of, no part of it
\* is lost, doubled or out of place.  What is held back counts as kept, also
\* when the stream has broken off and the client never gets it.
NothingLost ==
  Dehydrated([i \in DOMAIN out |-> out[i][2]]) \o pending
    = [i \in DOMAIN received |-> received[i][2]]

\* Arguments, which no later text can change: what was held back of the text
\* never shows in them, and they come rehydrated, as far as no placeholder
\* of theirs is cut.
ArgumentsExact ==
  LET cuts == {Len(FlattenSeq(SubSeq(sent, 1, i))) : i \in DOMAIN sent}
  IN  (\A i \in Starts(FlattenSeq(sent)) : cuts \cap i .. i + 3 = {}) =>
        args = RehydrateText(FlattenSeq(sent))
=============================================================================
