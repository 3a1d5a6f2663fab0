--------------------------- MODULE GatewayStream ---------------------------
(***************************************************************************)
(* The streamed answer of the privacy gateway                              *)
(* (anno-privacy-gateway/src/server.rs and stream.rs).  The text a model   *)
(* sends comes cut into fragments at places nobody chooses, also inside a  *)
(* pseudonym; the gateway holds text back so that it can put every         *)
(* pseudonym's original into what it passes on.                            *)
(*                                                                         *)
(* Text is a sequence of pieces: "head" is the start of a prefix such as   *)
(* PERS, "tail" its rest ON_, then come the digits of the number; "stop"   *)
(* is a character that ends a sentence, and, in the JSON of a tool call,   *)
(* the bracket that closes it.  The vault knows some numbers, of which one *)
(* may be a prefix of another (PERSON_1 and PERSON_11), and does not       *)
(* change.  The scan for fresh personal data is left out, but for the      *)
(* timer it switches off; Rehydrator::rehydrate has no failing path, so    *)
(* the error events after it have no action.  A frame is taken when it is  *)
(* complete.                                                               *)
(***************************************************************************)
EXTENDS Naturals, SequencesExt

CONSTANTS Digit,        \* the digits of a number
          Vault,        \* Vault[n]: what the known pseudonym of number n stands for
          Order,        \* sorted_mappings: the numbers of the vault, longest first
          MaxChars,     \* stream_max_buffer_chars, counted in pieces
          MaxSent,      \* bound: pieces of text and tool JSON upstream sends
          MaxFragment   \* bound: pieces in one fragment

ASSUME DigitAssumption == Digit \cap {"head", "tail", "stop", "frame", "none"} = {}
ASSUME VaultAssumption ==
  /\ DOMAIN Vault \subseteq Seq(Digit) \ {<<>>}
  /\ \A number \in DOMAIN Vault : Vault[number] \notin {"head", "tail"} \cup Digit
ASSUME OrderAssumption ==
  /\ Order \in Seq(DOMAIN Vault)
  /\ \A number \in DOMAIN Vault : \E k \in 1..Len(Order) : Order[k] = number
  /\ \A k \in 1..Len(Order) : \A l \in 1..k : Len(Order[l]) >= Len(Order[k])
ASSUME BoundsAssumption == MaxChars \in Nat /\ MaxSent \in Nat /\ MaxFragment \in Nat

VARIABLES
  mode,    \* the route: "legacy" and "legacy_scan" (stream_messages without
           \* and with BufferedScan), "provider" and "provider_clear"
           \* (provider_stream_messages, pseudonymized or cleartext)
  phase,   \* "open", "stopped" ([DONE] came), "ended" (upstream closed), "failed"
  pending, \* StreamBuffer.pending
  tool,    \* tool_json_buffer
  got,     \* text upstream sent, "frame" where another frame came
  put,     \* text passed on, "frame" where another frame was passed on
  gotTool, \* tool JSON upstream sent
  putTool  \* tool JSON passed on

vars == <<mode, phase, pending, tool, got, put, gotTool, putTool>>

Piece == {"head", "tail", "stop"} \cup Digit
Original == {Vault[number] : number \in DOMAIN Vault}
Mode == {"legacy", "legacy_scan", "provider", "provider_clear"}
Fragment == SeqOf(Piece, MaxFragment) \ {<<>>}
Provider == mode \in {"provider", "provider_clear"}
Private == mode # "provider_clear"

-----------------------------------------------------------------------------
(* Pseudonyms in a text.                                                   *)

\* The token of that number begins at piece i.
TokenAt(text, i, number) ==
  /\ i + 1 + Len(number) <= Len(text)
  /\ text[i] = "head" /\ text[i + 1] = "tail"
  /\ \A k \in 1..Len(number) : text[i + 1 + k] = number[k]

\* Piece i belongs to such a token that begins before it.
Within(text, i, number) ==
  \E j \in 1..i - 1 : TokenAt(text, j, number) /\ i <= j + 1 + Len(number)

\* str::replace.  A token begins with the only head it has, so tokens do not overlap.
\* The original takes the place of the first piece of its token, "none" that of the
\* others: a position of the result is one of the text.
Replace(text, number) ==
  [i \in 1..Len(text) |->
    IF TokenAt(text, i, number) THEN Vault[number]
    ELSE IF Within(text, i, number) THEN "none" ELSE text[i]]

\* Rehydrator::rehydrate: one token after the other, longest first.
Rehydrate(text) ==
  LET result[k \in 0..Len(Order)] ==
        IF k = 0 THEN text ELSE Replace(result[k - 1], Order[k])
  IN result[Len(Order)]

\* Mutant: a pseudonym counts as complete with its first digit.
OpenUntilDigit(text) ==
  text # <<>> /\ Last(text) \in {"head", "tail"}

\* ends_with_open_pseudonym_prefix
Open(text) ==
  \/ text # <<>> /\ Last(text) = "head"
  \/ \E i \in 1..Len(text) - 1 : /\ text[i] = "head"
                                 /\ text[i + 1] = "tail"
                                 /\ \A j \in i + 2..Len(text) : text[j] \in Digit

\* Mutant: only the end of a sentence counts.
ReadyAtStop(text) == /\ ~ Open(text)
                     /\ Last(text) = "stop"

\* The test of StreamBuffer::push for handing over what is pending.
Ready(text) == /\ ~ Open(text)
               /\ Last(text) = "stop" \/ Len(text) >= MaxChars

Init == /\ mode \in Mode
        /\ phase = "open"
        /\ pending = <<>> /\ tool = <<>>
        /\ got = <<>> /\ put = <<>>
        /\ gotTool = <<>> /\ putTool = <<>>

\* Upstream may send a fragment of n pieces (a bound).
MaySend(n) == phase = "open" /\ Len(got) + Len(gotTool) + n <= MaxSent

\* flush_stream_text with finish: all that is pending goes out.
Finish == put \o Rehydrate(pending)

\* A text delta.
TextDelta(fragment) ==
  /\ MaySend(Len(fragment))
  /\ got' = got \o fragment
  /\ LET text == pending \o fragment
     IN \/ /\ ~ Private
           /\ put' = put \o fragment
           /\ UNCHANGED pending
        \/ /\ Private /\ Ready(text)
           /\ put' = put \o Rehydrate(text)
           /\ pending' = <<>>
        \/ /\ Private /\ ~ Ready(text)
           /\ pending' = text
           /\ UNCHANGED put
  /\ UNCHANGED <<mode, phase, tool, gotTool, putTool>>

\* A tool delta on the route that refuses them.
ToolRefused ==
  /\ phase = "open" /\ ~ Provider
  /\ phase' = "failed"
  /\ UNCHANGED <<mode, pending, tool, got, put, gotTool, putTool>>

\* A tool delta of a provider: kept until all of it is JSON, then passed on
\* whole, ahead of the text that is pending.
ToolDelta(fragment) ==
  /\ MaySend(Len(fragment)) /\ Provider
  /\ gotTool' = gotTool \o fragment
  /\ LET json == tool \o fragment
     IN \/ /\ ~ Private
           /\ putTool' = putTool \o fragment
           /\ UNCHANGED <<phase, tool>>
        \/ /\ Private /\ Len(json) > MaxChars
           /\ phase' = "failed" /\ tool' = json
           /\ UNCHANGED putTool
        \/ /\ Private /\ Len(json) <= MaxChars /\ Last(json) = "stop"
           /\ putTool' = putTool \o Rehydrate(json)
           /\ tool' = <<>>
           /\ UNCHANGED phase
        \/ /\ Private /\ Len(json) <= MaxChars /\ Last(json) # "stop"
           /\ tool' = json
           /\ UNCHANGED <<phase, putTool>>
  /\ UNCHANGED <<mode, pending, got, put>>

\* Any other frame: the text before it goes out first, whatever it ends in.
OtherFrame ==
  /\ MaySend(1)
  /\ got' = Append(got, "frame")
  /\ put' = Append(Finish, "frame")
  /\ pending' = <<>>
  /\ UNCHANGED <<mode, phase, tool, gotTool, putTool>>

\* Mutant: the timer waits for a full buffer, as push does.
TimerWhenFull ==
  /\ phase = "open" /\ mode = "legacy"
  /\ pending # <<>> /\ Ready(pending)
  /\ put' = Finish
  /\ pending' = <<>>
  /\ UNCHANGED <<mode, phase, tool, got, gotTool, putTool>>

\* Nothing came for stream_max_buffer_ms.
Timer ==
  /\ phase = "open" /\ mode = "legacy"
  /\ pending # <<>> /\ ~ Open(pending)
  /\ put' = Finish
  /\ pending' = <<>>
  /\ UNCHANGED <<mode, phase, tool, got, gotTool, putTool>>

\* [DONE] of a provider: message_stop is passed on after the text.
Stop ==
  /\ phase = "open" /\ Provider
  /\ phase' = "stopped"
  /\ put' = Finish
  /\ pending' = <<>>
  /\ UNCHANGED <<mode, tool, got, gotTool, putTool>>

\* Upstream closes the stream.
End ==
  /\ phase = "open"
  /\ phase' = "ended"
  /\ put' = Finish
  /\ pending' = <<>>
  /\ UNCHANGED <<mode, tool, got, gotTool, putTool>>

\* An upstream error or a frame that cannot be parsed: what is pending is lost.
Fail ==
  /\ phase = "open"
  /\ phase' = "failed"
  /\ UNCHANGED <<mode, pending, tool, got, put, gotTool, putTool>>

Next == \/ \E fragment \in Fragment : TextDelta(fragment) \/ ToolDelta(fragment)
        \/ ToolRefused \/ OtherFrame \/ Timer \/ Stop \/ End \/ Fail

\* The timer runs whatever upstream does; upstream owes nothing.
Fairness == WF_vars(Timer)

Spec == Init /\ [][Next]_vars /\ Fairness
-----------------------------------------------------------------------------
(* Properties *)

\* The type invariant.  Text stays pending beyond the limit of its buffer
\* only where it may be the start of a pseudonym.
TypeOK ==
  /\ mode \in Mode
  /\ phase \in {"open", "stopped", "ended", "failed"}
  /\ pending \in Seq(Piece) /\ tool \in Seq(Piece) /\ gotTool \in Seq(Piece)
  /\ got \in Seq(Piece \cup {"frame"})
  /\ putTool \in Seq(Piece \cup Original \cup {"none"})
  /\ put \in Seq(Piece \cup Original \cup {"frame", "none"})
  /\ pending # <<>> /\ Len(pending) >= MaxChars => Open(pending)

\* The answer as the route without streaming shows it.
Shown(text) == IF Private THEN Rehydrate(text) ELSE text

\* However the answer is cut into fragments, whichever of push, timer, frame
\* and end lets its text out: what was passed on and what is still pending is
\* the answer with its pseudonyms replaced as a whole, each text before the
\* frame that followed it; the same holds for the JSON of tool calls.  When
\* the stream is over without an error, all the text has been passed on.
AsUnstreamed ==
  /\ put \o Shown(pending) = Shown(got)
  /\ putTool \o Shown(tool) = Shown(gotTool)
  /\ phase \in {"stopped", "ended"} => put = Shown(got)

\* On the route with a timer, text that cannot be the start of a pseudonym
\* does not wait for the end of its sentence: it is passed on, or more text
\* makes it one, or the stream is over.
NotHeldLong ==
  (mode = "legacy" /\ pending # <<>> /\ ~ Open(pending)) ~>
    (pending = <<>> \/ Open(pending) \/ phase # "open")
=============================================================================
