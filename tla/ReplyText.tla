------------------------------ MODULE ReplyText ------------------------------
(***************************************************************************)
(* How a model's reply becomes an object: extract_json of planner.py with  *)
(* the repair of unescaped quotes, and what is refused before any schema   *)
(* is asked.  Planner, worker and critic read their replies this way.      *)
(*                                                                         *)
(* A text is a sequence of characters, one for each kind the code tells    *)
(* apart: quote, backslash, newline, space, the comma (for colons and      *)
(* brackets too), the braces, and x for any other.  Fences are stripped    *)
(* beforehand.                                                             *)
(***************************************************************************)
EXTENDS Integers, Sequences

CONSTANT ReplyLength   \* length of the longest text

ASSUME ReplyLengthAssumption == ReplyLength \in Nat

White == {"space", "newline"}
Letters == White \cup {"quote", "backslash", "comma", "lbrace", "rbrace", "x"}

VARIABLES replyText, \* the text of a reply
          read       \* how it was read: "unread", "plain", "repaired", "span", "refused"

replyVars == <<replyText, read>>

ReplyInit ==
  /\ replyText \in UNION {[1 .. n -> Letters] : n \in 0 .. ReplyLength}
  /\ read = "unread"

-----------------------------------------------------------------------------
(* json.loads, as an automaton: where it is, and how many braces are open *)

Dead == [at |-> "dead", depth |-> 0]

JsonStep(s, ch) ==
  CASE s.at = "string" /\ ch = "quote" -> [s EXCEPT !.at = "after"]
    [] s.at = "string" /\ ch = "backslash" -> [s EXCEPT !.at = "escape"]
    [] s.at = "string" /\ ch \notin {"quote", "backslash", "newline"} -> s
    [] s.at = "escape" /\ ch \in {"quote", "backslash", "x"} -> [s EXCEPT !.at = "string"]
    [] s.at \in {"value", "open", "after"} /\ ch \in White -> s
    [] s.at \in {"value", "open"} /\ ch = "quote" -> [s EXCEPT !.at = "string"]
    [] s.at \in {"value", "open"} /\ ch = "x" -> [s EXCEPT !.at = "after"]
    [] s.at \in {"value", "open"} /\ ch = "lbrace" -> [at |-> "open", depth |-> s.depth + 1]
    [] s.at = "after" /\ ch = "comma" /\ s.depth > 0 -> [s EXCEPT !.at = "value"]
    [] s.at \in {"open", "after"} /\ ch = "rbrace" /\ s.depth > 0 ->
         [at |-> "after", depth |-> s.depth - 1]
    [] OTHER -> Dead

\* Where it is after so many characters.
Reading(t) ==
  LET at[i \in 0 .. Len(t)] ==
        IF i = 0 THEN [at |-> "value", depth |-> 0] ELSE JsonStep(at[i - 1], t[i])
  IN  at

\* "object", "other" for JSON of another type, or "malformed".
Loads(t) ==
  IF Reading(t)[Len(t)] # [at |-> "after", depth |-> 0] THEN "malformed"
  ELSE IF \E i \in 1 .. Len(t) : t[i] = "lbrace" /\ \A j \in 1 .. i - 1 : t[j] \in White
       THEN "object" ELSE "other"

-----------------------------------------------------------------------------
(* _repair_unescaped_quotes *)

At(t, i) == IF i \in 1 .. Len(t) THEN t[i] ELSE "end"

\* _maybe_comma: from i on, white space with a newline in it, and then a quote.
LacksComma(t, i) ==
  \E k \in i + 1 .. Len(t) :
    t[k] = "quote" /\ (\A m \in i .. k - 1 : t[m] \in White) /\ \E m \in i .. k - 1 : t[m] = "newline"

\* A quote at i closes the string it is in: something that may follow a string does,
\* and it is not the third of three.
Closes(t, i) ==
  /\ At(t, i + 1) \in White \cup {"comma", "rbrace", "end"}
  /\ ~(At(t, i - 1) = "quote" /\ At(t, i - 2) = "quote")

Comma(t, i) == IF LacksComma(t, i) THEN <<"comma">> ELSE <<>>

\* Mutant: a backslash is a character like the others.
NoPair(ch) == "in"

\* Inside a string: a backslash and what comes after it are kept as they are.
AfterKept(ch) == IF ch = "backslash" THEN "pair" ELSE "in"

\* A quote that cannot close its string is escaped, a newline closes it; after a string a
\* missing comma is put in.
ScanStep(t, acc, i) ==
  LET to(place, piece) == [at |-> place, out |-> acc.out \o piece]
  IN  CASE acc.at = "out" -> to(IF t[i] = "quote" THEN "in" ELSE "out", <<t[i]>>)
        [] acc.at = "pair" -> to("in", <<t[i]>>)
        [] acc.at = "in" /\ t[i] = "quote" /\ Closes(t, i) -> to("out", <<"quote">> \o Comma(t, i + 1))
        [] acc.at = "in" /\ t[i] = "quote" /\ ~Closes(t, i) -> to("in", <<"backslash", "quote">>)
        [] acc.at = "in" /\ t[i] = "newline" -> to("out", <<"quote">> \o Comma(t, i) \o <<"newline">>)
        [] OTHER -> to(AfterKept(t[i]), <<t[i]>>)

\* Whether the scan is in a string after so many characters, and what it has written.
Scanning(t) ==
  LET scanned[i \in 0 .. Len(t)] ==
        IF i = 0 THEN [at |-> "out", out |-> <<>>] ELSE ScanStep(t, scanned[i - 1], i)
  IN  scanned
Repair(t) == Scanning(t)[Len(t)].out

-----------------------------------------------------------------------------
(* _try_loads, extract_json *)

\* What json.loads makes of the text or, that failing, of its repair; another type
\* than an object is refused at once.
TryLoads(t) == IF Loads(t) # "malformed" THEN Loads(t) ELSE Loads(Repair(t))

\* cleaned[find("{") : rfind("}") + 1], empty when there is no such span.
Span(t) ==
  LET opens == {i \in 1 .. Len(t) : t[i] = "lbrace"}  closes == {i \in 1 .. Len(t) : t[i] = "rbrace"}
  IN  IF opens = {} \/ closes = {} THEN <<>>
      ELSE SubSeq(t, CHOOSE i \in opens : \A j \in opens : i <= j,
                     CHOOSE i \in closes : \A j \in closes : j <= i)

ExtractJson(t) ==
  CASE Loads(t) = "object" -> "plain"
    [] Loads(t) = "malformed" /\ Loads(Repair(t)) = "object" -> "repaired"
    [] TryLoads(t) = "malformed" /\ TryLoads(Span(t)) = "object" -> "span"
    [] OTHER -> "refused"

\* _validate, _parse_critique: a refused text is an error to tell the model about, or
\* for the critic a critique that is passed over.
ReadReply ==
  /\ read = "unread"
  /\ read' = ExtractJson(replyText)
  /\ UNCHANGED replyText

ReplySpec == ReplyInit /\ [][ReadReply]_replyVars

-----------------------------------------------------------------------------
(* Properties *)

\* "Valid JSON is never changed" (planner.py:99-102): a text that loads is its own
\* repair.
ValidIsUnchanged == Loads(replyText) # "malformed" => Repair(replyText) = replyText

\* The repair of a repair is the repair: nothing it writes is taken for damage.
RepairIsFinal == Repair(Repair(replyText)) = Repair(replyText)

\* Repairing never turns an object into something that is none: a text whose outermost
\* braces hold an object is not refused.
SpanIsFound == read = "refused" => Loads(Span(replyText)) # "object"
=============================================================================
