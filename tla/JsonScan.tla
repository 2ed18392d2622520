------------------------------ MODULE JsonScan ------------------------------
(* The JSON scanner under the JavaScript, PHP and Swift readers: a single  *)
(* pass over a document that may stop anywhere, or hold anything.          *)
(*                                                                         *)
(* A document is a sequence of tokens: the punctuation of JSON, "word" and *)
(* "name" for strings, "true" for a scalar that is a JSON literal, "junk"  *)
(* for one that is not, and "open" for a quote that nothing closes.        *)
EXTENDS Naturals, FiniteSets, Sequences, SequencesExt, TLC

CONSTANTS
    Manuscripts, \* the documents to scan: a text, and what it was cut from
    MaxDepth     \* containers within containers (MAX_DEPTH, 256)

VARIABLES
    manuscript,  \* the document
    scanner      \* the scanner at work on it

scanVars == <<manuscript, scanner>>

Strings == {"word", "name"}
Tokens  == Strings \cup {"{", "}", "[", "]", ",", ":", "true", "junk", "open"}

(* rest: the tokens under and after the cursor; frames: the containers     *)
(* entered, with the key or index being read in each; expects: whether a   *)
(* value comes next; values: the strings found, each under its path.       *)
Scanner(tokens) ==
    [rest |-> tokens, frames |-> <<>>, expects |-> TRUE, values |-> <<>>,
     wellFormed |-> TRUE, steps |-> 0]

Frame(opening) == [opening |-> opening, key |-> "", index |-> 0]

PathOf(frames) ==
    [k \in DOMAIN frames |->
        IF frames[k].opening = "{" THEN frames[k].key ELSE ToString(frames[k].index)]

Under(s)   == IF s.rest = <<>> THEN "end" ELSE Head(s.rest)
Past(s)    == [s EXCEPT !.rest = IF @ = <<>> THEN @ ELSE Tail(@)]
Spoilt(s)  == [s EXCEPT !.wellFormed = FALSE]
Leave(s)   == [s EXCEPT !.frames = Front(@)]
Stop(s)    == [Spoilt(s) EXCEPT !.rest = <<>>]
Ended(s)   == s.frames = <<>> /\ ~s.expects

Closed(s)  == [s EXCEPT !.expects = FALSE]

(* Back in the container after a value: an array counts an element.        *)
Element(s) ==
    IF s.frames # <<>> /\ Last(s.frames).opening = "["
    THEN [s EXCEPT !.frames[Len(s.frames)].index = @ + 1] ELSE s

(* A container is left for the one that holds it.                          *)
LeaveFrame(s) == Element(Leave(s))

ReadValue(s) ==
    LET token == Under(s)
        back  == Closed(s)
    IN CASE token \in {"{", "["} ->
              IF Len(s.frames) >= MaxDepth THEN Element(Stop(back))
              ELSE [Past(back) EXCEPT !.frames = Append(@, Frame(token))]
         [] token \in Strings ->
              Element([Past(back) EXCEPT
                  !.values = Append(@, [path |-> PathOf(s.frames), value |-> token])])
         [] token = "true"           -> Element(Past(back))
         [] token \in {"junk", ":"}  -> Element(Spoilt(Past(back)))
         [] token = "open"           -> Element(Stop(back))
         [] OTHER                    -> Element(Spoilt(back))  \* a delimiter, or the end

ReadObject(s) ==
    LET token == Under(s) IN
    CASE token = "}"       -> LeaveFrame(Past(s))
      [] token = "end"     -> LeaveFrame(Spoilt(s))
      [] token = ","       -> Past(s)
      [] token = "]"       -> LeaveFrame(Spoilt(s))   \* it closes an outer array
      [] token \in Strings ->
           IF Under(Past(s)) # ":" THEN Spoilt(Past(s))
           ELSE [Past(Past(s)) EXCEPT !.frames[Len(s.frames)].key = token, !.expects = TRUE]
      [] token = "open"    -> LeaveFrame(Stop(s))
      [] OTHER             -> Spoilt(Past(s))

(* One that reads a stray brace as a value, which consumes nothing.        *)
ReadArrayStalling(s) ==
    LET token == Under(s) IN
    CASE token = "]"   -> LeaveFrame(Past(s))
      [] token = "end" -> LeaveFrame(Spoilt(s))
      [] token = ","   -> Past(s)
      [] OTHER         -> [s EXCEPT !.expects = TRUE]

ReadArray(s) ==
    LET token == Under(s) IN
    CASE token = "]"   -> LeaveFrame(Past(s))
      [] token = "end" -> LeaveFrame(Spoilt(s))
      [] token = ","   -> Past(s)
      [] token = "}"   -> LeaveFrame(Spoilt(s))       \* it closes an outer object
      [] OTHER         -> [s EXCEPT !.expects = TRUE]

ScanToken(s) ==
    IF s.expects THEN ReadValue(s)
    ELSE IF Last(s.frames).opening = "{" THEN ReadObject(s) ELSE ReadArray(s)

(* Anything after the top-level value belongs to no value at all.          *)
WellFormed(s) == s.wellFormed /\ s.rest = <<>>

-----------------------------------------------------------------------------
JsonInit == manuscript \in Manuscripts /\ scanner = Scanner(manuscript.text)

JsonStep ==
    /\ ~Ended(scanner)
    /\ scanner' = [ScanToken(scanner) EXCEPT !.steps = @ + 1]
    /\ UNCHANGED manuscript
JsonSpec == JsonInit /\ [][JsonStep]_scanVars

-----------------------------------------------------------------------------
(* The grammar of JSON, token by token: which may come (`turn`), in which  *)
(* containers, and the strings passed so far, under their paths.           *)
Unread == [frames |-> <<>>, turn |-> "value", values |-> <<>>, deepest |-> 0]

AfterValue(r) == [Element(r) EXCEPT !.turn = IF r.frames = <<>> THEN "end" ELSE "next"]
Inside(r, opening) == r.frames # <<>> /\ Last(r.frames).opening = opening

Follow(r, token) ==
    CASE r.turn \in {"value", "first"} /\ token \in {"{", "["} ->
           LET depth == Len(r.frames) + 1
           IN  [r EXCEPT !.frames = Append(@, Frame(token)),
                         !.turn = IF token = "{" THEN "firstKey" ELSE "first",
                         !.deepest = IF @ < depth THEN depth ELSE @]
      [] r.turn \in {"value", "first"} /\ token \in Strings ->
           AfterValue([r EXCEPT !.values = Append(@, [path |-> PathOf(r.frames), value |-> token])])
      [] r.turn \in {"value", "first"} /\ token = "true" -> AfterValue(r)
      [] r.turn \in {"first", "next"} /\ token = "]" /\ Inside(r, "[") -> AfterValue(Leave(r))
      [] r.turn \in {"firstKey", "next"} /\ token = "}" /\ Inside(r, "{") -> AfterValue(Leave(r))
      [] r.turn \in {"firstKey", "key"} /\ token \in Strings ->
           [r EXCEPT !.frames[Len(r.frames)].key = token, !.turn = "colon"]
      [] r.turn = "colon" /\ token = ":" -> [r EXCEPT !.turn = "value"]
      [] r.turn = "next" /\ token = "," ->
           [r EXCEPT !.turn = IF Inside(r, "{") THEN "key" ELSE "value"]
      [] OTHER -> [r EXCEPT !.turn = "wrong"]

(* What is read of a text after each of its tokens.                        *)
Reading(text) ==
    LET read[i \in 0 .. Len(text)] == IF i = 0 THEN Unread ELSE Follow(read[i - 1], text[i])
    IN  read

(* A document of JSON, with the strings it holds and its depth.            *)
Document(text, holds, depth) == [text |-> text, holds |-> holds, depth |-> depth]
IsJson(doc) ==
    LET read == Reading(doc.text)
        all  == read[Len(doc.text)]
    IN  /\ \A i \in DOMAIN read : read[i].turn # "wrong"
        /\ all.turn = "end" /\ all.values = doc.holds /\ all.deepest = doc.depth

(* A document, or what is left of it after its first n tokens are read.    *)
Cut(doc, n)  == [text |-> SubSeq(doc.text, 1, n), whole |-> doc, json |-> TRUE]
Loose(text)  == [text |-> text, whole |-> Document(<<"true">>, <<>>, 0), json |-> FALSE]

ManuscriptOK(m) ==
    /\ m.text \in Seq(Tokens)
    /\ m.json => \E n \in 0 .. Len(m.whole.text) : m = Cut(m.whole, n)
    /\ m.json => m.whole.text \in Seq(Tokens) /\ IsJson(m.whole)
ASSUME ScanAssumption == MaxDepth \in Nat /\ \A m \in Manuscripts : ManuscriptOK(m)

(* The scan is total: whatever the document, it ends, in no more than      *)
(* three steps a token: for a bracket, one to see that a value comes, one  *)
(* to enter it and one to leave it (json_scan.rs:10-16).                   *)
(* A JSON document within the depth yields every string it holds, under    *)
(* the string's path, and is well-formed; one that is cut off or too deep  *)
(* yields a prefix of them and says that it is not whole                   *)
(* (json_scan.rs:60-62).                                                   *)
JsonScanIsHonest ==
    /\ scanner.steps <= 3 * Len(manuscript.text) + 1
    /\ manuscript.json /\ Ended(scanner) =>
         LET whole == manuscript.whole IN
         IF manuscript.text = whole.text /\ whole.depth <= MaxDepth
         THEN WellFormed(scanner) /\ scanner.values = whole.holds
         ELSE ~WellFormed(scanner) /\ IsPrefix(scanner.values, whole.holds)
=============================================================================
