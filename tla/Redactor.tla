------------------------------- MODULE Redactor -------------------------------
(***************************************************************************)
(* What the redactor (packages/core/src/redaction.ts) makes of a payload   *)
(* on its way to disk, and whether a replay still recognises it.           *)
(*                                                                         *)
(* A recording redacts a payload as it is serialised: escaped, in one text *)
(* with its neighbours (writer.ts, #write).  A scrub redacts what was      *)
(* written once more (scrub.ts).  A replay redacts the live request leaf   *)
(* by leaf, unescaped, with a salt of its own (proxy/src/matching.ts), and *)
(* compares.  A text is a sequence of atoms: stretches of characters that  *)
(* the rules tell apart.                                                   *)
(***************************************************************************)
EXTENDS Naturals, Sequences, FiniteSets
LOCAL INSTANCE SequencesExt

CONSTANT Payloads    \* bound: the payloads there are, sequences of leaves

\* Ten random characters, ten letters, a newline, an invisible character, the
\* backslash and the n an escape is made of, a dot.
Ra == <<"ra">>    Rb == <<"rb">>    Word == <<"word">>
Nl == <<"nl">>    Zw == <<"zw">>    Esc == <<"\\">>
N == <<"n">>      Dot == <<".">>    Under == <<"_">>
Sk == <<"sk-">>
Begin == <<"-----BEGIN">>           End == <<"-----END">>
\* A picture in base64 holds slashes; a body kept as base64 says so.
Png == <<"png">>  Slash == <<"/">>  Iend == <<"iend">>
Marker == <<"orca-base64:">>
\* "id":" and its closing quote, of a leaf and inside of a leaf that is a body.
Field(key) == <<"field", key>>      Close == <<"close">>
Id == <<"id:">>   Quote == <<"quote">>
Open == <<"{">>   Shut == <<"}">>

Random == {Ra, Rb, Png, Iend}
\* [A-Za-z0-9_-]; and the alphabet of base64.
InClass(a) == a \in Random \union {Word, N, Under, Sk}
InBase64(a) == a \in Random \union {Word, N, Slash}
Width(a) == IF a \in {Ra, Rb, Word} THEN 10 ELSE IF a \in {Png, Iend} THEN 20
            ELSE IF a = Sk THEN 3 ELSE 1

\* {16,} of the key's rule; TOKEN and MIN_ENTROPY_LENGTH; 17 characters that all
\* differ have more than ENTROPY_BITS_PER_CHAR.
MinKey == 16
MinToken == 20
MinVariety == 17

Total(seq) == FoldLeft(LAMBDA n, a : n + Width(a), 0, seq)
Part(t, r) == SubSeq(t, r[1], r[2])
Indices(t) == [i \in 1..Len(t) |-> i]

\* The maximal stretches of a text whose atoms all satisfy is[a].
Stretches(t, in) ==
  {r \in (1..Len(t)) \X (1..Len(t)) :
     /\ r[1] <= r[2] /\ r[1]..r[2] \subseteq in
     /\ r[1] - 1 \notin in /\ r[2] + 1 \notin in}
Tokens(t) == Stretches(t, {i \in 1..Len(t) : InClass(t[i])})

-----------------------------------------------------------------------------
(* The rules. *)

First(S) == CHOOSE i \in S : \A j \in S : i <= j

\* From a BEGIN to the next END, or to the end of the text.
PrivateKeys(t) ==
  LET open(i) == \A j \in 1..(i - 1) : t[j] = Begin => \E k \in j..(i - 1) : t[k] = End
      end(i) == First({j \in i..Len(t) : t[j] = End} \union {Len(t)})
  IN {<<i, end(i)>> : i \in {i \in 1..Len(t) : t[i] = Begin /\ open(i)}}

\* sk- and sixteen characters or more, as far as they go.
Keys(t) ==
  LET heads(r) == {i \in r[1]..r[2] : t[i] = Sk /\ Total(SubSeq(t, i + 1, r[2])) >= MinKey}
  IN {<<First(heads(r)), r[2]>> : r \in {r \in Tokens(t) : heads(r) # {}}}

\* Long, of letters and digits, and more varied than prose.
LooksRandom(token) ==
  LET atoms == {token[i] : i \in DOMAIN token}
  IN /\ Total(token) >= MinToken /\ atoms \intersect Random # {}
     /\ Total(SetToSeq(atoms)) >= MinVariety

\* "id":"..." of the shape an id has, at one level of quoting.
ProtocolIds(t) ==
  {<<i, j>> \in (1..Len(t)) \X (1..Len(t)) :
     /\ i < j /\ \A k \in (i + 1)..(j - 1) : InClass(t[k])
     /\ <<t[i], t[j]>> \in {<<Field("id"), Close>>, <<Id, Quote>>}}
\* A run of base64 that is a whole picture and nothing else.
Images(t) ==
  {r \in Stretches(t, {i \in 1..Len(t) : InBase64(t[i])}) : Part(t, r) = <<Png, Slash, Iend>>}

\* Fault: an id is a token like any other.
SpansOfImages(t) == Images(t)
\* Regions the sweep must not touch.
Spans(t) == ProtocolIds(t) \union Images(t)

\* Wholly inside a span, not merely starting inside.
Guesses(t) ==
  {r \in Tokens(t) : /\ LooksRandom(Part(t, r))
                     /\ ~\E s \in Spans(t) : s[1] <= r[1] /\ r[2] <= s[2]}

-----------------------------------------------------------------------------
(* What is found is replaced. *)

\* The digest is of the salt and the secret.
Placeholder(f, salt) == <<"secret", f.kind, salt, f.secret>>

Replace(t, found, salt) ==
  LET at(i) == {f \in found : f.a <= i /\ i <= f.b}
      starts(i) == {f \in at(i) : f.a = i}
  IN FoldLeft(LAMBDA out, i :
                IF starts(i) # {} THEN Append(out, Placeholder(CHOOSE f \in starts(i) : TRUE, salt))
                ELSE IF at(i) # {} THEN out ELSE Append(out, t[i]),
              << >>, Indices(t))

Found(t, kind, ranges) ==
  {[a |-> r[1], b |-> r[2], kind |-> kind, secret |-> Part(t, r)] : r \in ranges}

IsBinary(t) == \E i \in 1..Len(t) : t[i] = Marker

Shaped(t, salt) ==
  LET one == Replace(t, Found(t, "private_key", PrivateKeys(t)), salt)
  IN Replace(one, Found(one, "sk_api_key", Keys(one)), salt)
Swept(t, salt) ==
  IF IsBinary(t) THEN t ELSE Replace(t, Found(t, "high_entropy", Guesses(t)), salt)

\* Fault: what a reader does not see is left to the rules above.
HiddenUnseen(t, salt) == t
\* The same judgement over what a reader sees; it acts only on a match that has
\* an invisible character inside, the outermost first, and names it by what is
\* visible.
Hidden(t, salt) ==
  LET seen == SelectSeq(Indices(t), LAMBDA i : t[i] # Zw)
      view == [k \in 1..Len(seen) |-> t[seen[k]]]
      found == Found(view, "private_key", PrivateKeys(view))
               \union Found(view, "sk_api_key", Keys(view))
               \union (IF IsBinary(t) THEN {} ELSE Found(view, "high_entropy", Guesses(view)))
      split == {f \in found : seen[f.b] - seen[f.a] # f.b - f.a}
      inside(f, g) == g.a <= f.a /\ f.b <= g.b /\ (Len(f.secret) < Len(g.secret)
                        \/ (f.kind = "high_entropy" /\ g.kind # "high_entropy"))
      acted == {f \in split : ~\E g \in split : inside(f, g)}
  IN Replace(t, {[f EXCEPT !.a = seen[f.a], !.b = seen[f.b]] : f \in acted}, salt)

\* redactString
Redact(t, salt) == Hidden(Swept(Shaped(t, salt), salt), salt)

-----------------------------------------------------------------------------
(* Payloads, and their texts on disk. *)

\* A payload is an object, or the text of one: a wire body is kept as a string.
Texts == {"object", "body"}
Escaped(a) == IF a = Nl THEN <<Esc, N>> ELSE IF a = Esc THEN <<Esc, Esc>> ELSE <<a>>
Escape(t) == FlattenSeq([i \in DOMAIN t |-> Escaped(t[i])])
Fields(leaves) ==
  FlattenSeq([i \in DOMAIN leaves |-> <<Field(leaves[i].key)>> \o leaves[i].text \o <<Close>>])
Serialise(leaves, kind) ==
  LET object == Escape(Fields(leaves))
  IN <<Open>> \o (IF kind = "body" THEN Escape(object) ELSE object) \o <<Shut>>

\* What is read of a text that does not parse.
Broken == <<<<"broken">>>>

\* A backslash says what the next character stands for, if it is one it may.
Unescape(t) ==
  LET step(s, a) ==
        IF ~s.escaped THEN (IF a = Esc THEN [s EXCEPT !.escaped = TRUE]
                            ELSE [s EXCEPT !.out = Append(@, a)])
        ELSE [ok |-> s.ok /\ a \in {Esc, N}, escaped |-> FALSE,
              out |-> Append(s.out, IF a = N THEN Nl ELSE a)]
      end == FoldLeft(step, [ok |-> TRUE, escaped |-> FALSE, out |-> << >>], t)
  IN IF end.ok /\ ~end.escaped THEN end.out ELSE Broken

\* JSON.parse of a line: the level the writer checks.
Parsed(t) ==
  IF t[Len(t)] = Shut THEN Unescape(SubSeq(t, 2, Len(t) - 1)) ELSE Broken

Leaves(t) ==
  LET step(s, a) ==
        IF a[1] = "field" /\ ~s.inside
        THEN [s EXCEPT !.inside = TRUE, !.out = Append(@, [key |-> a[2], text |-> << >>])]
        ELSE IF a = Close /\ s.inside THEN [s EXCEPT !.inside = FALSE]
        ELSE IF s.inside /\ a[1] # "field" THEN [s EXCEPT !.out[Len(s.out)].text = Append(@, a)]
        ELSE [s EXCEPT !.ok = FALSE]
      end == FoldLeft(step, [ok |-> TRUE, inside |-> FALSE, out |-> << >>], t)
  IN IF end.ok /\ ~end.inside THEN end.out ELSE Broken

\* rawBodyOf, and the parse of the body.
ReadBack(t, kind) ==
  LET outer == Parsed(t)
      inner == IF kind = "body" THEN Unescape(outer) ELSE outer
  IN Leaves(inner)

-----------------------------------------------------------------------------
VARIABLES
  payload,    \* what is recorded
  as,         \* an object, or a body
  spilled,    \* over INLINE_PAYLOAD_LIMIT: a blob of its own
  stage,      \* "meant", "written", "rejected", "scrubbed"
  disk        \* the text on disk

redactVars == <<payload, as, spilled, stage, disk>>

RedactInit ==
  /\ payload \in Payloads /\ as \in Texts /\ spilled \in BOOLEAN
  /\ stage = "meant" /\ disk = << >>

\* An object of the schema whose line would not parse is not written.
Legible(t) == spilled \/ Parsed(t) # Broken

\* TraceWriter.#write
Write ==
  /\ stage = "meant"
  /\ LET t == Redact(Serialise(payload, as), "run")
     IN IF Legible(t) THEN stage' = "written" /\ disk' = t
                      ELSE stage' = "rejected" /\ UNCHANGED disk
  /\ UNCHANGED <<payload, as, spilled>>

\* scrubCommand: a line that would no longer parse is kept as it was.
Scrub ==
  /\ stage = "written"
  /\ stage' = "scrubbed"
  /\ LET t == Redact(disk, "scrub")
     IN disk' = IF Legible(t) THEN t ELSE disk
  /\ UNCHANGED <<payload, as, spilled>>

RedactNext == Write \/ Scrub
RedactSpec == RedactInit /\ [][RedactNext]_redactVars

-----------------------------------------------------------------------------
(* Properties. *)

\* foldPlaceholders
Folded(t) == [i \in 1..Len(t) |-> IF t[i][1] = "secret" THEN SubSeq(t[i], 1, 2) ELSE t[i]]
\* redactedForm, of the live side
Live(leaf) == Redact(leaf.text, "replay")

Visible(t) == SelectSeq(t, LAMBDA a : a # Zw)
IsId(leaf) == leaf.key = "id" /\ \A i \in DOMAIN leaf.text : InClass(leaf.text[i])

\* What the serialised text adds to a leaf does not change what the rules see: no
\* private key is cut off by the end, no token stands right behind an escape,
\* the mark of a binary body is not met in another leaf's text, nor an invisible
\* character in what else would be an id; and no picture runs on into a token.
Plain ==
  /\ \A i \in DOMAIN payload :
       LET seen == Visible(payload[i].text)
           left == Visible(Shaped(payload[i].text, "run"))
       IN /\ IsId([payload[i] EXCEPT !.text = seen]) => IsId(payload[i])
          /\ \A j \in 1..(Len(seen) - 1) : seen[j] = Iend => ~InClass(seen[j + 1])
          /\ \A r \in PrivateKeys(seen) : seen[r[2]] = End
          /\ \A j, k \in DOMAIN left :
               j < k /\ left[j] = Nl /\ left[k] \in Random
               => \E l \in (j + 1)..(k - 1) : ~InClass(left[l])
  /\ (\E i \in DOMAIN payload : IsBinary(payload[i].text)) =>
       \A i \in DOMAIN payload : IsBinary(payload[i].text)

\* "The two have to be put in the same representation first": what a replay reads
\* of a leaf, out of a line or a blob, scrubbed since or not, is what it makes of
\* the same leaf asked again; and a tool call's id, which the provider will be
\* sent again, is there verbatim (redaction.ts; matching.ts, comparableRequest).
StillMatches ==
  stage \in {"written", "scrubbed"} /\ Plain =>
    LET back == ReadBack(disk, as)
    IN /\ Len(back) = Len(payload)
       /\ \A i \in DOMAIN payload :
            /\ back[i].key = payload[i].key
            /\ IF IsId(payload[i]) /\ Keys(payload[i].text) = {}
               THEN back[i].text = payload[i].text
               ELSE Folded(back[i].text) = Folded(Live(payload[i]))

\* Nothing on disk has the shape of a credential, neither as it is written nor as
\* it is read without what cannot be seen (redaction.ts, #scan and #scanHidden).
NoShapeIsLeft ==
  stage \in {"written", "scrubbed"} =>
    \A t \in {disk, Visible(disk)} : PrivateKeys(t) = {} /\ Keys(t) = {}

\* "Placeholders contain no quote or backslash, so scrubbing the serialized line
\* cannot make it unparseable" (writer.ts, #write): no event is lost to it.
LinesStayParseable == stage # "rejected"

\* "The detectors are idempotent over already-scrubbed text" (scrub.ts, commit).
DetectorsAreIdempotent == stage = "written" => Redact(disk, "run") = disk
=============================================================================
